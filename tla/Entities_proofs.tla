---------------------------- MODULE Entities_proofs ----------------------------
(* Theorems about the entities of a namespace: the clients that ResourceManager
   keeps of them, for any number of groups, however they share their connections,
   of routes, emitters, losses and failures; and the descriptions that
   AtomManagement reads and writes, for any requests, namespaces, calls and
   faults. *)
EXTENDS ResourceManager, AtomManagement, FiniteSetTheorems, SequenceTheorems, TLAPS

-----------------------------------------------------------------------------
(* ResourceManager *)

Side   == {"rx", "tx"}
Unit   == Route \cup Emitter
UnitKind == {"queue", "topic", "subscription"}
Entity == {u.entity : u \in Unit}
Links  == [Side -> {"none", "opening", "up", "down"}]
Box    == [kind : UnitKind, entity : Entity, rx : Nat, tx : Nat]
Client == [conn : Connection, kind : UnitKind, entity : Entity, sides : SUBSET Side,
           listed : BOOLEAN, closed : BOOLEAN]
Job    == ({"group"} \X Group) \cup ({"client"} \X Nat)
             \cup ({"connection", "shut"} \X Connection) \cup {Step("end", 0)}

Elems(list) == {list[k] : k \in DOMAIN list}

\* The connections of a group.
ConnectionsOf(g) == {RxClient(g), TxClient(g)}

\* "end" comes last, and once.
EndsOnce(list) == \A k \in DOMAIN list : list[k][1] = "end" => k = Len(list)

ResourceTypes ==
    /\ phase \in {"new", "constructed", "destroying", "destroyed"}
    /\ known \subseteq Group /\ pending \subseteq Unit
    /\ phase = "new" => clients = <<>> /\ open = {}
    /\ phase = "constructed" => known = Group
    /\ phase # "new" =>
          rx = [g \in Group |-> RxClient(g)] /\ tx = [g \in Group |-> TxClient(g)]
    /\ clients \in Seq(Client) /\ links \in Seq(Links) /\ Len(links) = Len(clients)
    /\ \A i \in DOMAIN clients : clients[i].conn \in ConnectionsOf(clients[i].conn[1])
    /\ open \subseteq Connection /\ \A conn \in open : conn \in ConnectionsOf(conn[1])

\* A group has one container for an entity; a queue's client serves both ways when
\* the connection does; nothing is received from a topic, or sent to a subscription.
BoxInv ==
    /\ containers \in [Group -> SUBSET Box]
    /\ \A g \in Group : \A c \in containers[g] :
          /\ \A d \in containers[g] : c.kind = d.kind /\ c.entity = d.entity => c = d
          /\ c.kind = "queue" /\ RxClient(g) = TxClient(g) => c.rx = c.tx
          /\ c.kind = "subscription" => c.tx = 0
          /\ c.kind = "topic" => c.rx = 0
          /\ c.rx <= Len(clients) /\ c.tx <= Len(clients)

\* The container c of the group g has the client i.
Has(g, c, i) ==
    /\ c.kind = clients[i].kind /\ c.entity = clients[i].entity
    /\ \/ c.rx = i /\ clients[i].conn = RxClient(g)
       \/ c.tx = i /\ clients[i].conn = TxClient(g)

\* No client of a group that is not destroyed is forgotten.
KeptInv ==
    \A g \in known : \A i \in DOMAIN clients :
        clients[i].conn[1] = g => \E c \in containers[g] : Has(g, c, i)

JobInv ==
    /\ job \in Seq(Job) /\ EndsOnce(job)
    /\ phase # "destroying" => job = <<>>
    /\ phase = "destroying" => \A g \in known : Step("group", g) \in Elems(job)

Opening(i) == "opening" \in {links[i].rx, links[i].tx}

\* The destruction will close the connection.
ToBeClosed(conn) ==
    \/ conn[1] \in known
    \/ Step("connection", conn) \in Elems(job)
    \/ Step("shut", conn) \in Elems(job)

CalmInv == calm =>
    /\ lost = {}
    /\ phase \in {"destroying", "destroyed"} => \A i \in DOMAIN links : ~Opening(i)
    /\ phase = "destroying" => \A conn \in open : ToBeClosed(conn)
    /\ phase = "destroyed" => open = {}

\* Nothing can open what was closed cleanly.
CleanInv ==
    \A conn \in clean :
        /\ conn \in flagged /\ conn \notin open /\ conn \notin lost
        /\ \A i \in On(conn) : ~Opening(i)

IInv == ResourceTypes /\ BoxInv /\ KeptInv /\ JobInv /\ CalmInv /\ CleanInv

-----------------------------------------------------------------------------
(* Connections, links and lists of things to do *)

LEMMA GroupConnects ==
    ASSUME NEW g \in Group
    PROVE  /\ RxClient(g) \in Connection /\ RxClient(g)[1] = g
           /\ TxClient(g) \in Connection /\ TxClient(g)[1] = g
  BY OptionsOK DEF RxClient, TxClient, ServerConnector, ClientConnector, Connection, Group

LEMMA UnitConnects ==
    ASSUME NEW u \in Unit
    PROVE  /\ u.group \in Group /\ u.kind \in UnitKind /\ u.entity \in Entity /\ u.side \in Side
           /\ u.side = "rx" => u.kind # "topic"
           /\ u.side = "tx" => u.kind # "subscription"
  BY OptionsOK DEF Unit, UnitKind, Entity, Side, Group

LEMMA FunctionIsList ==
    ASSUME NEW S, NEW n \in Nat, NEW f \in [1..n -> S]
    PROVE  f \in Seq(S) /\ Len(f) = n /\ DOMAIN f = 1..n
  OBVIOUS

LEMMA NoLinksAreLinks == NoLinks \in Links /\ NoLinks.rx = "none" /\ NoLinks.tx = "none"
  BY DEF NoLinks, Links, Side

LEMMA DroppedLinks ==
    ASSUME NEW f \in Links
    PROVE  /\ Dropped(f) \in Links
           /\ "opening" \in {Dropped(f).rx, Dropped(f).tx} => "opening" \in {f.rx, f.tx}
  BY DEF Dropped, Links, Side

LEMMA ElemsOfConcat ==
    ASSUME NEW S, NEW a \in Seq(S), NEW b \in Seq(S)
    PROVE  /\ a \o b \in Seq(S) /\ Elems(a \o b) = Elems(a) \cup Elems(b)
           /\ (\A k \in DOMAIN a : a[k][1] # "end") /\ EndsOnce(b) => EndsOnce(a \o b)
  <1> DEFINE m == Len(a)
             n == Len(b)
  <1>1. /\ a \o b \in Seq(S) /\ m \in Nat /\ n \in Nat /\ Len(a \o b) = m + n
        /\ DOMAIN a = 1..m /\ DOMAIN b = 1..n /\ DOMAIN (a \o b) = 1..(m + n)
        /\ \A k \in 1..(m + n) : (a \o b)[k] = IF k <= m THEN a[k] ELSE b[k - m]
    OBVIOUS
  <1> HIDE DEF m, n
  <1>2. \A k \in 1..(m + n) : k <= m => k \in 1..m
    BY <1>1
  <1>3. \A k \in 1..(m + n) : ~(k <= m) => k - m \in 1..n
    BY <1>1
  <1>4. \A k \in 1..n : k + m \in 1..(m + n) /\ ~(k + m <= m) /\ (k + m) - m = k
    BY <1>1
  <1>5. \A k \in 1..m : k \in 1..(m + n) /\ k <= m
    BY <1>1
  <1>6. Elems(a \o b) \subseteq Elems(a) \cup Elems(b)
    BY <1>1, <1>2, <1>3 DEF Elems
  <1>7. Elems(a) \cup Elems(b) \subseteq Elems(a \o b)
    <2>1. ASSUME NEW k \in 1..m PROVE a[k] \in Elems(a \o b)
      BY <1>1, <1>5 DEF Elems
    <2>2. ASSUME NEW k \in 1..n PROVE b[k] \in Elems(a \o b)
      BY <1>1, <1>4 DEF Elems
    <2>3. QED
      BY <2>1, <2>2, <1>1 DEF Elems
  <1>8. ASSUME \A k \in DOMAIN a : a[k][1] # "end", EndsOnce(b)
        PROVE  EndsOnce(a \o b)
    <2> SUFFICES ASSUME NEW k \in 1..(m + n), (a \o b)[k][1] = "end"
                 PROVE  k = m + n
      BY <1>1 DEF EndsOnce
    <2>1. ~(k <= m)
      BY <1>1, <1>2, <1>8
    <2>2. b[k - m][1] = "end" /\ k - m \in 1..n
      BY <2>1, <1>1, <1>3
    <2>3. k - m = n
      BY <2>2, <1>8, <1>1 DEF EndsOnce, n
    <2>4. QED
      BY <2>3, <1>1
  <1>9. QED
    BY <1>1, <1>6, <1>7, <1>8

LEMMA ElemsOfTail ==
    ASSUME NEW S, NEW list \in Seq(S), list # <<>>
    PROVE  /\ Head(list) \in S /\ Tail(list) \in Seq(S)
           /\ Elems(list) = {Head(list)} \cup Elems(Tail(list))
           /\ EndsOnce(list) => EndsOnce(Tail(list))
           /\ EndsOnce(list) /\ Head(list)[1] = "end" => Elems(list) = {Head(list)}
  <1> DEFINE n == Len(list)
  <1>1. /\ n \in Nat /\ n >= 1 /\ DOMAIN list = 1..n
        /\ Head(list) = list[1] /\ Head(list) \in S
        /\ Tail(list) \in Seq(S) /\ Len(Tail(list)) = n - 1
        /\ DOMAIN Tail(list) = 1..(n - 1)
        /\ \A k \in 1..(n - 1) : Tail(list)[k] = list[k + 1]
    OBVIOUS
  <1> HIDE DEF n
  <1>2. \A k \in 1..n : k = 1 \/ (k - 1 \in 1..(n - 1) /\ (k - 1) + 1 = k)
    BY <1>1
  <1>3. \A k \in 1..(n - 1) : k + 1 \in 1..n
    BY <1>1
  <1>4. Elems(list) = {Head(list)} \cup Elems(Tail(list))
    <2>1. ASSUME NEW k \in 1..n PROVE list[k] \in {Head(list)} \cup Elems(Tail(list))
      <3>1. CASE k = 1
        BY <3>1, <1>1
      <3>2. CASE k - 1 \in 1..(n - 1) /\ (k - 1) + 1 = k
        BY <3>2, <1>1 DEF Elems
      <3>3. QED
        BY <3>1, <3>2, <1>2
    <2>2. ASSUME NEW k \in 1..(n - 1) PROVE Tail(list)[k] \in Elems(list)
      BY <1>1, <1>3 DEF Elems
    <2>3. Head(list) \in Elems(list)
      BY <1>1 DEF Elems
    <2>4. QED
      BY <2>1, <2>2, <2>3, <1>1 DEF Elems
  <1>5. ASSUME EndsOnce(list) PROVE EndsOnce(Tail(list))
    <2> SUFFICES ASSUME NEW k \in 1..(n - 1), Tail(list)[k][1] = "end"
                 PROVE  k = n - 1
      BY <1>1 DEF EndsOnce
    <2>1. list[k + 1][1] = "end" /\ k + 1 \in 1..n
      BY <1>1, <1>3
    <2>2. k + 1 = n
      BY <2>1, <1>1, <1>5 DEF EndsOnce, n
    <2>3. QED
      BY <2>2, <1>1
  <1>6. ASSUME EndsOnce(list), Head(list)[1] = "end" PROVE Elems(list) = {Head(list)}
    <2>1. n = 1
      BY <1>6, <1>1 DEF EndsOnce, n
    <2>2. QED
      BY <2>1, <1>1 DEF Elems
  <1>7. QED
    BY <1>1, <1>4, <1>5, <1>6

LEMMA StepsList ==
    ASSUME NEW S, NEW args \in Seq(S), NEW what
    PROVE  /\ Steps(what, args) \in Seq({what} \X S)
           /\ \A k \in DOMAIN Steps(what, args) : Steps(what, args)[k][1] = what
           /\ \A e : e \in Elems(Steps(what, args)) <=> \E a \in Elems(args) : e = Step(what, a)
  <1>1. Len(args) \in Nat /\ DOMAIN args = 1..Len(args) /\ \A k \in 1..Len(args) : args[k] \in S
    OBVIOUS
  <1>2. Steps(what, args) \in [1..Len(args) -> {what} \X S]
    BY <1>1 DEF Steps, Step
  <1>3. Steps(what, args) \in Seq({what} \X S) /\ DOMAIN Steps(what, args) = 1..Len(args)
    BY <1>1, <1>2, FunctionIsList
  <1>4. \A k \in 1..Len(args) : Steps(what, args)[k] = Step(what, args[k])
    BY DEF Steps
  <1>5. \A k \in 1..Len(args) : Steps(what, args)[k][1] = what
    BY <1>4 DEF Step
  <1>6. \A e : e \in Elems(Steps(what, args)) <=> \E a \in Elems(args) : e = Step(what, a)
    <2>1. ASSUME NEW k \in 1..Len(args)
          PROVE  \E a \in Elems(args) : Steps(what, args)[k] = Step(what, a)
      BY <1>1, <1>4 DEF Elems
    <2>2. ASSUME NEW k \in 1..Len(args) PROVE Step(what, args[k]) \in Elems(Steps(what, args))
      BY <1>3, <1>4 DEF Elems
    <2>3. QED
      BY <2>1, <2>2, <1>1, <1>3 DEF Elems
  <1>7. QED
    BY <1>3, <1>5, <1>6

LEMMA LargerList ==
    ASSUME NEW S, NEW T, S \subseteq T, NEW list \in Seq(S)
    PROVE  list \in Seq(T)
  OBVIOUS

LEMMA SetToSeqList ==
    ASSUME NEW S, IsFiniteSet(S)
    PROVE  SetToSeq(S) \in Seq(S)
  <1> DEFINE n == Cardinality(S)
  <1>1. n \in Nat /\ ExistsBijection(1..n, S)
    BY FS_CardinalityType
  <1> HIDE DEF n
  <1>2. PICK f \in [1..n -> S] : IsInjective(f)
    BY <1>1 DEF ExistsBijection, Bijection, Injection, IsInjective
  <1>3. SetToSeq(S) \in [1..n -> S]
    BY <1>2 DEF SetToSeq, n
  <1>4. QED
    BY <1>1, <1>3, FunctionIsList

-----------------------------------------------------------------------------
(* What a step that makes no client and no container leaves true *)

\* The clients are the same, whatever their state.
SameClients ==
    /\ clients' \in Seq(Client) /\ Len(clients') = Len(clients)
    /\ \A i \in DOMAIN clients :
          /\ clients'[i].conn = clients[i].conn
          /\ clients'[i].kind = clients[i].kind /\ clients'[i].entity = clients[i].entity

LEMMA Lists ==
    ASSUME ResourceTypes
    PROVE  /\ Len(clients) \in Nat
           /\ DOMAIN clients = 1..Len(clients) /\ DOMAIN links = 1..Len(clients)
           /\ \A i \in 1..Len(clients) : clients[i] \in Client /\ links[i] \in Links
           /\ clients \in [1..Len(clients) -> Client]
           /\ links \in [1..Len(clients) -> Links]
           /\ UNCHANGED clients => SameClients
  <1>1. Len(clients) \in Nat /\ DOMAIN clients = 1..Len(clients) /\ DOMAIN links = 1..Len(links)
        /\ clients \in [1..Len(clients) -> Client] /\ links \in [1..Len(links) -> Links]
        /\ clients \in Seq(Client) /\ Len(links) = Len(clients)
    BY DEF ResourceTypes
  <1>2. UNCHANGED clients => SameClients
    BY <1>1 DEF SameClients
  <1>3. QED
    BY <1>1, <1>2

LEMMA ContainersHold ==
    ASSUME ResourceTypes, BoxInv, KeptInv, SameClients, UNCHANGED containers, known' \subseteq known
    PROVE  BoxInv' /\ KeptInv'
  <1>1. DOMAIN clients' = DOMAIN clients
    BY Lists DEF SameClients
  <1>2. BoxInv'
    BY DEF BoxInv, SameClients
  <1>3. ASSUME NEW g \in known', NEW i \in DOMAIN clients', clients'[i].conn[1] = g
        PROVE  \E c \in containers'[g] : Has(g, c, i)'
    <2>1. clients[i].conn[1] = g /\ g \in known /\ i \in DOMAIN clients
      BY <1>1, <1>3 DEF SameClients
    <2>2. PICK c \in containers[g] : Has(g, c, i)
      BY <2>1 DEF KeptInv
    <2>3. Has(g, c, i)'
      BY <2>1, <2>2 DEF Has, SameClients
    <2>4. QED
      BY <2>2, <2>3
  <1>4. KeptInv'
    BY <1>3 DEF KeptInv
  <1>5. QED
    BY <1>2, <1>4

LEMMA TypesHold ==
    ASSUME ResourceTypes, SameClients, links' \in Seq(Links), Len(links') = Len(links),
           UNCHANGED <<phase, known, rx, tx, pending>>,
           \A conn \in open' : conn \in open \/ \E i \in DOMAIN clients : conn = clients[i].conn
    PROVE  ResourceTypes'
  <1>1. DOMAIN clients' = DOMAIN clients
    BY Lists DEF SameClients
  <1>2. \A i \in DOMAIN clients' :
            clients'[i].conn \in ConnectionsOf(clients'[i].conn[1])
    BY <1>1 DEF ResourceTypes, SameClients
  <1>3. \A i \in DOMAIN clients :
            clients[i].conn \in Connection /\ clients[i].conn \in ConnectionsOf(clients[i].conn[1])
    BY Lists DEF ResourceTypes, Client
  <1>4. open' \subseteq Connection /\ \A conn \in open' : conn \in ConnectionsOf(conn[1])
    BY <1>3 DEF ResourceTypes
  <1>5. phase' = "new" => clients' = <<>> /\ open' = {}
    <2> SUFFICES ASSUME phase' = "new" PROVE clients' = <<>> /\ open' = {}
      OBVIOUS
    <2>1. clients = <<>> /\ open = {}
      BY DEF ResourceTypes
    <2>2. Len(clients') = 0
      BY <2>1 DEF SameClients
    <2>3. clients' = <<>>
      BY <2>2 DEF SameClients
    <2>4. DOMAIN clients = {}
      BY <2>1
    <2>5. QED
      BY <2>1, <2>3, <2>4
  <1>6. QED
    BY <1>2, <1>4, <1>5 DEF ResourceTypes, SameClients

LEMMA JobHolds ==
    ASSUME JobInv, UNCHANGED <<job, phase, known>>
    PROVE  JobInv'
  BY DEF JobInv

LEMMA CleanHolds ==
    ASSUME ResourceTypes, CleanInv, SameClients, clean' = clean,
           \A conn \in clean : conn \in flagged' /\ conn \notin open' /\ conn \notin lost',
           \A i \in DOMAIN clients : clients[i].conn \in clean /\ Opening(i)' => Opening(i)
    PROVE  CleanInv'
  <1>1. DOMAIN clients' = DOMAIN clients
    BY Lists DEF SameClients
  <1>2. ASSUME NEW conn \in clean, NEW i \in On(conn)' PROVE ~Opening(i)'
    <2>1. i \in On(conn) /\ i \in DOMAIN clients /\ clients[i].conn = conn
      BY <1>1, <1>2 DEF On, SameClients
    <2>2. QED
      BY <2>1, <1>2 DEF CleanInv
  <1>3. QED
    BY <1>2 DEF CleanInv

-----------------------------------------------------------------------------
(* Links and connections *)

LEMMA ConstructKeeps == ASSUME IInv, Construct PROVE IInv'
  <1>1. clients = <<>> /\ clients' = <<>> /\ open' = {} /\ DOMAIN clients' = {}
    BY DEF IInv, ResourceTypes, Construct, amqpVars
  <1>2. ResourceTypes'
    <2>1. known' = Group /\ phase' = "constructed" /\ pending' = Unit /\ links' = links
          /\ rx' = [g \in Group |-> RxClient(g)] /\ tx' = [g \in Group |-> TxClient(g)]
      BY DEF Construct, amqpVars, Group, Servers, Clients, Unit
    <2>2. clients' \in Seq(Client) /\ links' \in Seq(Links) /\ Len(links') = Len(clients')
      BY <2>1, <1>1 DEF IInv, ResourceTypes
    <2>3. QED
      BY <2>1, <2>2, <1>1 DEF ResourceTypes
  <1>3. BoxInv' /\ KeptInv'
    BY <1>1 DEF IInv, BoxInv, KeptInv, Construct
  <1>4. JobInv'
    BY DEF IInv, JobInv, Construct
  <1>5. CalmInv' /\ CleanInv'
    <2>1. CalmInv'
      BY DEF IInv, CalmInv, Construct, amqpVars, historyVars
    <2>2. CleanInv'
      BY DEF IInv, CleanInv, Construct, amqpVars, historyVars, On, Opening
    <2>3. QED
      BY <2>1, <2>2
  <1>6. QED
    BY <1>2, <1>3, <1>4, <1>5 DEF IInv

LEMMA BeginsKeeps ==
    ASSUME IInv, NEW i \in DOMAIN clients, NEW side \in Side, LinkBegins(i, side)
    PROVE  IInv'
  <1> USE DEF IInv
  <1>1. /\ clients' = clients /\ containers' = containers /\ known' = known /\ phase' = phase
        /\ rx' = rx /\ tx' = tx /\ pending' = pending /\ open' = open /\ job' = job
        /\ lost' = lost /\ flagged' = flagged /\ clean' = clean
        /\ links' = [links EXCEPT ![i][side] = "opening"] /\ clients[i].conn \notin flagged
        /\ calm' = (calm /\ phase = "constructed")
    BY DEF LinkBegins, MayBegin, groupVars
  <1>2. SameClients
    BY <1>1, Lists
  <1>3. links' \in [1..Len(clients) -> Links] /\ \A j \in 1..Len(clients) : j # i => links'[j] = links[j]
    BY <1>1, Lists DEF Links
  <1>4. links' \in Seq(Links) /\ Len(links') = Len(links)
    BY <1>3, Lists, FunctionIsList DEF ResourceTypes
  <1>5. ResourceTypes'
    BY <1>1, <1>2, <1>4, TypesHold
  <1>6. BoxInv' /\ KeptInv' /\ JobInv'
    BY <1>1, <1>2, ContainersHold, JobHolds
  <1>7. CalmInv'
    BY <1>1 DEF CalmInv
  <1>8. CleanInv'
    <2>1. \A j \in DOMAIN clients : clients[j].conn \in clean => j # i
      BY <1>1 DEF CleanInv
    <2>2. \A j \in DOMAIN clients : clients[j].conn \in clean /\ Opening(j)' => Opening(j)
      BY <2>1, <1>3, Lists DEF Opening
    <2>3. QED
      BY <2>2, <1>1, <1>2, CleanHolds DEF CleanInv
  <1>9. QED
    BY <1>5, <1>6, <1>7, <1>8

LEMMA OpensKeeps ==
    ASSUME IInv, NEW i \in DOMAIN clients, NEW side \in Side, LinkOpens(i, side)
    PROVE  IInv'
  <1> USE DEF IInv
  <1>1. /\ clients' = clients /\ containers' = containers /\ known' = known /\ phase' = phase
        /\ rx' = rx /\ tx' = tx /\ pending' = pending /\ job' = job
        /\ lost' = lost /\ clean' = clean /\ calm' = calm
        /\ open' = open \cup {clients[i].conn}
        /\ flagged \subseteq flagged' \cup {clients[i].conn}
        /\ links[i][side] = "opening"
    BY DEF LinkOpens, groupVars, historyVars
  <1>2. PICK v \in {"none", "up"} : links' = [links EXCEPT ![i][side] = v]
    BY DEF LinkOpens
  <1>3. SameClients
    BY <1>1, Lists
  <1>4. links' \in [1..Len(clients) -> Links]
    BY <1>2, Lists DEF Links
  <1>5. links' \in Seq(Links) /\ Len(links') = Len(links)
    BY <1>4, Lists, FunctionIsList DEF ResourceTypes
  <1>6. Opening(i) /\ \A j \in DOMAIN clients : Opening(j)' => Opening(j)
    <2>1. Opening(i)
      BY <1>1 DEF Opening, Side
    <2>2. ASSUME NEW j \in DOMAIN clients, Opening(j)', j # i PROVE Opening(j)
      BY <2>2, <1>2, Lists DEF Opening
    <2>3. QED
      BY <2>1, <2>2
  <1>7. ResourceTypes'
    BY <1>1, <1>3, <1>5, TypesHold
  <1>8. BoxInv' /\ KeptInv' /\ JobInv'
    BY <1>1, <1>3, ContainersHold, JobHolds
  <1>9. CalmInv'
    <2>1. calm => phase \notin {"destroying", "destroyed"} /\ lost = {}
      BY <1>6, Lists DEF CalmInv
    <2>2. QED
      BY <2>1, <1>1 DEF CalmInv
  <1>10. CleanInv'
    <2>1. clients[i].conn \notin clean
      BY <1>6 DEF CleanInv, On
    <2>2. QED
      BY <2>1, <1>1, <1>3, <1>6, CleanHolds DEF CleanInv
  <1>11. QED
    BY <1>7, <1>8, <1>9, <1>10

LEMMA DropKeeps ==
    ASSUME ResourceTypes, NEW conn,
           links' = [i \in DOMAIN links |-> IF i \in On(conn) THEN Dropped(links[i]) ELSE links[i]]
    PROVE  /\ links' \in Seq(Links) /\ Len(links') = Len(links)
           /\ \A i \in DOMAIN clients : Opening(i)' => Opening(i)
  <1>1. ASSUME NEW i \in DOMAIN clients
        PROVE  links'[i] \in Links /\ (Opening(i)' => Opening(i))
    <2>1. i \in DOMAIN links /\ links[i] \in Links
      BY Lists
    <2>2. links'[i] \in {Dropped(links[i]), links[i]}
      BY <2>1
    <2>3. QED
      BY <2>1, <2>2, DroppedLinks DEF Opening
  <1>2. links' \in [1..Len(clients) -> Links]
    BY <1>1, Lists
  <1>3. links' \in Seq(Links) /\ Len(links') = Len(clients)
    <2>1. Len(clients) \in Nat
      BY Lists
    <2>2. QED
      BY <1>2, <2>1, FunctionIsList
  <1>4. Len(links) = Len(clients)
    BY Lists
  <1>5. QED
    BY <1>1, <1>3, <1>4

LEMMA DisconnectedKeeps ==
    ASSUME IInv, NEW conn \in Connection, Disconnected(conn)
    PROVE  IInv'
  <1> USE DEF IInv
  <1>1. /\ clients' = clients /\ containers' = containers /\ known' = known /\ phase' = phase
        /\ rx' = rx /\ tx' = tx /\ pending' = pending /\ job' = job
        /\ flagged' = flagged /\ clean' = clean /\ calm' = FALSE
        /\ conn \in open /\ open' = open \ {conn} /\ lost' \subseteq lost \cup {conn}
    BY DEF Disconnected, groupVars
  <1>2. SameClients
    BY <1>1, Lists
  <1>3. /\ links' \in Seq(Links) /\ Len(links') = Len(links)
        /\ \A i \in DOMAIN clients : Opening(i)' => Opening(i)
    BY DropKeeps DEF Disconnected
  <1>4. ResourceTypes'
    BY <1>1, <1>2, <1>3, TypesHold
  <1>5. BoxInv' /\ KeptInv' /\ JobInv'
    BY <1>1, <1>2, ContainersHold, JobHolds
  <1>6. CalmInv'
    BY <1>1 DEF CalmInv
  <1>7. CleanInv'
    <2>1. \A c \in clean : c \in flagged /\ c # conn /\ c \notin open /\ c \notin lost
      BY <1>1 DEF CleanInv
    <2>2. QED
      BY <2>1, <1>1, <1>2, <1>3, CleanHolds
  <1>8. QED
    BY <1>4, <1>5, <1>6, <1>7

LEMMA ReconnectKeeps ==
    ASSUME IInv, NEW conn \in Connection, Reconnect(conn)
    PROVE  IInv'
  <1> USE DEF IInv
  <1>1. /\ clients' = clients /\ containers' = containers /\ known' = known /\ phase' = phase
        /\ rx' = rx /\ tx' = tx /\ pending' = pending /\ job' = job
        /\ flagged' = flagged /\ clean' = clean /\ calm' = calm /\ open' = open
        /\ conn \in lost /\ lost' = lost \ {conn} /\ links' = Reopening(conn)
    BY DEF Reconnect, groupVars, historyVars
  <1>2. SameClients
    BY <1>1, Lists
  <1>3. ASSUME NEW i \in DOMAIN clients
        PROVE  links'[i] \in Links /\ (i \notin On(conn) => links'[i] = links[i])
    <2>1. i \in DOMAIN links /\ links[i] \in Links
      BY Lists
    <2>2. QED
      BY <2>1, <1>1 DEF Reopening, ListedOn, On, Links, Side
  <1>4. links' \in Seq(Links) /\ Len(links') = Len(links)
    <2>1. links' \in [1..Len(clients) -> Links]
      BY <1>1, <1>3, Lists DEF Reopening
    <2>2. QED
      BY <2>1, Lists, FunctionIsList DEF ResourceTypes
  <1>5. ResourceTypes'
    BY <1>1, <1>2, <1>4, TypesHold
  <1>6. BoxInv' /\ KeptInv' /\ JobInv'
    BY <1>1, <1>2, ContainersHold, JobHolds
  <1>7. CalmInv'
    BY <1>1 DEF CalmInv
  <1>8. CleanInv'
    <2>1. conn \notin clean
      BY <1>1 DEF CleanInv
    <2>2. \A i \in DOMAIN clients : clients[i].conn \in clean /\ Opening(i)' => Opening(i)
      BY <2>1, <1>3 DEF On, Opening
    <2>3. QED
      BY <2>2, <1>1, <1>2, CleanHolds DEF CleanInv
  <1>9. QED
    BY <1>5, <1>6, <1>7, <1>8

-----------------------------------------------------------------------------
(* The destruction *)

\* What the steps of the destruction do not touch.
LEMMA AmqpHolds ==
    ASSUME IInv, UNCHANGED <<rx, tx, clients, pending, amqpVars>>, phase # "new", phase' # "new",
           phase' \in {"new", "constructed", "destroying", "destroyed"},
           known' \subseteq known, phase' = "constructed" => known' = known /\ phase = phase'
    PROVE  /\ ResourceTypes' /\ SameClients
           /\ \A i \in DOMAIN links' : Opening(i)' => i \in DOMAIN links /\ Opening(i)
           /\ clean' = clean => CleanInv'
  <1> USE DEF IInv
  <1>1. SameClients
    BY Lists
  <1>2. ResourceTypes'
    BY DEF ResourceTypes, amqpVars
  <1>3. \A i \in DOMAIN links' : Opening(i)' => i \in DOMAIN links /\ Opening(i)
    BY DEF amqpVars, Opening
  <1>4. clean' = clean => CleanInv'
    BY DEF CleanInv, amqpVars, On, Opening
  <1>5. QED
    BY <1>1, <1>2, <1>3, <1>4

LEMMA DestroyKeeps == ASSUME IInv, Destroy PROVE IInv'
  <1> USE DEF IInv
  <1> DEFINE order == ClientOptions \o ServerOptions
             todo  == Steps("group", order)
             last  == <<Step("end", 0)>>
  <1>1. /\ phase = "constructed" /\ phase' = "destroying" /\ known' = known
        /\ containers' = containers /\ open' = open /\ lost' = lost /\ links' = links
        /\ clean' = clean /\ job' = todo \o last
        /\ calm' => calm /\ \A i \in DOMAIN links : ~Opening(i)
    BY DEF Destroy, amqpVars, Opening
  <1>2. order \in Seq(Group) /\ Elems(order) = Group
    <2>1. ClientOptions \in Seq(Group) /\ ServerOptions \in Seq(Group)
      BY OptionsOK DEF Group
    <2>2. order \in Seq(Group) /\ Elems(order) = Elems(ClientOptions) \cup Elems(ServerOptions)
      BY <2>1, ElemsOfConcat
    <2>3. Elems(ClientOptions) = GroupOf(ClientOptions) /\ Elems(ServerOptions) = GroupOf(ServerOptions)
      BY DEF Elems, GroupOf
    <2>4. QED
      BY <2>2, <2>3 DEF Group
  <1> HIDE DEF order, todo
  <1>3. /\ todo \in Seq(Job) /\ \A k \in DOMAIN todo : todo[k][1] # "end"
        /\ \A g \in Group : Step("group", g) \in Elems(todo)
    <2>1. todo \in Seq({"group"} \X Group)
      BY <1>2, StepsList DEF todo
    <2>2. \A k \in DOMAIN todo : todo[k][1] = "group"
      BY <1>2, StepsList DEF todo
    <2>3. \A g \in Elems(order) : Step("group", g) \in Elems(todo)
      BY <1>2, StepsList DEF todo
    <2>4. {"group"} \X Group \subseteq Job
      BY DEF Job
    <2>5. todo \in Seq(Job)
      BY <2>1, <2>4
    <2>6. QED
      BY <2>2, <2>3, <2>5, <1>2
  <1>4. last \in Seq(Job) /\ EndsOnce(last)
    BY DEF Job, EndsOnce, Step
  <1> HIDE DEF last
  <1>5. job' \in Seq(Job) /\ EndsOnce(job') /\ \A g \in Group : Step("group", g) \in Elems(job')
    BY <1>1, <1>3, <1>4, ElemsOfConcat
  <1>6. ResourceTypes' /\ SameClients /\ CleanInv'
    BY <1>1, AmqpHolds DEF Destroy
  <1>7. BoxInv' /\ KeptInv'
    BY <1>1, <1>6, ContainersHold
  <1>8. JobInv'
    BY <1>1, <1>5 DEF JobInv, ResourceTypes, EndsOnce
  <1>9. CalmInv'
    <2>1. \A conn \in open : conn[1] \in known
      BY <1>1 DEF ResourceTypes, Connection
    <2>2. QED
      BY <2>1, <1>1 DEF CalmInv, ToBeClosed, Opening
  <1>10. QED
    BY <1>6, <1>7, <1>8, <1>9

\* The lists of clients to close, of a group or of a connection, are finite.
LEMMA NumbersList ==
    ASSUME NEW n \in Nat, NEW S \in SUBSET (0..n)
    PROVE  SetToSeq(S) \in Seq(Nat)
  <1>1. IsFiniteSet(0..n)
    BY FS_Interval
  <1>2. IsFiniteSet(S)
    BY <1>1, FS_Subset
  <1>3. SetToSeq(S) \in Seq(S)
    BY <1>2, SetToSeqList
  <1>4. S \subseteq Nat
    OBVIOUS
  <1>5. QED
    BY <1>3, <1>4, LargerList

LEMMA ToCloseList ==
    ASSUME IInv, NEW g \in Group
    PROVE  ToClose(g) \in Seq(Nat)
  <1> DEFINE all == UNION {ClosedBy(c) : c \in containers[g]}
  <1>1. Len(clients) \in Nat
    BY Lists DEF IInv
  <1>2. all \in SUBSET (0..Len(clients))
    <2>1. ASSUME NEW c \in containers[g] PROVE ClosedBy(c) \subseteq 0..Len(clients)
      <3>1. c \in Box /\ c.rx <= Len(clients) /\ c.tx <= Len(clients)
        BY DEF IInv, BoxInv
      <3>2. c.rx \in 0..Len(clients) /\ c.tx \in 0..Len(clients)
        BY <3>1, <1>1 DEF Box
      <3>3. QED
        BY <3>2 DEF ClosedBy
    <2>2. QED
      BY <2>1
  <1> HIDE DEF all
  <1>3. SetToSeq(all) \in Seq(Nat)
    BY <1>1, <1>2, NumbersList
  <1>4. QED
    BY <1>3 DEF ToClose, all

LEMMA ListedList ==
    ASSUME IInv, NEW conn
    PROVE  SetToSeq(ListedOn(conn)) \in Seq(Nat)
  <1>1. Len(clients) \in Nat /\ DOMAIN clients = 1..Len(clients)
    BY Lists DEF IInv
  <1>2. ListedOn(conn) \in SUBSET (0..Len(clients))
    BY <1>1 DEF ListedOn, On
  <1>3. QED
    BY <1>1, <1>2, NumbersList

\* What is to be done is done in turn.
LEMMA JobGoesOn ==
    ASSUME IInv, job # <<>>
    PROVE  /\ phase = "destroying" /\ Head(job) \in Job /\ Tail(job) \in Seq(Job)
           /\ EndsOnce(Tail(job)) /\ Elems(job) = {Head(job)} \cup Elems(Tail(job))
           /\ Head(job)[1] = "end" => Elems(job) = {Head(job)}
           /\ Head(job) = <<Head(job)[1], Head(job)[2]>>
  <1>1. Head(job) \in Job => Head(job) = <<Head(job)[1], Head(job)[2]>>
    BY DEF Job, Step
  <1>2. QED
    BY <1>1, ElemsOfTail DEF IInv, JobInv

\* Clients to close are put before the rest.
LEMMA ClientsFirst ==
    ASSUME NEW ids \in Seq(Nat), NEW rest \in Seq(Job), EndsOnce(rest)
    PROVE  /\ Steps("client", ids) \o rest \in Seq(Job)
           /\ EndsOnce(Steps("client", ids) \o rest)
           /\ Elems(rest) \subseteq Elems(Steps("client", ids) \o rest)
  <1>1. Steps("client", ids) \in Seq(Job)
        /\ \A k \in DOMAIN Steps("client", ids) : Steps("client", ids)[k][1] # "end"
    <2>1. Steps("client", ids) \in Seq({"client"} \X Nat)
          /\ \A k \in DOMAIN Steps("client", ids) : Steps("client", ids)[k][1] = "client"
      BY StepsList
    <2>2. QED
      BY <2>1 DEF Job
  <1>2. QED
    BY <1>1, ElemsOfConcat

LEMMA JobMoves ==
    ASSUME IInv, job # <<>>, UNCHANGED <<phase, known>>, job' \in Seq(Job), EndsOnce(job'),
           Elems(Tail(job)) \subseteq Elems(job'),
           Head(job)[1] = "group" => Head(job)[2] \notin known
    PROVE  JobInv'
  <1>1. \A g \in known : Step("group", g) # Head(job)
    BY DEF Step
  <1>2. \A g \in known : Step("group", g) \in Elems(job')
    BY <1>1, JobGoesOn DEF IInv, JobInv
  <1>3. QED
    BY <1>2, JobGoesOn DEF JobInv, EndsOnce

LEMMA CalmMoves ==
    ASSUME IInv, job # <<>>, UNCHANGED <<phase, known, calm, lost>>, open' \subseteq open,
           Elems(Tail(job)) \subseteq Elems(job'),
           \A i \in DOMAIN links' : Opening(i)' => i \in DOMAIN links /\ Opening(i),
           \A conn \in open' : Head(job) \in {Step("connection", conn), Step("shut", conn)}
                                  => ToBeClosed(conn)'
    PROVE  CalmInv'
  <1> SUFFICES ASSUME calm PROVE CalmInv'
    BY DEF CalmInv
  <1>1. phase = "destroying"
    BY JobGoesOn
  <1>2. ASSUME NEW conn \in open' PROVE ToBeClosed(conn)'
    <2>1. ToBeClosed(conn)
      BY <1>1 DEF IInv, CalmInv
    <2>2. QED
      BY <2>1, JobGoesOn DEF ToBeClosed
  <1>3. lost' = {} /\ \A i \in DOMAIN links' : ~Opening(i)'
    BY <1>1 DEF IInv, CalmInv
  <1>4. QED
    BY <1>1, <1>2, <1>3 DEF CalmInv

LEMMA ConnectionsList ==
    ASSUME IInv, phase # "new", NEW g \in Group
    PROVE  /\ Connections(g) \in Seq(Connection)
           /\ \A conn \in ConnectionsOf(g) : conn \in Elems(Connections(g))
  <1>1. rx[g] = RxClient(g) /\ tx[g] = TxClient(g)
        /\ RxClient(g) \in Connection /\ TxClient(g) \in Connection
    BY GroupConnects DEF IInv, ResourceTypes
  <1>2. CASE rx[g] = tx[g]
    BY <1>1, <1>2 DEF Connections, ConnectionsOf, Elems
  <1>3. CASE rx[g] # tx[g]
    <2>1. Connections(g) = <<rx[g], tx[g]>>
      BY <1>3 DEF Connections
    <2>2. Connections(g)[1] = rx[g] /\ Connections(g)[2] = tx[g] /\ DOMAIN Connections(g) = {1, 2}
      BY <2>1
    <2>3. QED
      BY <1>1, <2>1, <2>2 DEF ConnectionsOf, Elems
  <1>4. QED
    BY <1>2, <1>3

\* The clients and the connections of a group, before the rest.
LEMMA GroupFirst ==
    ASSUME NEW ids \in Seq(Nat), NEW conns \in Seq(Connection), NEW rest \in Seq(Job),
           EndsOnce(rest)
    PROVE  LET list == Steps("client", ids) \o Steps("connection", conns) \o rest IN
           /\ list \in Seq(Job) /\ EndsOnce(list) /\ Elems(rest) \subseteq Elems(list)
           /\ \A conn \in Elems(conns) : Step("connection", conn) \in Elems(list)
  <1> DEFINE a == Steps("client", ids)
             b == Steps("connection", conns)
  <1>1. /\ a \in Seq({"client"} \X Nat) /\ \A k \in DOMAIN a : a[k][1] = "client"
        /\ b \in Seq({"connection"} \X Connection) /\ \A k \in DOMAIN b : b[k][1] = "connection"
        /\ \A conn \in Elems(conns) : Step("connection", conn) \in Elems(b)
    BY StepsList
  <1> HIDE DEF a, b
  <1>2. {"client"} \X Nat \subseteq Job /\ {"connection"} \X Connection \subseteq Job
    BY DEF Job
  <1>3. a \in Seq(Job) /\ b \in Seq(Job)
    BY <1>1, <1>2, LargerList
  <1>4. a \o b \in Seq(Job) /\ Elems(a \o b) = Elems(a) \cup Elems(b)
    BY <1>3, ElemsOfConcat
  <1>5. \A k \in DOMAIN (a \o b) : (a \o b)[k][1] # "end"
    <2>1. \A k \in DOMAIN (a \o b) : (a \o b)[k] \in Elems(a) \cup Elems(b)
      BY <1>4 DEF Elems
    <2>2. \A e \in Elems(a) \cup Elems(b) : e[1] # "end"
      BY <1>1 DEF Elems
    <2>3. QED
      BY <2>1, <2>2
  <1> DEFINE c == a \o b
  <1>6. c \in Seq(Job) /\ (\A k \in DOMAIN c : c[k][1] # "end") /\ Elems(c) = Elems(a) \cup Elems(b)
    BY <1>4, <1>5
  <1> HIDE DEF c
  <1>7. c \o rest \in Seq(Job) /\ EndsOnce(c \o rest) /\ Elems(c \o rest) = Elems(c) \cup Elems(rest)
    BY <1>6, ElemsOfConcat
  <1>8. QED
    BY <1>1, <1>6, <1>7 DEF a, b, c

LEMMA DestroyGroupKeeps == ASSUME IInv, DestroyGroup PROVE IInv'
  <1> USE DEF IInv
  <1> DEFINE g == Head(job)[2]
  <1>1. /\ job # <<>> /\ Head(job)[1] = "group" /\ phase' = phase /\ rx' = rx /\ tx' = tx
        /\ clients' = clients /\ pending' = pending /\ UNCHANGED amqpVars
        /\ lost' = lost /\ open' = open /\ clean' = clean /\ calm' = calm
    BY DEF DestroyGroup, Doing, amqpVars, historyVars
  <1>2. g \in Group /\ Head(job) = Step("group", g) /\ phase = "destroying"
    BY <1>1, JobGoesOn DEF Job, Step
  <1>3. known' \subseteq known
    BY DEF DestroyGroup
  <1>4. /\ ResourceTypes' /\ SameClients /\ CleanInv'
        /\ \A i \in DOMAIN links' : Opening(i)' => i \in DOMAIN links /\ Opening(i)
    BY <1>1, <1>2, <1>3, AmqpHolds
  <1>5. CASE g \in known
    <2> DEFINE ids   == ToClose(g)
               conns == Connections(g)
    <2>1. /\ known' = known \ {g} /\ containers' = [containers EXCEPT ![g] = {}]
          /\ job' = Steps("client", ids) \o Steps("connection", conns) \o Tail(job)
      BY <1>5 DEF DestroyGroup, Arg
    <2>2. /\ ids \in Seq(Nat) /\ conns \in Seq(Connection)
          /\ \A conn \in ConnectionsOf(g) : conn \in Elems(conns)
      BY <1>2, ToCloseList, ConnectionsList
    <2> HIDE DEF ids, conns, g
    <2>3. /\ job' \in Seq(Job) /\ EndsOnce(job') /\ Elems(Tail(job)) \subseteq Elems(job')
          /\ \A conn \in ConnectionsOf(g) : Step("connection", conn) \in Elems(job')
      BY <1>1, <2>1, <2>2, JobGoesOn, GroupFirst
    <2>4. BoxInv'
      <3>1. containers' \in [Group -> SUBSET Box]
            /\ \A h \in Group : containers'[h] \subseteq containers[h]
        BY <1>2, <2>1 DEF BoxInv
      <3>2. QED
        BY <3>1, <1>1 DEF BoxInv
    <2>5. KeptInv'
      <3>1. \A h \in known' : h \in known /\ containers'[h] = containers[h]
        BY <2>1 DEF ResourceTypes, BoxInv
      <3>2. QED
        BY <3>1, <1>1 DEF KeptInv, Has
    <2>6. JobInv'
      <3>1. \A h \in known' : h \in known /\ Step("group", h) # Head(job)
        BY <2>1, <1>2 DEF Step
      <3>2. \A h \in known' : Step("group", h) \in Elems(job')
        BY <3>1, <2>3, <1>1, <1>2, JobGoesOn DEF JobInv
      <3>3. QED
        BY <3>2, <2>3, <1>1, <1>2 DEF JobInv, EndsOnce
    <2>7. CalmInv'
      <3> SUFFICES ASSUME calm PROVE CalmInv'
        BY <1>1 DEF CalmInv
      <3>1. ASSUME NEW conn \in open PROVE ToBeClosed(conn)'
        <4>1. ToBeClosed(conn) /\ conn \in ConnectionsOf(conn[1])
          BY <1>2 DEF CalmInv, ResourceTypes
        <4>2. Head(job) \notin {Step("connection", conn), Step("shut", conn)}
          BY <1>2 DEF Step
        <4>3. CASE conn[1] = g
          BY <4>1, <4>3, <2>3 DEF ToBeClosed
        <4>4. CASE conn[1] # g
          BY <4>1, <4>2, <4>4, <2>1, <2>3, <1>1, JobGoesOn DEF ToBeClosed
        <4>5. QED
          BY <4>3, <4>4
      <3>2. lost' = {} /\ \A i \in DOMAIN links' : ~Opening(i)'
        BY <1>1, <1>2, <1>4 DEF CalmInv
      <3>3. QED
        BY <3>1, <3>2, <1>1, <1>2 DEF CalmInv
    <2>8. QED
      BY <1>4, <2>4, <2>5, <2>6, <2>7
  <1>6. CASE g \notin known
    <2>1. known' = known /\ containers' = containers /\ job' = Tail(job)
      BY <1>6 DEF DestroyGroup, Arg
    <2> HIDE DEF g
    <2>2. BoxInv' /\ KeptInv'
      BY <1>4, <2>1, ContainersHold
    <2>3. Head(job)[2] \notin known
      BY <1>6 DEF g
    <2>4. JobInv'
      BY <1>1, <2>1, <2>3, JobGoesOn, JobMoves
    <2>5. \A conn : Head(job) \notin {Step("connection", conn), Step("shut", conn)}
      BY <1>2 DEF Step
    <2>6. CalmInv'
      BY <1>1, <1>4, <2>1, <2>5, CalmMoves
    <2>7. QED
      BY <1>4, <2>2, <2>4, <2>6
  <1>7. QED
    BY <1>5, <1>6

LEMMA CloseClientKeeps == ASSUME IInv, CloseClient PROVE IInv'
  <1> USE DEF IInv
  <1>1. /\ job # <<>> /\ Head(job)[1] = "client" /\ job' = Tail(job) /\ phase' = phase
        /\ known' = known /\ rx' = rx /\ tx' = tx /\ containers' = containers
        /\ pending' = pending /\ open' = open /\ lost' = lost /\ flagged' = flagged
        /\ clean' = clean /\ calm' = calm /\ Close(Arg)
    BY DEF CloseClient, Doing, groupVars, historyVars
  <1>2. SameClients
    <2>1. \/ clients' = clients
          \/ clients' = [clients EXCEPT ![Arg].closed = TRUE, ![Arg].listed = FALSE]
      BY <1>1 DEF Close
    <2>2. clients' \in [1..Len(clients) -> Client]
          /\ \A i \in 1..Len(clients) :
                /\ clients'[i].conn = clients[i].conn /\ clients'[i].kind = clients[i].kind
                /\ clients'[i].entity = clients[i].entity
      <3>1. CASE clients' = clients
        BY <3>1, Lists
      <3>2. CASE clients' = [clients EXCEPT ![Arg].closed = TRUE, ![Arg].listed = FALSE]
        <4> DEFINE k == Arg
        <4>1. clients' = [clients EXCEPT ![k].closed = TRUE, ![k].listed = FALSE]
          BY <3>2
        <4> HIDE DEF k
        <4>2. QED
          BY <4>1, Lists DEF Client
      <3>3. QED
        BY <3>1, <3>2, <2>1
    <2>3. QED
      BY <2>2, Lists, FunctionIsList DEF SameClients
  <1>3. links' \in [1..Len(clients) -> Links]
        /\ \A i \in DOMAIN clients : Opening(i)' => Opening(i)
    <2>1. CASE links' = links
      BY <2>1, Lists DEF Opening
    <2>2. CASE links' = [links EXCEPT ![Arg] =
                 [s \in {"rx", "tx"} |-> IF @[s] = "opening" THEN "opening" ELSE "none"]]
      <3>1. ASSUME NEW i \in 1..Len(clients)
            PROVE  links'[i] \in Links /\ (Opening(i)' => Opening(i))
        <4>1. CASE i # Arg
          BY <4>1, <2>2, Lists DEF Opening
        <4>2. CASE i = Arg
          <5>1. links'[i] = [s \in {"rx", "tx"} |->
                                IF links[i][s] = "opening" THEN "opening" ELSE "none"]
            BY <4>2, <2>2, Lists
          <5>2. QED
            BY <5>1, Lists DEF Opening, Links, Side
        <4>3. QED
          BY <4>1, <4>2
      <3>2. QED
        BY <3>1, <2>2, Lists
    <2>3. QED
      BY <2>1, <2>2, <1>1 DEF Close
  <1>4. links' \in Seq(Links) /\ Len(links') = Len(links) /\ DOMAIN links' = DOMAIN clients
    BY <1>3, Lists, FunctionIsList DEF ResourceTypes
  <1>5. ResourceTypes'
    BY <1>1, <1>2, <1>4, TypesHold
  <1>6. BoxInv' /\ KeptInv'
    BY <1>1, <1>2, ContainersHold
  <1>7. JobInv'
    BY <1>1, JobGoesOn, JobMoves
  <1>8. CalmInv'
    <2>1. \A conn : Head(job) \notin {Step("connection", conn), Step("shut", conn)}
      BY <1>1 DEF Step
    <2>2. \A i \in DOMAIN links' : Opening(i)' => i \in DOMAIN links /\ Opening(i)
      BY <1>3, <1>4, Lists
    <2>3. QED
      BY <1>1, <2>1, <2>2, CalmMoves
  <1>9. CleanInv'
    BY <1>1, <1>2, <1>3, CleanHolds DEF CleanInv
  <1>10. QED
    BY <1>5, <1>6, <1>7, <1>8, <1>9

LEMMA BeginCloseKeeps == ASSUME IInv, BeginClose PROVE IInv'
  <1> USE DEF IInv
  <1> DEFINE conn == Head(job)[2]
             ids  == SetToSeq(ListedOn(conn))
             shut == <<Step("shut", conn)>>
             left == Tail(job)
             rest == shut \o left
  <1>1. /\ job # <<>> /\ Head(job)[1] = "connection" /\ phase' = phase /\ known' = known
        /\ rx' = rx /\ tx' = tx /\ clients' = clients /\ containers' = containers
        /\ pending' = pending /\ UNCHANGED amqpVars /\ lost' = lost /\ open' = open
        /\ clean' = clean /\ calm' = calm
    BY DEF BeginClose, Doing, amqpVars, groupVars
  <1>2. conn \in Connection /\ Head(job) = Step("connection", conn) /\ phase = "destroying"
    BY <1>1, JobGoesOn DEF Job, Step
  <1>3. /\ ResourceTypes' /\ SameClients /\ CleanInv'
        /\ \A i \in DOMAIN links' : Opening(i)' => i \in DOMAIN links /\ Opening(i)
    BY <1>1, <1>2, AmqpHolds
  <1>4. BoxInv' /\ KeptInv'
    BY <1>1, <1>3, ContainersHold
  <1>5. /\ job' \in Seq(Job) /\ EndsOnce(job') /\ Elems(Tail(job)) \subseteq Elems(job')
        /\ conn \in open => Step("shut", conn) \in Elems(job')
    <2>1. CASE conn \in open
      <3>1. ids \in Seq(Nat)
        BY ListedList
      <3>2. /\ shut \in Seq(Job) /\ Elems(shut) = {Step("shut", conn)}
            /\ \A k \in DOMAIN shut : shut[k][1] # "end"
        <4>1. Step("shut", conn) \in Job /\ Step("shut", conn)[1] = "shut"
          BY <1>2 DEF Job, Step
        <4>2. QED
          BY <4>1 DEF Elems
      <3>3. left \in Seq(Job) /\ EndsOnce(left)
        BY <1>1, JobGoesOn
      <3> HIDE DEF shut, left
      <3>4. /\ rest \in Seq(Job) /\ EndsOnce(rest)
            /\ Elems(rest) = {Step("shut", conn)} \cup Elems(left)
        BY <3>2, <3>3, ElemsOfConcat
      <3>5. Steps("client", ids) \in Seq(Job)
        <4>1. Steps("client", ids) \in Seq({"client"} \X Nat)
          BY <3>1, StepsList
        <4>2. {"client"} \X Nat \subseteq Job
          BY DEF Job
        <4>3. QED
          BY <4>1, <4>2, LargerList
      <3>6. job' = Steps("client", ids) \o rest
        <4> DEFINE first == Steps("client", ids)
        <4>1. job' = (first \o shut) \o left
          BY <2>1 DEF BeginClose, Arg, shut, left
        <4> HIDE DEF first
        <4>2. (first \o shut) \o left = first \o (shut \o left)
          BY <3>2, <3>3, <3>5, ConcatAssociative DEF first
        <4>3. QED
          BY <4>1, <4>2 DEF first
      <3> HIDE DEF ids, rest
      <3>7. QED
        BY <3>1, <3>4, <3>6, ClientsFirst DEF left
    <2>2. CASE conn \notin open
      BY <2>2, <1>1, JobGoesOn DEF BeginClose, Arg
    <2>3. QED
      BY <2>1, <2>2
  <1> HIDE DEF conn
  <1>6. JobInv'
    BY <1>1, <1>5, JobMoves
  <1>7. CalmInv'
    <2>1. \A c \in open' : Head(job) \in {Step("connection", c), Step("shut", c)} => ToBeClosed(c)'
      BY <1>1, <1>2, <1>5 DEF ToBeClosed, Step
    <2>2. QED
      BY <1>1, <1>3, <1>5, <2>1, CalmMoves
  <1>8. QED
    BY <1>3, <1>4, <1>6, <1>7

LEMMA ShutKeeps == ASSUME IInv, Shut PROVE IInv'
  <1> USE DEF IInv
  <1> DEFINE conn == Head(job)[2]
  <1>1. /\ job # <<>> /\ Head(job)[1] = "shut" /\ job' = Tail(job) /\ phase' = phase
        /\ known' = known /\ rx' = rx /\ tx' = tx /\ clients' = clients
        /\ containers' = containers /\ pending' = pending /\ lost' = lost /\ calm' = calm
        /\ open' = open \ {conn} /\ flagged' = flagged \cup {conn}
        /\ links' = [i \in DOMAIN links |-> IF i \in On(conn) THEN Dropped(links[i]) ELSE links[i]]
    BY DEF Shut, Doing, groupVars, Arg, Marked
  <1>2. /\ clean' \subseteq clean \cup {conn}
        /\ conn \in clean' => conn \in clean \/ (conn \notin lost /\ \A i \in On(conn) : ~Opening(i))
    BY DEF Shut, Arg, Opening
  <1>3. Head(job) = Step("shut", conn)
    BY <1>1, JobGoesOn DEF Step
  <1> HIDE DEF conn
  <1>4. SameClients
    BY <1>1, Lists
  <1>5. /\ links' \in Seq(Links) /\ Len(links') = Len(links)
        /\ \A i \in DOMAIN clients : Opening(i)' => Opening(i)
    BY <1>1, DropKeeps
  <1>6. ResourceTypes'
    BY <1>1, <1>4, <1>5, TypesHold
  <1>7. BoxInv' /\ KeptInv'
    BY <1>1, <1>4, ContainersHold
  <1>8. JobInv'
    BY <1>1, JobGoesOn, JobMoves
  <1>9. CalmInv'
    <2>1. \A c \in open' : Head(job) \notin {Step("connection", c), Step("shut", c)}
      BY <1>1, <1>3 DEF Step
    <2>2. \A i \in DOMAIN links' : Opening(i)' => i \in DOMAIN links /\ Opening(i)
      BY <1>1, <1>5, Lists
    <2>3. QED
      BY <1>1, <2>1, <2>2, CalmMoves
  <1>10. CleanInv'
    <2>1. ASSUME NEW c \in clean'
          PROVE  /\ c \in flagged' /\ c \notin open' /\ c \notin lost'
                 /\ \A i \in On(c) : ~Opening(i)
      <3>1. CASE c \in clean
        BY <3>1, <1>1 DEF CleanInv
      <3>2. CASE c = conn /\ c \notin clean
        BY <3>2, <2>1, <1>1, <1>2
      <3>3. QED
        BY <3>1, <3>2, <2>1, <1>2
    <2>2. \A c : \A i \in On(c)' : i \in On(c) /\ (Opening(i)' => Opening(i))
      BY <1>1, <1>5 DEF On
    <2>3. QED
      BY <2>1, <2>2 DEF CleanInv
  <1>11. QED
    BY <1>6, <1>7, <1>8, <1>9, <1>10

LEMMA EndKeeps == ASSUME IInv, CloseFails \/ Destroyed PROVE IInv'
  <1> USE DEF IInv
  <1>1. /\ job # <<>> /\ phase' = "destroyed" /\ job' = <<>> /\ known' = known /\ rx' = rx
        /\ tx' = tx /\ clients' = clients /\ containers' = containers /\ pending' = pending
        /\ UNCHANGED amqpVars /\ open' = open /\ lost' = lost /\ clean' = clean
        /\ calm' => calm /\ Head(job)[1] = "end"
    BY DEF CloseFails, Destroyed, Doing, amqpVars, historyVars
  <1>2. phase = "destroying"
    BY <1>1, JobGoesOn
  <1>3. /\ ResourceTypes' /\ SameClients /\ CleanInv'
        /\ \A i \in DOMAIN links' : Opening(i)' => i \in DOMAIN links /\ Opening(i)
    BY <1>1, <1>2, AmqpHolds
  <1>4. BoxInv' /\ KeptInv'
    BY <1>1, <1>3, ContainersHold
  <1>5. JobInv'
    <2>1. <<>> \in Seq(Job) /\ EndsOnce(<<>>)
      BY DEF EndsOnce
    <2>2. QED
      BY <1>1, <2>1 DEF JobInv, EndsOnce
  <1>6. CalmInv'
    <2> SUFFICES ASSUME calm' PROVE CalmInv'
      BY DEF CalmInv
    <2>1. calm /\ Elems(job) = {Head(job)} /\ Head(job)[1] = "end"
      BY <1>1, JobGoesOn
    <2>2. known = {}
      BY <2>1, <1>2 DEF JobInv, Step
    <2>3. \A conn : ~ToBeClosed(conn)
      BY <2>1, <2>2 DEF ToBeClosed, Step
    <2>4. open = {} /\ lost = {} /\ \A i \in DOMAIN links : ~Opening(i)
      BY <2>1, <2>3, <1>2 DEF CalmInv
    <2>5. QED
      BY <2>4, <1>1, <1>3 DEF CalmInv
  <1>7. QED
    BY <1>3, <1>4, <1>5, <1>6

-----------------------------------------------------------------------------
(* Routes and emitters *)

\* What findQueue and findTopic find is the one container of the entity; one that is
\* made has no client yet.
LEMMA ContainerIs ==
    ASSUME IInv, NEW g \in Group, NEW kind \in UnitKind, NEW entity \in Entity
    PROVE  LET box == Container(g, kind, entity) IN
           /\ box \in Box /\ box.kind = kind /\ box.entity = entity
           /\ \/ box \in containers[g] /\ Boxes(g, kind, entity) = {box}
              \/ Boxes(g, kind, entity) = {} /\ box.rx = 0 /\ box.tx = 0
           /\ kind = "queue" /\ RxClient(g) = TxClient(g) => box.rx = box.tx
           /\ kind = "subscription" => box.tx = 0
           /\ kind = "topic" => box.rx = 0
           /\ box.rx <= Len(clients) /\ box.tx <= Len(clients)
  <1> DEFINE box == Container(g, kind, entity)
  <1>1. containers[g] \subseteq Box /\ Len(clients) \in Nat
    BY Lists DEF IInv, BoxInv
  <1>2. CASE Boxes(g, kind, entity) = {}
    <2>1. box = [kind |-> kind, entity |-> entity, rx |-> 0, tx |-> 0]
      BY <1>2 DEF Container
    <2> HIDE DEF box
    <2>2. box \in Box /\ box.kind = kind /\ box.entity = entity /\ box.rx = 0 /\ box.tx = 0
      BY <2>1 DEF Box
    <2>3. QED
      BY <2>2, <1>1, <1>2 DEF box
  <1>3. CASE Boxes(g, kind, entity) # {}
    <2>1. box \in Boxes(g, kind, entity)
      BY <1>3 DEF Container
    <2> HIDE DEF box
    <2>2. box \in containers[g] /\ box.kind = kind /\ box.entity = entity
      BY <2>1 DEF Boxes
    <2>3. Boxes(g, kind, entity) = {box}
      BY <2>1, <2>2 DEF Boxes, IInv, BoxInv
    <2>4. QED
      BY <2>2, <2>3, <1>1 DEF box, IInv, BoxInv
  <1>4. QED
    BY <1>2, <1>3

\* A container that is put in the place of the one of its entity.
LEMMA KeptContainers ==
    ASSUME IInv, NEW g \in Group, NEW new \in Box, Kept(g, new), Len(clients') \in Nat,
           Len(clients) <= Len(clients'),
           /\ new.kind = "queue" /\ RxClient(g) = TxClient(g) => new.rx = new.tx
           /\ new.kind = "subscription" => new.tx = 0
           /\ new.kind = "topic" => new.rx = 0
           /\ new.rx <= Len(clients') /\ new.tx <= Len(clients')
    PROVE  /\ BoxInv'
           /\ \A h \in Group \ {g} : containers'[h] = containers[h]
           /\ new \in containers'[g]
           /\ \A c \in containers[g] :
                 c \in containers'[g] \/ c \in Boxes(g, new.kind, new.entity)
  <1>1. /\ containers \in [Group -> SUBSET Box] /\ Len(clients) \in Nat
        /\ containers' = [containers EXCEPT ![g] =
                              (containers[g] \ Boxes(g, new.kind, new.entity)) \cup {new}]
    BY Lists DEF IInv, BoxInv, Kept
  <1>2. /\ containers' \in [Group -> SUBSET Box]
        /\ \A h \in Group \ {g} : containers'[h] = containers[h]
        /\ containers'[g] = (containers[g] \ Boxes(g, new.kind, new.entity)) \cup {new}
    BY <1>1
  <1>3. \A c \in containers'[g] :
            c = new \/ (c \in containers[g] /\ ~(c.kind = new.kind /\ c.entity = new.entity))
    BY <1>2 DEF Boxes
  <1>4. ASSUME NEW h \in Group, NEW c \in containers'[h]
        PROVE  /\ \A d \in containers'[h] : c.kind = d.kind /\ c.entity = d.entity => c = d
               /\ c.kind = "queue" /\ RxClient(h) = TxClient(h) => c.rx = c.tx
               /\ c.kind = "subscription" => c.tx = 0
               /\ c.kind = "topic" => c.rx = 0
               /\ c.rx <= Len(clients') /\ c.tx <= Len(clients')
    <2>1. ASSUME NEW d \in containers'[h], c.kind = d.kind, c.entity = d.entity PROVE c = d
      <3>1. CASE h = g
        BY <3>1, <2>1, <1>3 DEF IInv, BoxInv
      <3>2. CASE h # g
        BY <3>2, <2>1, <1>2 DEF IInv, BoxInv
      <3>3. QED
        BY <3>1, <3>2
    <2>2. CASE h = g /\ c = new
      BY <2>1, <2>2
    <2>3. CASE c \in containers[h]
      <3>1. c \in Box /\ c.rx <= Len(clients) /\ c.tx <= Len(clients)
        BY <2>3 DEF IInv, BoxInv
      <3>2. c.rx <= Len(clients') /\ c.tx <= Len(clients')
        BY <3>1, <1>1 DEF Box
      <3>3. QED
        BY <2>1, <2>3, <3>2 DEF IInv, BoxInv
    <2>4. QED
      BY <2>2, <2>3, <1>2
  <1>5. BoxInv'
    BY <1>2, <1>4 DEF BoxInv
  <1>6. QED
    BY <1>2, <1>5

\* A client that is made is the one its container was missing.
LEMMA NewClientIsKept ==
    ASSUME IInv, NEW u \in Unit, NEW conn, NEW n,
           n = Len(clients) + 1, UNCHANGED known,
           conn = IF u.side = "rx" THEN RxClient(u.group) ELSE TxClient(u.group),
           clients' = Append(clients, NewClient(conn, u.kind, u.entity, u.side)),
           rx[u.group] = RxClient(u.group), tx[u.group] = TxClient(u.group),
           NEW box, box = Container(u.group, u.kind, u.entity), box[u.side] = 0,
           NEW new, new = WithClient(u.group, box, u.side, n), Kept(u.group, new)
    PROVE  BoxInv' /\ KeptInv'
  <1> DEFINE g == u.group
  <1>1. /\ g \in Group /\ u.kind \in UnitKind /\ u.entity \in Entity
        /\ \/ u.side = "rx" /\ u.kind # "topic"
           \/ u.side = "tx" /\ u.kind # "subscription"
    BY UnitConnects DEF Side
  <1>2. /\ box \in Box /\ box.kind = u.kind /\ box.entity = u.entity
        /\ \/ box \in containers[g] /\ Boxes(g, u.kind, u.entity) = {box}
           \/ Boxes(g, u.kind, u.entity) = {} /\ box.rx = 0 /\ box.tx = 0
        /\ u.kind = "queue" /\ RxClient(g) = TxClient(g) => box.rx = box.tx
        /\ u.kind = "subscription" => box.tx = 0
        /\ u.kind = "topic" => box.rx = 0
        /\ box.rx <= Len(clients) /\ box.tx <= Len(clients)
    BY <1>1, ContainerIs
  <1>3. /\ Len(clients) \in Nat /\ DOMAIN clients = 1..Len(clients) /\ n \in Nat /\ n >= 1
        /\ Len(clients') = n /\ DOMAIN clients' = 1..n /\ clients \in Seq(Client)
        /\ clients'[n] = NewClient(conn, u.kind, u.entity, u.side)
        /\ \A i \in 1..Len(clients) : clients'[i] = clients[i]
    BY Lists DEF IInv, ResourceTypes
  <1>4. /\ new \in Box /\ new.kind = u.kind /\ new.entity = u.entity
        /\ u.side = "rx" => new.rx = n
        /\ u.side = "tx" => new.tx = n
        /\ new.rx \in {box.rx, n} /\ new.tx \in {box.tx, n}
        /\ new.rx # box.rx => box.rx = 0
        /\ new.tx # box.tx => box.tx = 0
        /\ u.kind = "queue" /\ RxClient(g) = TxClient(g) => new.rx = new.tx
        /\ u.kind = "subscription" => new.tx = 0
        /\ u.kind = "topic" => new.rx = 0
    <2>1. box.rx \in Nat /\ box.tx \in Nat
      BY <1>2 DEF Box
    <2>2. CASE u.kind = "queue" /\ RxClient(g) = TxClient(g)
      <3>1. new = [box EXCEPT !.rx = n, !.tx = n]
        BY <2>2, <1>2 DEF WithClient
      <3>2. box.rx = 0 /\ box.tx = 0
        BY <2>2, <1>1, <1>2
      <3>3. QED
        BY <3>1, <3>2, <2>1, <2>2, <1>2, <1>3 DEF Box
    <2>3. CASE ~(u.kind = "queue" /\ RxClient(g) = TxClient(g)) /\ u.side = "rx"
      <3>1. new = [box EXCEPT !.rx = n]
        BY <2>3, <1>2 DEF WithClient
      <3>2. box.rx = 0 /\ u.kind # "topic"
        BY <2>3, <1>1
      <3>3. QED
        BY <3>1, <3>2, <2>1, <2>3, <1>2, <1>3 DEF Box
    <2>4. CASE ~(u.kind = "queue" /\ RxClient(g) = TxClient(g)) /\ u.side = "tx"
      <3>1. new = [box EXCEPT !.tx = n]
        BY <2>4, <1>2 DEF WithClient
      <3>2. box.tx = 0 /\ u.kind # "subscription"
        BY <2>4, <1>1
      <3>3. QED
        BY <3>1, <3>2, <2>1, <2>4, <1>2, <1>3 DEF Box
    <2>5. QED
      BY <2>2, <2>3, <2>4, <1>1
  <1>5. new.rx <= n /\ new.tx <= n /\ Len(clients) <= n
    BY <1>2, <1>3, <1>4 DEF Box
  <1>6. Kept(g, new)
    OBVIOUS
  <1> HIDE DEF g
  <1>7. /\ BoxInv'
        /\ \A h \in Group \ {g} : containers'[h] = containers[h]
        /\ new \in containers'[g]
        /\ \A c \in containers[g] :
              c \in containers'[g] \/ c \in Boxes(g, new.kind, new.entity)
    BY <1>1, <1>3, <1>4, <1>5, <1>6, KeptContainers
  <1>8. conn[1] = g
    BY <1>1, GroupConnects DEF g
  <1>9. ASSUME NEW h \in known, NEW i \in DOMAIN clients', clients'[i].conn[1] = h
        PROVE  \E c \in containers'[h] : Has(h, c, i)'
    <2>1. CASE i = n
      <3>1. clients'[i].conn = conn /\ clients'[i].kind = u.kind /\ clients'[i].entity = u.entity
        BY <2>1, <1>3 DEF NewClient
      <3>2. h = g
        BY <3>1, <1>8, <1>9
      <3>3. Has(g, new, i)'
        BY <3>1, <2>1, <1>1, <1>4 DEF Has, g
      <3>4. QED
        BY <3>2, <3>3, <1>7
    <2>2. CASE i # n
      <3>1. i \in DOMAIN clients /\ clients'[i] = clients[i] /\ i # 0
        BY <2>2, <1>3
      <3>2. PICK c \in containers[h] : Has(h, c, i)
        BY <3>1, <1>9 DEF IInv, KeptInv
      <3>3. Has(h, c, i)'
        BY <3>1, <3>2 DEF Has
      <3>4. h \in Group
        BY DEF IInv, ResourceTypes
      <3>5. CASE c \in containers'[h]
        BY <3>3, <3>5
      <3>6. CASE c \notin containers'[h]
        <4>1. h = g /\ c = box
          BY <3>2, <3>4, <3>6, <1>2, <1>4, <1>7
        <4>2. Has(g, new, i)'
          BY <4>1, <3>1, <3>3, <1>2, <1>4 DEF Has
        <4>3. QED
          BY <4>1, <4>2, <1>7
      <3>7. QED
        BY <3>5, <3>6
    <2>3. QED
      BY <2>1, <2>2
  <1>10. KeptInv'
    BY <1>9 DEF KeptInv
  <1>11. QED
    BY <1>7, <1>10

\* The container is kept when no client can be made, as it is.
LEMMA ContainerStays ==
    ASSUME IInv, NEW u \in Unit, UNCHANGED <<known, clients>>,
           Kept(u.group, Container(u.group, u.kind, u.entity))
    PROVE  BoxInv' /\ KeptInv'
  <1> DEFINE g   == u.group
             box == Container(g, u.kind, u.entity)
  <1>1. g \in Group /\ u.kind \in UnitKind /\ u.entity \in Entity /\ Kept(g, box)
    BY UnitConnects
  <1>2. /\ box \in Box /\ box.kind = u.kind /\ box.entity = u.entity
        /\ \/ box \in containers[g] /\ Boxes(g, u.kind, u.entity) = {box}
           \/ Boxes(g, u.kind, u.entity) = {}
        /\ u.kind = "queue" /\ RxClient(g) = TxClient(g) => box.rx = box.tx
        /\ u.kind = "subscription" => box.tx = 0
        /\ u.kind = "topic" => box.rx = 0
        /\ box.rx <= Len(clients) /\ box.tx <= Len(clients)
    BY <1>1, ContainerIs
  <1>3. Len(clients') = Len(clients) /\ Len(clients) \in Nat
    BY Lists DEF IInv
  <1> HIDE DEF g, box
  <1>4. /\ BoxInv'
        /\ \A h \in Group \ {g} : containers'[h] = containers[h]
        /\ box \in containers'[g]
        /\ \A c \in containers[g] :
              c \in containers'[g] \/ c \in Boxes(g, box.kind, box.entity)
    BY <1>1, <1>2, <1>3, KeptContainers
  <1>5. \A h \in Group : containers[h] \subseteq containers'[h]
    BY <1>2, <1>4
  <1>6. KeptInv'
    BY <1>5 DEF IInv, ResourceTypes, KeptInv, Has
  <1>7. QED
    BY <1>4, <1>6

LEMMA UnitKeeps ==
    ASSUME IInv, NEW u \in Unit, phase # "new", pending' = pending \ {u},
           GetCreate(u.group, u.kind, u.entity, u.side),
           UNCHANGED <<groupVars, open, lost, flagged, job, historyVars, losses>>
    PROVE  IInv'
  <1> USE DEF IInv
  <1> DEFINE g    == u.group
             conn == IF u.side = "rx" THEN rx[g] ELSE tx[g]
             box  == Container(g, u.kind, u.entity)
             i    == box[u.side]
             n    == Len(clients) + 1
  <1>1. /\ g \in Group /\ u.kind \in UnitKind /\ u.entity \in Entity /\ u.side \in Side
        /\ rx[g] = RxClient(g) /\ tx[g] = TxClient(g)
    BY UnitConnects DEF ResourceTypes
  <1>2. /\ phase' = phase /\ known' = known /\ rx' = rx /\ tx' = tx /\ open' = open
        /\ lost' = lost /\ flagged' = flagged /\ job' = job /\ clean' = clean /\ calm' = calm
    BY DEF groupVars, historyVars
  <1>3. /\ Len(clients) \in Nat /\ DOMAIN clients = 1..Len(clients)
        /\ DOMAIN links = 1..Len(clients) /\ Len(links) = Len(clients)
        /\ clients \in Seq(Client) /\ links \in Seq(Links)
    BY Lists DEF ResourceTypes
  <1>4. JobInv'
    BY <1>2, JobHolds
  <1>5. CASE i # 0
    <2>1. clients' = WithSide(i, u.side) /\ containers' = containers /\ links' = links
      BY <1>5 DEF GetCreate
    <2> HIDE DEF i
    <2>2. SameClients
      <3>1. clients' = clients \/ clients' = [clients EXCEPT ![i].sides = @ \cup {u.side}]
        BY <2>1 DEF WithSide
      <3>2. clients' \in [1..Len(clients) -> Client]
            /\ \A j \in 1..Len(clients) :
                  /\ clients'[j].conn = clients[j].conn /\ clients'[j].kind = clients[j].kind
                  /\ clients'[j].entity = clients[j].entity
        <4>1. CASE clients' = clients
          BY <4>1, Lists
        <4>2. CASE clients' = [clients EXCEPT ![i].sides = @ \cup {u.side}]
          BY <4>2, <1>1, Lists DEF Client
        <4>3. QED
          BY <4>1, <4>2, <3>1
      <3>3. QED
        BY <3>2, Lists, FunctionIsList DEF SameClients
    <2>3. ResourceTypes'
      <3>1. DOMAIN clients' = DOMAIN clients
        BY <2>2, Lists DEF SameClients
      <3>2. \A j \in DOMAIN clients' :
                clients'[j].conn \in ConnectionsOf(clients'[j].conn[1])
        BY <3>1, <2>2 DEF ResourceTypes, SameClients
      <3>3. pending' \subseteq Unit
        BY DEF ResourceTypes
      <3>4. QED
        BY <3>2, <3>3, <2>1, <2>2, <1>2 DEF ResourceTypes, SameClients
    <2>4. BoxInv' /\ KeptInv'
      BY <2>1, <2>2, <1>2, ContainersHold
    <2>5. CalmInv'
      BY <2>1, <1>2 DEF CalmInv, Opening, ToBeClosed
    <2>6. CleanInv'
      BY <2>1, <2>2, <1>2, CleanHolds DEF CleanInv, Opening
    <2>7. QED
      BY <2>3, <2>4, <2>5, <2>6, <1>4
  <1>6. CASE i = 0 /\ conn \in flagged
    <2>1. clients' = clients /\ links' = links /\ Kept(g, box)
      BY <1>6 DEF GetCreate
    <2>2. ResourceTypes'
      BY <2>1, <1>2 DEF ResourceTypes
    <2>3. BoxInv' /\ KeptInv'
      BY <2>1, <1>2, ContainerStays
    <2>4. CalmInv' /\ CleanInv'
      BY <2>1, <1>2 DEF CalmInv, CleanInv, Opening, ToBeClosed, On
    <2>5. QED
      BY <2>2, <2>3, <2>4, <1>4
  <1>7. CASE i = 0 /\ conn \notin flagged
    <2>1. /\ clients' = Append(clients, NewClient(conn, u.kind, u.entity, u.side))
          /\ links' = Append(links, NoLinks) /\ Kept(g, WithClient(g, box, u.side, n))
      BY <1>7 DEF GetCreate
    <2>2. BoxInv' /\ KeptInv'
      BY <2>1, <1>1, <1>2, <1>7, NewClientIsKept
    <2>3. NewClient(conn, u.kind, u.entity, u.side) \in Client
          /\ conn \in ConnectionsOf(conn[1])
      BY <1>1, GroupConnects DEF NewClient, Client, ConnectionsOf
    <2> HIDE DEF conn, n, box, i
    <2>4. /\ clients' \in Seq(Client) /\ links' \in Seq(Links) /\ Len(links') = Len(clients')
          /\ DOMAIN clients' = 1..n /\ DOMAIN links' = 1..n /\ n = Len(clients) + 1
          /\ clients'[n] = NewClient(conn, u.kind, u.entity, u.side)
          /\ links'[n] = NoLinks
          /\ \A j \in 1..Len(clients) : clients'[j] = clients[j] /\ links'[j] = links[j]
      BY <2>1, <2>3, <1>3, NoLinksAreLinks DEF n
    <2>5. ResourceTypes'
      <3>1. \A j \in DOMAIN clients' : clients'[j].conn \in ConnectionsOf(clients'[j].conn[1])
        BY <2>3, <2>4, <1>3 DEF ResourceTypes, NewClient
      <3>2. pending' \subseteq Unit
        BY DEF ResourceTypes
      <3>3. QED
        BY <3>1, <3>2, <2>4, <1>2 DEF ResourceTypes
    <2>6. \A j \in 1..n : Opening(j)' => j \in DOMAIN clients /\ j \in DOMAIN links /\ Opening(j)
                                           /\ clients'[j] = clients[j]
      <3>1. ASSUME NEW j \in 1..n, j = n PROVE ~Opening(j)'
        BY <3>1, <2>4, NoLinksAreLinks DEF Opening
      <3>2. ASSUME NEW j \in 1..Len(clients) PROVE Opening(j)' => Opening(j)
        BY <2>4 DEF Opening
      <3>3. \A j \in 1..n : j = n \/ j \in 1..Len(clients)
        BY <2>4, <1>3
      <3>4. QED
        BY <3>1, <3>2, <3>3, <2>4, <1>3
    <2>7. CalmInv'
      BY <2>4, <2>6, <1>2 DEF CalmInv, ToBeClosed
    <2>8. CleanInv'
      BY <2>4, <2>6, <1>2 DEF CleanInv, On
    <2>9. QED
      BY <2>2, <2>5, <2>7, <2>8, <1>4
  <1>8. QED
    BY <1>5, <1>6, <1>7

-----------------------------------------------------------------------------
(* Theorems *)

LEMMA InvStarts == Init => IInv
  <1> SUFFICES ASSUME Init PROVE IInv
    OBVIOUS
  <1>1. ResourceTypes
    BY DEF Init, ResourceTypes
  <1>2. BoxInv
    BY DEF Init, BoxInv
  <1>3. KeptInv /\ CalmInv /\ CleanInv
    BY DEF Init, KeptInv, CalmInv, CleanInv
  <1>4. JobInv
    BY DEF Init, JobInv, EndsOnce
  <1>5. QED
    BY <1>1, <1>2, <1>3, <1>4 DEF IInv

LEMMA InvHolds == IInv /\ [Next]_vars => IInv'
  <1> SUFFICES ASSUME IInv, [Next]_vars PROVE IInv'
    OBVIOUS
  <1>1. CASE Construct
    BY <1>1, ConstructKeeps
  <1>2. ASSUME NEW e \in Emitter, RegisterEmitter(e) PROVE IInv'
    BY <1>2, UnitKeeps DEF RegisterEmitter, Unit
  <1>3. ASSUME NEW r \in Route, RegisterRoute(r) PROVE IInv'
    BY <1>3, UnitKeeps DEF RegisterRoute, Unit
  <1>4. ASSUME NEW i \in DOMAIN clients, NEW s \in Side, LinkBegins(i, s) PROVE IInv'
    BY <1>4, BeginsKeeps
  <1>5. ASSUME NEW i \in DOMAIN clients, NEW s \in Side, LinkOpens(i, s) PROVE IInv'
    BY <1>5, OpensKeeps
  <1>6. ASSUME NEW c \in Connection, Disconnected(c) PROVE IInv'
    BY <1>6, DisconnectedKeeps
  <1>7. ASSUME NEW c \in Connection, Reconnect(c) PROVE IInv'
    BY <1>7, ReconnectKeeps
  <1>8. CASE Destroy
    BY <1>8, DestroyKeeps
  <1>9. CASE DestroyGroup
    BY <1>9, DestroyGroupKeeps
  <1>10. CASE CloseClient
    BY <1>10, CloseClientKeeps
  <1>11. CASE BeginClose
    BY <1>11, BeginCloseKeeps
  <1>12. CASE Shut
    BY <1>12, ShutKeeps
  <1>13. CASE CloseFails \/ Destroyed
    BY <1>13, EndKeeps
  <1>14. CASE UNCHANGED vars
    <2>1. UNCHANGED <<phase, known, rx, tx, containers, clients, pending, links, open, lost,
                      flagged, job, clean, calm>>
      BY <1>14 DEF vars, groupVars, amqpVars, historyVars
    <2>2. ResourceTypes' /\ BoxInv' /\ KeptInv'
      BY <2>1 DEF IInv, ResourceTypes, BoxInv, KeptInv, Has
    <2>3. JobInv' /\ CalmInv' /\ CleanInv'
      BY <2>1 DEF IInv, JobInv, CalmInv, CleanInv, ToBeClosed, Opening, On
    <2>4. QED
      BY <2>2, <2>3 DEF IInv
  <1>15. QED
    BY <1>1, <1>2, <1>3, <1>4, <1>5, <1>6, <1>7, <1>8, <1>9, <1>10, <1>11, <1>12, <1>13, <1>14
       DEF Next, Side

LEMMA InvAlways == Spec => []IInv
  <1>1. QED
    BY InvStarts, InvHolds, PTL DEF Spec

(* Until its group is destroyed an entity has one client on a connection: the route
   that receives and the emitter that sends share it, in whatever order they come,
   and however many there are (client-container.ts: QueueClientContainer). *)
THEOREM EntitiesHaveOneClient == Spec => []OneClientPerEntity
  <1>1. IInv => OneClientPerEntity
    <2> SUFFICES ASSUME IInv, NEW g \in known,
                        NEW i \in DOMAIN clients, NEW j \in DOMAIN clients,
                        clients[i].conn = clients[j].conn, clients[i].conn[1] = g,
                        clients[i].kind = clients[j].kind, clients[i].entity = clients[j].entity
                 PROVE  i = j
      BY DEF OneClientPerEntity
    <2>1. PICK c \in containers[g] : Has(g, c, i)
      BY DEF IInv, KeptInv
    <2>2. PICK d \in containers[g] : Has(g, d, j)
      BY DEF IInv, KeptInv
    <2>3. g \in Group /\ c \in Box
      BY DEF IInv, ResourceTypes, BoxInv
    <2>4. c = d
      BY <2>1, <2>2, <2>3 DEF Has, IInv, BoxInv
    <2>5. i # 0 /\ j # 0
      BY Lists DEF IInv
    <2>6. c.kind = "queue" /\ RxClient(g) = TxClient(g) => c.rx = c.tx
      BY <2>3 DEF IInv, BoxInv
    <2>7. (c.kind = "subscription" => c.tx = 0) /\ (c.kind = "topic" => c.rx = 0)
      BY <2>3 DEF IInv, BoxInv
    <2>8. c.kind \in {"queue", "topic", "subscription"}
      BY <2>3 DEF Box, UnitKind
    <2>9. QED
      BY <2>1, <2>2, <2>4, <2>5, <2>6, <2>7, <2>8 DEF Has
  <1>2. QED
    BY <1>1, InvAlways, PTL

(* A module that is destroyed while nothing opens, is lost or fails leaves no
   connection open, its groups' clients having one or two (channel-manager.ts:13-21
   and resource-manager.ts:81-93). *)
THEOREM CalmDestroysCloseAll == Spec => []CalmDestroyCloses
  <1>1. IInv => CalmDestroyCloses
    BY DEF IInv, CalmInv, CalmDestroyCloses
  <1>2. QED
    BY <1>1, InvAlways, PTL

(* What was closed with no link on its way is not opened again, whoever registers
   later and whatever the handler of a disconnect does (connectionContext.ts:78-148). *)
THEOREM CleanClosesAreFinal == Spec => []CleanCloseIsFinal
  <1>1. IInv => CleanCloseIsFinal
    BY DEF IInv, CleanInv, CleanCloseIsFinal
  <1>2. QED
    BY <1>1, InvAlways, PTL

-----------------------------------------------------------------------------
(* AtomManagement *)

\* What the service can show of an entity of a kind.
Visible(kind) ==
    OptionsOf[kind] \cup (RequiredOf[kind] \ NameProperties[kind]) \cup
        (IF kind = "queue" THEN {"supportOrdering"} ELSE {})

UrlsIn(raw) == \A f \in Forwards \cap DOMAIN raw : IsUrl(raw[f])

AtomTypes ==
    /\ DOMAIN step = Call /\ DOMAIN ask = Call /\ DOMAIN body = Call /\ DOMAIN answer = Call
    /\ DOMAIN result = Call /\ DOMAIN was = Call
    /\ \A c \in Call : ask[c] \in Ask \cup {NoAsk}

\* What is in the namespace, what is sent to it and what it answers.
StoreInv ==
    /\ IsFiniteSet(DOMAIN store)
    /\ \A p \in DOMAIN store :
          /\ store[p].kind \in Kind /\ DOMAIN store[p].raw \subseteq OptionsOf[store[p].kind]
          /\ UrlsIn(store[p].raw)

BodyInv ==
    \A c \in Call : DOMAIN body[c] \subseteq OptionsOf[ask[c].kind] /\ UrlsIn(body[c])

AnswerInv ==
    \A c \in Call :
        /\ IsFiniteSet(answer[c].entries)
        /\ \A e \in answer[c].entries :
              e.kind \in Kind /\ DOMAIN e.raw \subseteq Visible(e.kind) /\ UrlsIn(e.raw)

\* An answer that says "not found" or "already exists" was served when it was so.
Honest(ans, s, op, seen) ==
    /\ ans.status = 404 => FALSE \in seen
    /\ ans.status = 409 /\ ~ans.subcode /\ op \notin {"delete", "update"}
          => op = "create" /\ TRUE \in seen
    /\ ans.status = 200 /\ ans.entries = {} /\ (s = "read" \/ op = "get") => FALSE \in seen

HonestInv ==
    \A c \in Call : step[c] \in {"read", "answered"} =>
        Honest(answer[c], step[c], ask[c].op, was[c])

ResultInv ==
    /\ \A c \in Call : step[c] # "over" => result[c] = NoResult
    /\ VerdictIsHonest /\ KindIsRight

AtomInv == AtomTypes /\ StoreInv /\ BodyInv /\ AnswerInv /\ HonestInv /\ ResultInv

-----------------------------------------------------------------------------
(* Feeds *)

LEMMA FeedList ==
    ASSUME NEW S, IsFiniteSet(S)
    PROVE  SetToSeq(S) \in Seq(S) /\ Len(SetToSeq(S)) = Cardinality(S)
  <1> DEFINE n == Cardinality(S)
  <1>1. n \in Nat /\ ExistsBijection(1..n, S)
    BY FS_CardinalityType
  <1> HIDE DEF n
  <1>2. PICK f \in [1..n -> S] : IsInjective(f)
    BY <1>1 DEF ExistsBijection, Bijection, Injection, IsInjective
  <1>3. SetToSeq(S) \in [1..n -> S]
    BY <1>2 DEF SetToSeq, n
  <1> HIDE DEF SetToSeq
  <1>4. SetToSeq(S) \in Seq(S) /\ Len(SetToSeq(S)) = n
    BY <1>1, <1>3
  <1>5. QED
    BY <1>4 DEF n

LEMMA UnlistedListed ==
    ASSUME NEW S, NEW list \in Seq(S)
    PROVE  Unlisted(Listed(list)) = list
  <1>1. CASE Len(list) = 1
    <2>1. Listed(list) = [many |-> FALSE, element |-> list[1]]
      BY <1>1 DEF Listed
    <2>2. Unlisted(Listed(list)) = <<list[1]>>
      BY <2>1 DEF Unlisted
    <2>3. list = <<list[1]>>
      BY <1>1
    <2>4. QED
      BY <2>2, <2>3
  <1>2. CASE Len(list) # 1
    BY <1>2 DEF Listed, Unlisted
  <1>3. QED
    BY <1>1, <1>2

\* A feed is made of what was answered, and has an entry when there is one.
LEMMA ParseFeedIs ==
    ASSUME NEW S, IsFiniteSet(S)
    PROVE  ParseFeed(S) \subseteq S /\ (S # {} => ParseFeed(S) # {})
  <1> DEFINE list == SetToSeq(S)
  <1>1. list \in Seq(S) /\ Len(list) = Cardinality(S)
    BY FeedList
  <1>2. S # {} => Cardinality(S) # 0
    BY FS_EmptySet
  <1>3. Cardinality(S) \in Nat
    BY FS_CardinalityType
  <1> HIDE DEF list
  <1>4. ParseFeed(S) = Range(list)
    BY <1>1, UnlistedListed DEF ParseFeed, list
  <1>5. Range(list) \subseteq S
    BY <1>1 DEF Range
  <1>6. S # {} => list[1] \in Range(list)
    BY <1>1, <1>2, <1>3 DEF Range
  <1>7. QED
    BY <1>4, <1>5, <1>6

-----------------------------------------------------------------------------
(* Fields and URLs *)

LEMMA OneElement ==
    ASSUME NEW S, NEW x \in S
    PROVE  <<x>> \in Seq(S) /\ Len(<<x>>) = 1 /\ <<x>>[1] = x
  OBVIOUS

\* A sequence is one of the elements it has.
LEMMA OfItsElements ==
    ASSUME NEW S, NEW list \in Seq(S)
    PROVE  list \in Seq(Range(list))
  <1>1. list = [k \in 1..Len(list) |-> list[k]] /\ Len(list) \in Nat
    OBVIOUS
  <1>2. \A k \in 1..Len(list) : list[k] \in Range(list)
    BY <1>1 DEF Range
  <1> HIDE DEF Range
  <1>3. list \in [1..Len(list) -> Range(list)]
    BY <1>1, <1>2
  <1>4. QED
    BY <1>1, <1>3

LEMMA LargerElements ==
    ASSUME NEW S, NEW T, S \subseteq T, NEW list \in Seq(S)
    PROVE  list \in Seq(T)
  <1>1. list \in [1..Len(list) -> T] /\ Len(list) \in Nat
    OBVIOUS
  <1>2. QED
    BY <1>1

LEMMA TargetsMadeAbsolute ==
    ASSUME NEW url, IsTarget(url)
    PROVE  IsUrl(Absolute(url))
  <1>1. CASE IsAbsoluteUrl(url)
    BY <1>1 DEF Absolute, IsUrl
  <1>2. CASE ~IsAbsoluteUrl(url)
    <2> DEFINE S      == Range(url) \cup {"sb://"}
               scheme == <<"sb://">>
               full   == scheme \o url
    <2>1. /\ url \in Seq(Range(url)) /\ Len(url) \in Nat /\ Len(url) > 0 /\ url[1] # "sb://"
          /\ \A k \in 2..Len(url) : url[k] # "sb://"
      BY <1>2 DEF IsTarget, IsAbsoluteUrl
    <2>2. url \in Seq(S)
      <3>1. Range(url) \subseteq S
        OBVIOUS
      <3> HIDE DEF S
      <3>2. QED
        BY <2>1, <3>1, LargerElements
    <2>3. scheme \in Seq(S) /\ Len(scheme) = 1 /\ scheme[1] = "sb://"
      <3>1. "sb://" \in S
        OBVIOUS
      <3> HIDE DEF S
      <3>2. QED
        BY <3>1
    <2> HIDE DEF S, scheme
    <2>4. full \in Seq(S) /\ Len(full) = Len(scheme) + Len(url)
      BY <2>2, <2>3, ConcatProperties
    <2>5. \A k \in 1..(Len(scheme) + Len(url)) :
              full[k] = IF k <= Len(scheme) THEN scheme[k] ELSE url[k - Len(scheme)]
      BY <2>2, <2>3, ConcatProperties
    <2> HIDE DEF full
    <2>6. full[1] = "sb://" /\ \A k \in 2..Len(full) : full[k] = url[k - 1]
      BY <2>1, <2>3, <2>4, <2>5
    <2>7. \A k \in 2..Len(full) : k - 1 = 1 \/ k - 1 \in 2..Len(url)
      BY <2>1, <2>3, <2>4
    <2>8. \A k \in 2..Len(full) : full[k] # "sb://"
      BY <2>1, <2>6, <2>7
    <2>9. full \in Seq(Range(full))
      BY <2>4, OfItsElements
    <2>10. IsUrl(full)
      BY <2>1, <2>3, <2>4, <2>6, <2>8, <2>9 DEF IsUrl, IsTarget, IsAbsoluteUrl
    <2>11. QED
      BY <2>10, <1>2 DEF Absolute, full, scheme
  <1>3. QED
    BY <1>1, <1>2

LEMMA UrlsHaveOneScheme ==
    ASSUME NEW url, IsUrl(url)
    PROVE  ~IsAbsoluteUrl(Tail(url))
  <1> DEFINE S == Range(url)
  <1>1. url \in Seq(S) /\ Len(url) > 1 /\ url[2] # "sb://"
    BY DEF IsUrl, IsTarget, IsAbsoluteUrl
  <1> HIDE DEF S
  <1>2. Tail(url)[1] = url[2]
    BY <1>1
  <1>3. QED
    BY <1>1, <1>2 DEF IsAbsoluteUrl

LEMMA ForwardFields ==
    /\ \A kind \in Kind : Forwards \cap (RequiredOf[kind] \cup NameProperties[kind]) = {}
    /\ Forwards \cap RuleOptions = {} /\ "supportOrdering" \notin Forwards
    /\ Kind = {"queue", "topic", "subscription", "rule"}
    /\ OptionsOf["rule"] = RuleOptions
    /\ Forwards \cap {"authorizationRules", "filter", "action"} = {}
  <1>1. Kind = {"queue", "topic", "subscription", "rule"} /\ OptionsOf["rule"] = RuleOptions
    BY DEF Kind, OptionsOf
  <1>2. ASSUME NEW kind \in Kind
        PROVE  Forwards \cap (RequiredOf[kind] \cup NameProperties[kind]) = {}
    <2>1. CASE kind = "queue"
      BY <2>1 DEF Forwards, RequiredOf, NameProperties, QueueRequired
    <2>2. CASE kind = "topic"
      BY <2>2 DEF Forwards, RequiredOf, NameProperties, TopicRequired
    <2>3. CASE kind = "subscription"
      BY <2>3 DEF Forwards, RequiredOf, NameProperties, SubscriptionRequired
    <2>4. CASE kind = "rule"
      BY <2>4 DEF Forwards, RequiredOf, NameProperties, RuleRequired
    <2>5. QED
      BY <1>1, <2>1, <2>2, <2>3, <2>4
  <1>3. QED
    BY <1>1, <1>2 DEF Forwards, RuleOptions

\* A description of one kind lacks a field that another one, but a topic's, must have.
LEMMA KindsDiffer ==
    ASSUME NEW kind \in Kind, NEW other \in Kind, other # kind, kind # "topic"
    PROVE  \E f \in RequiredOf[kind] : f \notin NameProperties[kind] /\ f \notin Visible(other)
  <1>1. other \in {"queue", "topic", "subscription", "rule"}
        /\ kind \in {"queue", "subscription", "rule"}
    BY ForwardFields
  <1>2. CASE kind = "rule"
    <2>1. "filter" \in RequiredOf[kind] /\ "filter" \notin NameProperties[kind]
      BY <1>2 DEF RequiredOf, RuleRequired, NameProperties
    <2>2. "filter" \notin Visible(other)
      <3>1. CASE other = "queue"
        BY <3>1 DEF Visible, OptionsOf, RequiredOf, QueueOptions, QueueRequired
      <3>2. CASE other = "topic"
        BY <3>2 DEF Visible, OptionsOf, RequiredOf, TopicOptions, TopicRequired
      <3>3. CASE other = "subscription"
        BY <3>3 DEF Visible, OptionsOf, RequiredOf, SubscriptionOptions, SubscriptionRequired
      <3>4. QED
        BY <3>1, <3>2, <3>3, <1>1, <1>2
    <2>3. QED
      BY <2>1, <2>2
  <1>3. CASE kind = "queue"
    <2>1. /\ {"lockDuration", "maxSizeInMegabytes"} \subseteq RequiredOf[kind]
          /\ {"lockDuration", "maxSizeInMegabytes"} \cap NameProperties[kind] = {}
      BY <1>3 DEF RequiredOf, QueueRequired, NameProperties
    <2>2. CASE other = "topic"
      <3>1. "lockDuration" \notin Visible(other)
        BY <2>2 DEF Visible, OptionsOf, RequiredOf, TopicOptions, TopicRequired
      <3>2. QED
        BY <3>1, <2>1
    <2>3. CASE other = "subscription"
      <3>1. "maxSizeInMegabytes" \notin Visible(other)
        BY <2>3 DEF Visible, OptionsOf, RequiredOf, SubscriptionOptions, SubscriptionRequired
      <3>2. QED
        BY <3>1, <2>1
    <2>4. CASE other = "rule"
      <3>1. "lockDuration" \notin Visible(other)
        BY <2>4 DEF Visible, OptionsOf, RequiredOf, RuleOptions, RuleRequired
      <3>2. QED
        BY <3>1, <2>1
    <2>5. QED
      BY <2>2, <2>3, <2>4, <1>1, <1>3
  <1>4. CASE kind = "subscription"
    <2>1. /\ {"lockDuration", "createdOn"} \subseteq RequiredOf[kind]
          /\ {"lockDuration", "createdOn"} \cap NameProperties[kind] = {}
      BY <1>4 DEF RequiredOf, SubscriptionRequired, NameProperties
    <2>2. CASE other = "topic"
      <3>1. "createdOn" \notin Visible(other)
        BY <2>2 DEF Visible, OptionsOf, RequiredOf, TopicOptions, TopicRequired
      <3>2. QED
        BY <3>1, <2>1
    <2>3. CASE other = "queue"
      <3>1. "createdOn" \notin Visible(other)
        BY <2>3 DEF Visible, OptionsOf, RequiredOf, QueueOptions, QueueRequired
      <3>2. QED
        BY <3>1, <2>1
    <2>4. CASE other = "rule"
      <3>1. "lockDuration" \notin Visible(other)
        BY <2>4 DEF Visible, OptionsOf, RequiredOf, RuleOptions, RuleRequired
      <3>2. QED
        BY <3>1, <2>1
    <2>5. QED
      BY <2>2, <2>3, <2>4, <1>1, <1>4
  <1>5. QED
    BY <1>1, <1>2, <1>3, <1>4

LEMMA CompleteIsOfItsKind ==
    ASSUME NEW kind \in Kind, kind # "topic", NEW e, e.kind \in Kind,
           DOMAIN e.raw \subseteq Visible(e.kind), Missing(kind, Named(kind, e.raw)) = {}
    PROVE  e.kind = kind
  <1> SUFFICES ASSUME e.kind # kind PROVE FALSE
    OBVIOUS
  <1>1. PICK f \in RequiredOf[kind] : f \notin NameProperties[kind] /\ f \notin Visible(e.kind)
    BY KindsDiffer
  <1>2. DOMAIN Named(kind, e.raw) = NameProperties[kind] \cup DOMAIN e.raw
    BY DEF Named
  <1>3. f \in Missing(kind, Named(kind, e.raw))
    BY <1>1, <1>2 DEF Missing
  <1>4. QED
    BY <1>3

\* What the options make, and what a description and options make, is a body.
LEMMA BodyMade ==
    ASSUME NEW kind \in Kind, NEW o, \A f \in Forwards \cap DOMAIN o : IsTarget(o[f])
    PROVE  /\ DOMAIN PutResource(BuildOptions(kind, o)) \subseteq OptionsOf[kind]
           /\ UrlsIn(PutResource(BuildOptions(kind, o)))
  <1> DEFINE given == IF kind = "rule" THEN RuleOf(o) ELSE o
             built == BuildOptions(kind, o)
             put   == PutResource(built)
  <1>1. built = [f \in Defined(given) \cap OptionsOf[kind] |-> Written(f, given[f])]
    BY DEF BuildOptions
  <1>2. DOMAIN put = DOMAIN built /\ DOMAIN built = Defined(given) \cap OptionsOf[kind]
    BY <1>1 DEF PutResource
  <1>3. ASSUME NEW f \in Forwards \cap DOMAIN put
        PROVE  IsUrl(put[f])
    <2>1. kind # "rule" /\ f \notin {"authorizationRules", "filter", "action"}
      BY <1>2, ForwardFields
    <2>2. f \in DOMAIN o /\ given = o
      BY <2>1, <1>2 DEF Defined
    <2>3. built[f] = o[f]
      BY <2>1, <2>2, <1>1, <1>2 DEF Written
    <2>4. put[f] = Absolute(o[f])
      BY <2>3, <1>2 DEF PutResource
    <2>5. QED
      BY <2>2, <2>4, TargetsMadeAbsolute
  <1>4. QED
    BY <1>2, <1>3 DEF UrlsIn

LEMMA ShownIsVisible ==
    ASSUME NEW p, NEW e, e.kind \in Kind, DOMAIN e.raw \subseteq OptionsOf[e.kind], UrlsIn(e.raw)
    PROVE  LET s == Shown(p, e) IN
           s.kind \in Kind /\ DOMAIN s.raw \subseteq Visible(s.kind) /\ UrlsIn(s.raw)
  <1> DEFINE s == Shown(p, e)
  <1>1. /\ s.kind = e.kind
        /\ s.raw = [f \in DOMAIN e.raw \cup (RequiredOf[e.kind] \ NameProperties[e.kind]) \cup
                          (IF e.kind = "queue" THEN {"supportOrdering"} ELSE {})
                      |-> IF f \in DOMAIN e.raw THEN e.raw[f] ELSE Default]
    BY DEF Shown
  <1> HIDE DEF s
  <1>2. DOMAIN s.raw \subseteq Visible(s.kind)
    BY <1>1 DEF Visible
  <1>3. ASSUME NEW f \in Forwards \cap DOMAIN s.raw
        PROVE  IsUrl(s.raw[f])
    <2>1. f \in DOMAIN e.raw
      BY <1>1, ForwardFields
    <2>2. s.raw[f] = e.raw[f]
      BY <2>1, <1>1
    <2>3. QED
      BY <2>1, <2>2 DEF UrlsIn
  <1>4. UrlsIn(s.raw)
    BY <1>3 DEF UrlsIn
  <1>5. QED
    BY <1>1, <1>2, <1>4 DEF s

\* Entries that the service may show.
Visibles(entries) ==
    /\ IsFiniteSet(entries)
    /\ \A e \in entries : e.kind \in Kind /\ DOMAIN e.raw \subseteq Visible(e.kind) /\ UrlsIn(e.raw)

LEMMA OutcomeSays ==
    ASSUME NEW a, a.kind \in Kind, NEW ans, Visibles(ans.entries), NEW reads \in BOOLEAN
    PROVE  LET r == Outcome(a, ans, reads) IN
           /\ r.code = "MessageEntityNotFoundError" =>
                 ans.status = 404 \/ (ans.status = 200 /\ ans.entries = {} /\ reads)
           /\ r.code = "MessageEntityAlreadyExistsError" =>
                 ans.status = 409 /\ ~ans.subcode /\ a.op \notin {"delete", "update"}
           /\ r.code = "ok" =>
                 /\ ans.status = 200 /\ (reads => ans.entries # {})
                 /\ ~Incomplete(a, ParseFeed(ans.entries))
                 /\ r.details = Descriptions(a, ParseFeed(ans.entries))
           /\ r.code # "ok" => r.details = {}
  <1>1. CASE ans.status # 200
    <2>1. Outcome(a, ans, reads) = [code |-> ErrorCode(a, ans.status, ans.subcode), details |-> {}]
      BY <1>1 DEF Outcome, Failed
    <2>2. /\ ErrorCode(a, ans.status, ans.subcode) # "ok"
          /\ ErrorCode(a, ans.status, ans.subcode) = "MessageEntityNotFoundError" => ans.status = 404
          /\ ErrorCode(a, ans.status, ans.subcode) = "MessageEntityAlreadyExistsError" =>
                ans.status = 409 /\ ~ans.subcode /\ a.op \notin {"delete", "update"}
      BY DEF ErrorCode, ConflictCode
    <2>3. QED
      BY <2>1, <2>2
  <1>2. CASE ans.status = 200 /\ reads /\ ans.entries = {}
    BY <1>2 DEF Outcome, Failed
  <1>3. CASE ans.status = 200 /\ ~(reads /\ ans.entries = {}) /\ Incomplete(a, ParseFeed(ans.entries))
    BY <1>3 DEF Outcome, Failed
  <1>4. CASE ans.status = 200 /\ ~(reads /\ ans.entries = {}) /\ ~Incomplete(a, ParseFeed(ans.entries))
    <2>1. Outcome(a, ans, reads) = [code |-> "ok", details |-> Descriptions(a, ParseFeed(ans.entries))]
      BY <1>4 DEF Outcome
    <2>2. QED
      BY <2>1, <1>4
  <1>5. QED
    BY <1>1, <1>2, <1>3, <1>4

LEMMA DescribedKind ==
    ASSUME NEW a, a.kind \in Kind, a.kind # "topic", NEW entries, Visibles(entries),
           ~Incomplete(a, ParseFeed(entries)), NEW d \in Descriptions(a, ParseFeed(entries))
    PROVE  d.kind = a.kind
  <1>1. PICK e \in ParseFeed(entries) :
            d = [path |-> e.path, kind |-> e.kind, fields |-> Build(a.kind, Named(a.kind, e.raw))]
    BY DEF Descriptions
  <1>2. e \in entries
    BY ParseFeedIs DEF Visibles
  <1>3. Missing(a.kind, Named(a.kind, e.raw)) = {}
    BY DEF Incomplete
  <1>4. e.kind = a.kind
    BY <1>2, <1>3, CompleteIsOfItsKind DEF Visibles
  <1>5. QED
    BY <1>1, <1>4

\* What an entity was read to be, with options over it, is a body.
LEMMA UpdateMade ==
    ASSUME NEW a, a.kind \in Kind, \A f \in Forwards \cap DOMAIN a.options : IsTarget(a.options[f]),
           NEW entries, Visibles(entries), entries # {}
    PROVE  LET b == Updated(a, Descriptions(a, ParseFeed(entries))) IN
           DOMAIN b \subseteq OptionsOf[a.kind] /\ UrlsIn(b)
  <1> DEFINE details == Descriptions(a, ParseFeed(entries))
             d       == CHOOSE x \in details : TRUE
             got     == d.fields
             o       == Merged(got, a.options)
  <1>1. ParseFeed(entries) \subseteq entries /\ ParseFeed(entries) # {}
    BY ParseFeedIs DEF Visibles
  <1>2. d \in details
    <2>1. details # {}
      BY <1>1 DEF Descriptions
    <2> HIDE DEF details
    <2>2. QED
      BY <2>1
  <1> HIDE DEF d
  <1>3. PICK e \in ParseFeed(entries) :
            d = [path |-> e.path, kind |-> e.kind, fields |-> Build(a.kind, Named(a.kind, e.raw))]
    BY <1>2 DEF Descriptions
  <1>4. got = Build(a.kind, Named(a.kind, e.raw)) /\ e \in entries
    BY <1>1, <1>3
  <1> HIDE DEF got
  <1>5. ASSUME NEW f \in Forwards \cap DOMAIN got
        PROVE  IsTarget(got[f])
    <2>1. f \in DOMAIN Named(a.kind, e.raw) /\ got[f] = Read(f, Named(a.kind, e.raw)[f])
      BY <1>4 DEF Build
    <2>2. f \notin NameProperties[a.kind] /\ f \notin {"authorizationRules", "filter", "action"}
      BY ForwardFields
    <2>3. f \in DOMAIN e.raw /\ Named(a.kind, e.raw)[f] = e.raw[f]
      BY <2>1, <2>2 DEF Named
    <2>4. got[f] = e.raw[f]
      BY <2>1, <2>2, <2>3 DEF Read
    <2>5. IsUrl(e.raw[f])
      BY <1>4, <2>3 DEF Visibles, UrlsIn
    <2>6. QED
      BY <2>4, <2>5 DEF IsUrl
  <1>6. ASSUME NEW f \in Forwards \cap DOMAIN o
        PROVE  IsTarget(o[f])
    <2>1. /\ f \in DOMAIN got \/ f \in DOMAIN a.options
          /\ o[f] = IF f \in DOMAIN a.options THEN a.options[f] ELSE got[f]
      BY DEF Merged
    <2>2. QED
      BY <2>1, <1>5
  <1> HIDE DEF o
  <1>7. DOMAIN PutResource(BuildOptions(a.kind, o)) \subseteq OptionsOf[a.kind]
        /\ UrlsIn(PutResource(BuildOptions(a.kind, o)))
    BY <1>6, BodyMade
  <1>8. Updated(a, details) = PutResource(BuildOptions(a.kind, o))
    BY DEF Updated, o, got, d
  <1>9. QED
    BY <1>7, <1>8

-----------------------------------------------------------------------------
(* The invariant *)

LEMMA AskedIs ==
    ASSUME AtomTypes, NEW c \in Call
    PROVE  /\ ask[c].kind \in Kind
           /\ \A f \in Forwards \cap DOMAIN ask[c].options : IsTarget(ask[c].options[f])
  <1>1. CASE ask[c] \in Ask
    BY <1>1, InputsOK
  <1>2. CASE ask[c] = NoAsk
    <2>1. DOMAIN ask[c].options = {}
      BY <1>2 DEF NoAsk
    <2>2. QED
      BY <1>2, <2>1, ForwardFields DEF NoAsk
  <1>3. QED
    BY <1>1, <1>2 DEF AtomTypes

LEMMA ImageIsFinite ==
    ASSUME NEW S, IsFiniteSet(S), NEW f, DOMAIN f = S
    PROVE  IsFiniteSet({f[x] : x \in S})
  <1> DEFINE T == {f[x] : x \in S}
             g == [x \in S |-> f[x]]
  <1>1. g \in Surjection(S, T)
    BY DEF Surjection
  <1> HIDE DEF T, g
  <1>2. IsFiniteSet(T)
    BY <1>1, FS_Surjection
  <1>3. QED
    BY <1>2 DEF T

LEMMA AtomInitInv == AtomInit => AtomInv
  <1> SUFFICES ASSUME AtomInit PROVE AtomInv
    OBVIOUS
  <1>1. AtomTypes
    BY DEF AtomInit, AtomTypes
  <1>2. StoreInv
    BY InputsOK DEF AtomInit, StoreInv, UrlsIn
  <1>3. BodyInv
    <2>1. \A c \in Call : body[c] = <<>>
      BY DEF AtomInit
    <2>2. DOMAIN <<>> = {}
      OBVIOUS
    <2>3. QED
      BY <2>1, <2>2 DEF BodyInv, UrlsIn
  <1>4. AnswerInv
    BY FS_EmptySet DEF AtomInit, AnswerInv, NoAnswer
  <1>5. HonestInv
    BY DEF AtomInit, HonestInv
  <1>6. ResultInv
    BY DEF AtomInit, ResultInv, NoResult, VerdictIsHonest, KindIsRight
  <1>7. QED
    BY <1>1, <1>2, <1>3, <1>4, <1>5, <1>6 DEF AtomInv

\* Nothing but one call changes: what each action leaves alone of the others.
LEMMA BeginInv ==
    ASSUME AtomInv, NEW c \in Call, NEW a \in Ask, Begin(c, a)
    PROVE  AtomInv'
  <1>1. /\ step[c] = "idle" /\ ask' = [ask EXCEPT ![c] = a]
        /\ \/ body' = [body EXCEPT ![c] = PutResource(BuildOptions(a.kind, a.options))]
           \/ body' = [body EXCEPT ![c] = <<>>]
        /\ \/ step' = [step EXCEPT ![c] = "reading"]
           \/ step' = [step EXCEPT ![c] = "sending"]
        /\ UNCHANGED <<store, answer, result, was, met, faults>>
    BY DEF Begin, GoTo
  <1>2. AtomTypes'
    BY <1>1 DEF AtomInv, AtomTypes
  <1>3. StoreInv'
    BY <1>1 DEF AtomInv, StoreInv
  <1>4. BodyInv'
    <2>1. DOMAIN body'[c] \subseteq OptionsOf[a.kind] /\ UrlsIn(body'[c])
      <3>1. CASE body' = [body EXCEPT ![c] = PutResource(BuildOptions(a.kind, a.options))]
        <4>1. body'[c] = PutResource(BuildOptions(a.kind, a.options))
          BY <3>1 DEF AtomInv, AtomTypes
        <4>2. QED
          BY <4>1, InputsOK, BodyMade
      <3>2. CASE body' = [body EXCEPT ![c] = <<>>]
        <4>1. body'[c] = <<>> /\ DOMAIN <<>> = {}
          BY <3>2 DEF AtomInv, AtomTypes
        <4>2. QED
          BY <4>1 DEF UrlsIn
      <3>3. QED
        BY <1>1, <3>1, <3>2
    <2>2. ask'[c] = a
      BY <1>1 DEF AtomInv, AtomTypes
    <2>3. \A d \in Call \ {c} : body'[d] = body[d] /\ ask'[d] = ask[d]
      BY <1>1 DEF AtomInv, AtomTypes
    <2>4. QED
      BY <2>1, <2>2, <2>3 DEF AtomInv, BodyInv
  <1>5. AnswerInv'
    BY <1>1 DEF AtomInv, AnswerInv
  <1>6. \A d \in Call \ {c} : step'[d] = step[d] /\ ask'[d] = ask[d]
    BY <1>1 DEF AtomInv, AtomTypes
  <1>7. step'[c] \in {"reading", "sending"}
    BY <1>1 DEF AtomInv, AtomTypes
  <1>8. HonestInv'
    <2>1. ASSUME NEW d \in Call, step'[d] \in {"read", "answered"}
          PROVE  Honest(answer'[d], step'[d], ask'[d].op, was'[d])
      <3>1. d # c
        BY <2>1, <1>7
      <3>2. step'[d] = step[d] /\ ask'[d] = ask[d] /\ answer'[d] = answer[d] /\ was'[d] = was[d]
        BY <3>1, <1>1, <1>6
      <3>3. QED
        BY <2>1, <3>2 DEF AtomInv, HonestInv
    <2>2. QED
      BY <2>1 DEF HonestInv
  <1>9. result[c] = NoResult
    BY <1>1 DEF AtomInv, ResultInv
  <1>10. ResultInv'
    <2>1. UNCHANGED <<result, was>>
      BY <1>1
    <2>2. result[c].code = "none" /\ result[c].details = {}
      BY <1>9 DEF NoResult
    <2>3. \A d \in Call : step'[d] # "over" => result'[d] = NoResult
      BY <2>1, <1>6, <1>9 DEF AtomInv, ResultInv
    <2>4. VerdictIsHonest'
      BY <2>1, <2>2, <1>6 DEF AtomInv, ResultInv, VerdictIsHonest
    <2>5. KindIsRight'
      BY <2>1, <2>2, <1>6 DEF AtomInv, ResultInv, KindIsRight
    <2>6. QED
      BY <2>3, <2>4, <2>5 DEF ResultInv
  <1>11. QED
    BY <1>2, <1>3, <1>4, <1>5, <1>8, <1>10 DEF AtomInv

LEMMA AnswerKeeps ==
    ASSUME AtomInv, NEW c \in Call, NEW s \in {"read", "answered"}, NEW ans, NEW more,
           GoTo(c, s), step[c] # "over", answer' = [answer EXCEPT ![c] = ans],
           DOMAIN was' = Call, was'[c] = was[c] \cup more,
           \A d \in Call \ {c} : was'[d] = was[d], Visibles(ans.entries),
           Honest(ans, s, ask[c].op, was[c] \cup more),
           UNCHANGED <<ask, body, result>>
    PROVE  AtomTypes' /\ BodyInv' /\ AnswerInv' /\ HonestInv' /\ ResultInv'
  <1>1. /\ DOMAIN step' = Call /\ step'[c] = s
        /\ \A d \in Call \ {c} : step'[d] = step[d]
    BY DEF GoTo, AtomInv, AtomTypes
  <1>2. /\ DOMAIN answer' = Call
        /\ answer'[c] = ans
        /\ \A d \in Call \ {c} : answer'[d] = answer[d]
    BY DEF AtomInv, AtomTypes
  <1>3. /\ DOMAIN was' = Call /\ was'[c] = was[c] \cup more
        /\ \A d \in Call \ {c} : was'[d] = was[d]
    OBVIOUS
  <1>4. AtomTypes'
    BY <1>1, <1>2, <1>3 DEF AtomInv, AtomTypes
  <1>5. BodyInv'
    BY DEF AtomInv, BodyInv
  <1>6. AnswerInv'
    BY <1>2 DEF AtomInv, AnswerInv, Visibles
  <1>7. HonestInv'
    <2>1. ASSUME NEW d \in Call, step'[d] \in {"read", "answered"}
          PROVE  Honest(answer'[d], step'[d], ask'[d].op, was'[d])
      <3>1. CASE d = c
        BY <3>1, <1>1, <1>2, <1>3
      <3>2. CASE d # c
        BY <3>2, <2>1, <1>1, <1>2, <1>3 DEF AtomInv, HonestInv
      <3>3. QED
        BY <3>1, <3>2
    <2>2. QED
      BY <2>1 DEF HonestInv
  <1>8. ResultInv'
    BY <1>1, <1>3 DEF AtomInv, ResultInv, VerdictIsHonest, KindIsRight
  <1>9. QED
    BY <1>4, <1>5, <1>6, <1>7, <1>8

LEMMA EntryVisible ==
    ASSUME StoreInv, NEW p \in DOMAIN store
    PROVE  LET s == Shown(p, store[p]) IN
           s.kind \in Kind /\ DOMAIN s.raw \subseteq Visible(s.kind) /\ UrlsIn(s.raw)
  BY ShownIsVisible DEF StoreInv

LEMMA FoundVisible ==
    ASSUME AtomInv, NEW c \in Call
    PROVE  Visibles(Found(c)) /\ (Found(c) = {} <=> ~Exists(ask[c].path))
  <1>1. CASE Exists(ask[c].path)
    <2> DEFINE s == Shown(ask[c].path, store[ask[c].path])
    <2>1. s.kind \in Kind /\ DOMAIN s.raw \subseteq Visible(s.kind) /\ UrlsIn(s.raw)
      BY <1>1, EntryVisible DEF AtomInv, Exists
    <2>2. Found(c) = {s}
      BY <1>1 DEF Found
    <2> HIDE DEF s
    <2>3. QED
      BY <1>1, <2>1, <2>2, FS_Singleton DEF Visibles
  <1>2. CASE ~Exists(ask[c].path)
    BY <1>2, FS_EmptySet DEF Found, Visibles
  <1>3. QED
    BY <1>1, <1>2

LEMMA ServeReadInv ==
    ASSUME AtomInv, NEW c \in Call, ServeRead(c)
    PROVE  AtomInv'
  <1> DEFINE more == {Exists(ask[c].path)}
             ans  == [status |-> 200, subcode |-> FALSE, entries |-> Found(c)]
  <1>1. /\ step[c] = "reading" /\ GoTo(c, "read") /\ UNCHANGED <<store, ask, body, result>>
        /\ was' = [was EXCEPT ![c] = @ \cup more] /\ answer' = [answer EXCEPT ![c] = ans]
    BY DEF ServeRead, Seen, Answered
  <1>2. Visibles(ans.entries) /\ (ans.entries = {} => FALSE \in more)
    <2>1. Exists(ask[c].path) \in BOOLEAN
      BY DEF Exists
    <2>2. QED
      BY <2>1, FoundVisible
  <1>3. ans.status # 404 /\ ans.status # 409
    OBVIOUS
  <1> HIDE DEF more, ans
  <1>4. Honest(ans, "read", ask[c].op, was[c] \cup more)
    BY <1>2, <1>3, Zenon DEF Honest
  <1>5. /\ DOMAIN was' = Call /\ was'[c] = was[c] \cup more
        /\ \A d \in Call \ {c} : was'[d] = was[d]
    BY <1>1 DEF AtomInv, AtomTypes
  <1>6. AtomTypes' /\ BodyInv' /\ AnswerInv' /\ HonestInv' /\ ResultInv'
    BY <1>1, <1>2, <1>4, <1>5, AnswerKeeps
  <1>7. StoreInv'
    BY <1>1 DEF AtomInv, StoreInv
  <1>8. QED
    BY <1>6, <1>7 DEF AtomInv

\* What Serve and Refuse answer is true when its status and entries are.
LEMMA HonestAnswer ==
    ASSUME NEW ans, NEW s, NEW op, NEW seen,
           ans.status = 404 => FALSE \in seen,
           ans.status # 409 \/ ans.subcode \/ op \in {"delete", "update"} \/ (op = "create" /\ TRUE \in seen),
           ans.status # 200 \/ ans.entries # {} \/ (s # "read" /\ op # "get") \/ FALSE \in seen
    PROVE  Honest(ans, s, op, seen)
  BY Zenon DEF Honest

LEMMA PutInv ==
    ASSUME AtomInv, NEW c \in Call, ServePut(c, ask[c], [kind |-> ask[c].kind, raw |-> body[c]])
    PROVE  /\ StoreInv'
           /\ \E entries : /\ Visibles(entries) /\ entries # {}
                           /\ answer' = [answer EXCEPT ![c] =
                                  [status |-> 200, subcode |-> FALSE, entries |-> entries]]
  <1> DEFINE p == ask[c].path
             e == [kind |-> ask[c].kind, raw |-> body[c]]
             s == Shown(p, e)
  <1>1. /\ store' = [q \in DOMAIN store \cup {p} |-> IF q = p THEN e ELSE store[q]]
        /\ answer' = [answer EXCEPT ![c] = [status |-> 200, subcode |-> FALSE, entries |-> {s}]]
    BY DEF ServePut, Answered
  <1>2. e.kind \in Kind /\ DOMAIN e.raw \subseteq OptionsOf[e.kind] /\ UrlsIn(e.raw)
    BY AskedIs DEF AtomInv, BodyInv
  <1> HIDE DEF e
  <1>3. s.kind \in Kind /\ DOMAIN s.raw \subseteq Visible(s.kind) /\ UrlsIn(s.raw)
    BY <1>2, ShownIsVisible
  <1> HIDE DEF s
  <1>4. Visibles({s})
    BY <1>3, FS_Singleton DEF Visibles
  <1>5. IsFiniteSet(DOMAIN store \cup {p})
    BY FS_AddElement DEF AtomInv, StoreInv
  <1> HIDE DEF p
  <1>6. DOMAIN store' = DOMAIN store \cup {p} /\ store'[p] = e
        /\ \A q \in DOMAIN store' : q # p => q \in DOMAIN store /\ store'[q] = store[q]
    BY <1>1
  <1>7. StoreInv'
    <2>1. IsFiniteSet(DOMAIN store')
      BY <1>5, <1>6
    <2>2. ASSUME NEW q \in DOMAIN store'
          PROVE  /\ store'[q].kind \in Kind
                 /\ DOMAIN store'[q].raw \subseteq OptionsOf[store'[q].kind]
                 /\ UrlsIn(store'[q].raw)
      <3>1. CASE q = p
        BY <3>1, <1>2, <1>6
      <3>2. CASE q # p
        BY <3>2, <1>6 DEF AtomInv, StoreInv
      <3>3. QED
        BY <3>1, <3>2
    <2>3. QED
      BY <2>1, <2>2 DEF StoreInv, UrlsIn
  <1>8. QED
    BY <1>1, <1>4, <1>7

LEMMA ChildrenVisible ==
    ASSUME AtomInv, NEW kind, NEW p
    PROVE  Visibles({Shown(q, store[q]) : q \in Children(kind, p)})
  <1> DEFINE C == Children(kind, p)
             f == [q \in C |-> Shown(q, store[q])]
  <1>1. C \in SUBSET DOMAIN store
    BY DEF Children, Below
  <1> HIDE DEF C
  <1>2. IsFiniteSet(C)
    BY <1>1, FS_Subset DEF AtomInv, StoreInv
  <1>3. DOMAIN f = C /\ {f[q] : q \in C} = {Shown(q, store[q]) : q \in C}
    OBVIOUS
  <1> HIDE DEF f
  <1>4. IsFiniteSet({Shown(q, store[q]) : q \in C})
    BY <1>2, <1>3, ImageIsFinite
  <1>5. ASSUME NEW q \in C
        PROVE  LET s == Shown(q, store[q]) IN
               s.kind \in Kind /\ DOMAIN s.raw \subseteq Visible(s.kind) /\ UrlsIn(s.raw)
    BY <1>1, EntryVisible DEF AtomInv
  <1>6. QED
    BY <1>4, <1>5 DEF Visibles, C

LEMMA ServeInv ==
    ASSUME AtomInv, NEW c \in Call, Serve(c)
    PROVE  AtomInv'
  <1> DEFINE a    == ask[c]
             p    == a.path
             more == {Exists(p)}
             Says(status, entries) == answer' = [answer EXCEPT ![c] =
                 [status |-> status, subcode |-> FALSE, entries |-> entries]]
  <1>1. /\ step[c] # "over" /\ GoTo(c, "answered") /\ UNCHANGED <<ask, body, result>>
        /\ DOMAIN was' = Call /\ was'[c] = was[c] \cup more
        /\ \A d \in Call \ {c} : was'[d] = was[d]
    BY DEF Serve, Seen, AtomInv, AtomTypes
  <1>2. (Exists(p) => TRUE \in more) /\ (~Exists(p) => FALSE \in more)
    <2>1. Exists(p) \in BOOLEAN
      BY DEF Exists
    <2>2. QED
      BY <2>1
  <1>3. ASSUME NEW status, NEW entries, Says(status, entries), Visibles(entries), StoreInv',
               status = 404 => ~Exists(p),
               status # 409 \/ a.op \in {"delete", "update"} \/ (a.op = "create" /\ Exists(p)),
               status # 200 \/ entries # {} \/ a.op # "get" \/ ~Exists(p)
        PROVE  AtomInv'
    <2> DEFINE ans == [status |-> status, subcode |-> FALSE, entries |-> entries]
               s   == "answered"
    <2>1. ans.status = status /\ ans.entries = entries /\ s # "read"
      OBVIOUS
    <2> HIDE DEF ans, more
    <2>2. Honest(ans, s, a.op, was[c] \cup more)
      <3>1. ans.status = 404 => FALSE \in was[c] \cup more
        BY <2>1, <1>2, <1>3
      <3>2. ans.status # 409 \/ ans.subcode \/ a.op \in {"delete", "update"}
               \/ (a.op = "create" /\ TRUE \in was[c] \cup more)
        BY <2>1, <1>2, <1>3
      <3>3. ans.status # 200 \/ ans.entries # {} \/ (s # "read" /\ a.op # "get")
               \/ FALSE \in was[c] \cup more
        BY <2>1, <1>2, <1>3
      <3> HIDE DEF s, a
      <3>4. QED
        BY <3>1, <3>2, <3>3, HonestAnswer
    <2>3. answer' = [answer EXCEPT ![c] = ans]
      BY <1>3 DEF ans
    <2>4. AtomTypes' /\ BodyInv' /\ AnswerInv' /\ HonestInv' /\ ResultInv'
      BY <2>1, <2>2, <2>3, <1>1, <1>3, AnswerKeeps
    <2>5. QED
      BY <2>4, <1>3 DEF AtomInv
  <1> HIDE DEF Says
  <1>4. UNCHANGED store => StoreInv'
    BY DEF AtomInv, StoreInv
  <1>5. Visibles({})
    BY FS_EmptySet DEF Visibles
  <1>6. CASE a.op = "get" /\ Answered(c, 200, Found(c)) /\ UNCHANGED store
    <2>1. Says(200, Found(c))
      BY <1>6 DEF Answered, Says
    <2>2. Visibles(Found(c)) /\ (Found(c) = {} => ~Exists(p))
      BY FoundVisible
    <2>3. QED
      BY <2>1, <2>2, <1>3, <1>4, <1>6
  <1>7. CASE a.op = "list" /\ UNCHANGED store
             /\ Answered(c, 200, {Shown(q, store[q]) : q \in Children(a.kind, p)})
    <2> DEFINE es == {Shown(q, store[q]) : q \in Children(a.kind, p)}
    <2>1. Visibles(es)
      BY ChildrenVisible
    <2>2. Says(200, es)
      BY <1>7 DEF Answered, Says
    <2> HIDE DEF es
    <2>3. QED
      BY <2>1, <2>2, <1>3, <1>4, <1>7
  <1>8. CASE a.op \in {"create", "update"} /\ ServePut(c, a, [kind |-> a.kind, raw |-> body[c]])
    <2>1. StoreInv' /\ \E entries : Visibles(entries) /\ entries # {} /\ Says(200, entries)
      BY <1>8, PutInv DEF Says
    <2>2. PICK entries : Visibles(entries) /\ entries # {} /\ Says(200, entries)
      BY <2>1
    <2>3. QED
      BY <2>1, <2>2, <1>3, <1>8
  <1>9. CASE a.op = "delete" /\ store' = [q \in DOMAIN store \ Below(p) |-> store[q]]
             /\ Answered(c, 200, {})
    <2>1. DOMAIN store' = DOMAIN store \ Below(p) /\ \A q \in DOMAIN store' : store'[q] = store[q]
      BY <1>9
    <2>2. DOMAIN store' \in SUBSET DOMAIN store
      BY <2>1
    <2>3. IsFiniteSet(DOMAIN store')
      BY <2>2, FS_Subset DEF AtomInv, StoreInv
    <2>4. StoreInv'
      BY <2>1, <2>2, <2>3 DEF AtomInv, StoreInv, UrlsIn
    <2>5. Says(200, {})
      BY <1>9 DEF Answered, Says
    <2>6. QED
      BY <2>4, <2>5, <1>3, <1>5, <1>9
  <1>10. CASE a.op = "create" /\ Exists(p) /\ Answered(c, 409, {}) /\ UNCHANGED store
    <2>1. Says(409, {})
      BY <1>10 DEF Answered, Says
    <2>2. QED
      BY <2>1, <1>3, <1>4, <1>5, <1>10
  <1>11. CASE a.op = "update" /\ Answered(c, 400, {}) /\ UNCHANGED store
    <2>1. Says(400, {})
      BY <1>11 DEF Answered, Says
    <2>2. QED
      BY <2>1, <1>3, <1>4, <1>5, <1>11
  <1>12. CASE ~Exists(p) /\ Answered(c, 404, {}) /\ UNCHANGED store
    <2>1. Says(404, {})
      BY <1>12 DEF Answered, Says
    <2>2. QED
      BY <2>1, <1>3, <1>4, <1>5, <1>12
  <1>13. QED
    BY <1>6, <1>7, <1>8, <1>9, <1>10, <1>11, <1>12 DEF Serve

\* A refusal is an error, and a conflict is one with another operation.
LEMMA RefusalsAre ==
    ASSUME NEW c \in Call, Refuse(c)
    PROVE  \E n \in Nat, b \in BOOLEAN :
              /\ answer' = [answer EXCEPT ![c] =
                     [status |-> n, subcode |-> b, entries |-> {}]]
              /\ n # 200 /\ n # 404
              /\ n = 409 => b \/ ask[c].op \in {"update", "delete"}
  <1> DEFINE always == {<<401, FALSE>>, <<403, TRUE>>, <<403, FALSE>>, <<503, FALSE>>, <<599, FALSE>>}
             writes == step[c] = "sending" /\ ask[c].op \notin {"get", "list"}
             given  == always \cup (IF writes THEN {<<409, TRUE>>} ELSE {}) \cup
                          (IF writes /\ ask[c].op \in {"update", "delete"} THEN {<<409, FALSE>>} ELSE {})
  <1>1. PICK r \in given :
            answer' = [answer EXCEPT ![c] = [status |-> r[1], subcode |-> r[2], entries |-> {}]]
    BY DEF Refuse, Refusals
  <1>2. r \in always \/ r = <<409, TRUE>> \/ (r = <<409, FALSE>> /\ ask[c].op \in {"update", "delete"})
    <2> HIDE DEF always, writes
    <2>1. QED
      BY <1>1, Zenon
  <1>3. ASSUME r \in always PROVE r[1] \in {401, 403, 503, 599} /\ r[2] \in BOOLEAN
    <2>1. CASE r = <<401, FALSE>>
      BY <2>1
    <2>2. CASE r = <<403, TRUE>>
      BY <2>2
    <2>3. CASE r = <<403, FALSE>>
      BY <2>3
    <2>4. CASE r = <<503, FALSE>>
      BY <2>4
    <2>5. CASE r = <<599, FALSE>>
      BY <2>5
    <2>6. QED
      BY <1>3, <2>1, <2>2, <2>3, <2>4, <2>5
  <1> HIDE DEF always
  <1>4. ASSUME r \in always
        PROVE  /\ r[1] \in Nat /\ r[2] \in BOOLEAN /\ r[1] # 200 /\ r[1] # 404
               /\ r[1] = 409 => r[2] = TRUE \/ ask[c].op \in {"update", "delete"}
    BY <1>3, <1>4
  <1>5. ASSUME r = <<409, TRUE>>
        PROVE  /\ r[1] \in Nat /\ r[2] \in BOOLEAN /\ r[1] # 200 /\ r[1] # 404
               /\ r[1] = 409 => r[2] = TRUE \/ ask[c].op \in {"update", "delete"}
    BY <1>5
  <1>6. ASSUME r = <<409, FALSE>> /\ ask[c].op \in {"update", "delete"}
        PROVE  /\ r[1] \in Nat /\ r[2] \in BOOLEAN /\ r[1] # 200 /\ r[1] # 404
               /\ r[1] = 409 => r[2] = TRUE \/ ask[c].op \in {"update", "delete"}
    BY <1>6
  <1>7. /\ r[1] \in Nat /\ r[2] \in BOOLEAN /\ r[1] # 200 /\ r[1] # 404
        /\ r[1] = 409 => r[2] = TRUE \/ ask[c].op \in {"update", "delete"}
    BY <1>2, <1>4, <1>5, <1>6
  <1>8. QED
    BY <1>7, <1>1

LEMMA RefuseInv ==
    ASSUME AtomInv, NEW c \in Call, Refuse(c)
    PROVE  AtomInv'
  <1>1. PICK n \in Nat, b \in BOOLEAN :
            /\ answer' = [answer EXCEPT ![c] = [status |-> n, subcode |-> b, entries |-> {}]]
            /\ n # 200 /\ n # 404
            /\ n = 409 => b \/ ask[c].op \in {"update", "delete"}
    BY RefusalsAre
  <1> DEFINE ans == [status |-> n, subcode |-> b, entries |-> {}]
  <1>2. ans.status = n /\ ans.subcode = b /\ ans.entries = {}
    OBVIOUS
  <1>3. answer' = [answer EXCEPT ![c] = ans]
    BY <1>1
  <1> HIDE DEF ans
  <1>4. PICK s \in {"read", "answered"} : GoTo(c, s)
    BY DEF Refuse
  <1>5. step[c] # "over" /\ UNCHANGED <<ask, body, result, store>>
        /\ DOMAIN was' = Call /\ was'[c] = was[c] \cup {}
        /\ \A d \in Call \ {c} : was'[d] = was[d]
    BY DEF Refuse, AtomInv, AtomTypes
  <1>6. ans.status # 409 \/ ans.subcode \/ ask[c].op \in {"delete", "update"}
    BY <1>1, <1>2
  <1>7. Honest(ans, s, ask[c].op, was[c] \cup {})
    BY <1>1, <1>2, <1>6, HonestAnswer
  <1>8. Visibles(ans.entries)
    BY <1>2, FS_EmptySet DEF Visibles
  <1>9. AtomTypes' /\ BodyInv' /\ AnswerInv' /\ HonestInv' /\ ResultInv'
    BY <1>3, <1>4, <1>5, <1>7, <1>8, AnswerKeeps
  <1>10. StoreInv'
    BY <1>5 DEF AtomInv, StoreInv
  <1>11. QED
    BY <1>9, <1>10 DEF AtomInv

\* A call that ends: its result is what the answer says, or that it was lost.
LEMMA CallEnds ==
    ASSUME AtomInv, NEW c \in Call, NEW r, End(c, r),
           UNCHANGED <<store, ask, answer, was>>,
           r.code = "MessageEntityNotFoundError" => FALSE \in was[c],
           r.code = "MessageEntityAlreadyExistsError" => ask[c].op = "create" /\ TRUE \in was[c],
           ask[c].kind # "topic" => \A d \in r.details : d.kind = ask[c].kind
    PROVE  AtomInv'
  <1>1. /\ DOMAIN step' = Call /\ step'[c] = "over"
        /\ \A d \in Call \ {c} : step'[d] = step[d]
    BY DEF End, GoTo, AtomInv, AtomTypes
  <1>2. /\ DOMAIN result' = Call /\ result'[c] = r
        /\ \A d \in Call \ {c} : result'[d] = result[d]
    BY DEF End, AtomInv, AtomTypes
  <1>3. UNCHANGED body
    BY DEF End
  <1>4. AtomTypes'
    BY <1>1, <1>2, <1>3 DEF AtomInv, AtomTypes
  <1>5. StoreInv' /\ BodyInv' /\ AnswerInv'
    BY <1>3 DEF AtomInv, StoreInv, BodyInv, AnswerInv
  <1>6. HonestInv'
    <2>1. ASSUME NEW d \in Call, step'[d] \in {"read", "answered"}
          PROVE  Honest(answer'[d], step'[d], ask'[d].op, was'[d])
      <3>1. d # c
        BY <2>1, <1>1
      <3>2. step'[d] = step[d] /\ ask'[d] = ask[d] /\ answer'[d] = answer[d] /\ was'[d] = was[d]
        BY <3>1, <1>1
      <3>3. QED
        BY <2>1, <3>2 DEF AtomInv, HonestInv
    <2>2. QED
      BY <2>1 DEF HonestInv
  <1>7. \A d \in Call : step'[d] # "over" => result'[d] = NoResult
    BY <1>1, <1>2 DEF AtomInv, ResultInv
  <1>8. VerdictIsHonest'
    BY <1>2 DEF AtomInv, ResultInv, VerdictIsHonest
  <1>9. KindIsRight'
    BY <1>2 DEF AtomInv, ResultInv, KindIsRight
  <1>10. QED
    BY <1>4, <1>5, <1>6, <1>7, <1>8, <1>9 DEF AtomInv, ResultInv

LEMMA OutcomeHonest ==
    ASSUME AtomInv, NEW c \in Call, NEW reads \in BOOLEAN, step[c] \in {"read", "answered"},
           reads => step[c] = "read" \/ ask[c].op = "get"
    PROVE  LET r == Outcome(ask[c], answer[c], reads) IN
           /\ r.code = "MessageEntityNotFoundError" => FALSE \in was[c]
           /\ r.code = "MessageEntityAlreadyExistsError" => ask[c].op = "create" /\ TRUE \in was[c]
           /\ ask[c].kind # "topic" => \A d \in r.details : d.kind = ask[c].kind
           /\ r.code = "ok" =>
                 /\ answer[c].status = 200 /\ (reads => answer[c].entries # {})
                 /\ r.details = Descriptions(ask[c], ParseFeed(answer[c].entries))
  <1> DEFINE a   == ask[c]
             ans == answer[c]
             r   == Outcome(a, ans, reads)
  <1>1. a.kind \in Kind /\ Visibles(ans.entries)
    BY AskedIs DEF AtomInv, AnswerInv, Visibles
  <1>2. Honest(ans, step[c], a.op, was[c])
    BY DEF AtomInv, HonestInv
  <1> HIDE DEF a, ans
  <1>3. /\ r.code = "MessageEntityNotFoundError" =>
              ans.status = 404 \/ (ans.status = 200 /\ ans.entries = {} /\ reads)
        /\ r.code = "MessageEntityAlreadyExistsError" =>
              ans.status = 409 /\ ~ans.subcode /\ a.op \notin {"delete", "update"}
        /\ r.code = "ok" =>
              /\ ans.status = 200 /\ (reads => ans.entries # {})
              /\ ~Incomplete(a, ParseFeed(ans.entries))
              /\ r.details = Descriptions(a, ParseFeed(ans.entries))
        /\ r.code # "ok" => r.details = {}
    BY <1>1, OutcomeSays
  <1> HIDE DEF r
  <1>4. r.code = "MessageEntityNotFoundError" => FALSE \in was[c]
    BY <1>2, <1>3, Zenon DEF Honest, a
  <1>5. r.code = "MessageEntityAlreadyExistsError" => a.op = "create" /\ TRUE \in was[c]
    BY <1>2, <1>3, Zenon DEF Honest
  <1>6. a.kind # "topic" => \A d \in r.details : d.kind = a.kind
    BY <1>1, <1>3, DescribedKind
  <1>7. QED
    BY <1>3, <1>4, <1>5, <1>6 DEF r, a, ans

LEMMA HasReadInv ==
    ASSUME AtomInv, NEW c \in Call, HasRead(c)
    PROVE  AtomInv'
  <1> DEFINE r == Outcome(ask[c], answer[c], TRUE)
  <1>1. step[c] = "read" /\ UNCHANGED <<store, ask, answer, was>>
    BY DEF HasRead
  <1>2. /\ r.code = "MessageEntityNotFoundError" => FALSE \in was[c]
        /\ r.code = "MessageEntityAlreadyExistsError" => ask[c].op = "create" /\ TRUE \in was[c]
        /\ ask[c].kind # "topic" => \A d \in r.details : d.kind = ask[c].kind
        /\ r.code = "ok" =>
              /\ answer[c].entries # {}
              /\ r.details = Descriptions(ask[c], ParseFeed(answer[c].entries))
    BY <1>1, OutcomeHonest
  <1>3. CASE r.code # "ok"
    <2>1. End(c, r)
      BY <1>3 DEF HasRead
    <2> HIDE DEF r
    <2>2. QED
      BY <2>1, <1>1, <1>2, CallEnds
  <1>4. CASE r.code = "ok"
    <2>1. /\ body' = [body EXCEPT ![c] = Updated(ask[c], r.details)]
          /\ step' = [step EXCEPT ![c] = "sending"] /\ UNCHANGED result
      BY <1>4 DEF HasRead, GoTo
    <2> HIDE DEF r
    <2>2. DOMAIN body'[c] \subseteq OptionsOf[ask[c].kind] /\ UrlsIn(body'[c])
      <3>1. body'[c] = Updated(ask[c], Descriptions(ask[c], ParseFeed(answer[c].entries)))
        BY <2>1, <1>2, <1>4 DEF AtomInv, AtomTypes
      <3>2. Visibles(answer[c].entries)
        BY DEF AtomInv, AnswerInv, Visibles
      <3>3. ask[c].kind \in Kind
            /\ \A f \in Forwards \cap DOMAIN ask[c].options : IsTarget(ask[c].options[f])
        BY AskedIs DEF AtomInv
      <3>4. QED
        BY <3>1, <3>2, <3>3, <1>2, <1>4, UpdateMade
    <2>3. /\ DOMAIN body' = Call /\ DOMAIN step' = Call /\ step'[c] = "sending"
          /\ \A d \in Call \ {c} : body'[d] = body[d] /\ step'[d] = step[d]
      BY <2>1 DEF AtomInv, AtomTypes
    <2>4. AtomTypes'
      BY <2>1, <2>3, <1>1 DEF AtomInv, AtomTypes
    <2>5. StoreInv' /\ AnswerInv'
      BY <1>1 DEF AtomInv, StoreInv, AnswerInv
    <2>6. BodyInv'
      BY <2>2, <2>3, <1>1 DEF AtomInv, BodyInv
    <2>7. HonestInv'
      <3>1. ASSUME NEW d \in Call, step'[d] \in {"read", "answered"}
            PROVE  Honest(answer'[d], step'[d], ask'[d].op, was'[d])
        <4>1. d # c
          BY <3>1, <2>3
        <4>2. step'[d] = step[d] /\ ask'[d] = ask[d] /\ answer'[d] = answer[d] /\ was'[d] = was[d]
          BY <4>1, <2>3, <1>1
        <4>3. QED
          BY <3>1, <4>2 DEF AtomInv, HonestInv
      <3>2. QED
        BY <3>1 DEF HonestInv
    <2>8. \A d \in Call : step'[d] # "over" => result'[d] = NoResult
      BY <2>1, <2>3, <1>1 DEF AtomInv, ResultInv
    <2>9. VerdictIsHonest' /\ KindIsRight'
      BY <2>1, <1>1 DEF AtomInv, ResultInv, VerdictIsHonest, KindIsRight
    <2>10. QED
      BY <2>4, <2>5, <2>6, <2>7, <2>8, <2>9 DEF AtomInv, ResultInv
  <1>5. QED
    BY <1>3, <1>4

LEMMA EndsInv ==
    ASSUME AtomInv, NEW c \in Call, Ends(c)
    PROVE  AtomInv'
  <1> DEFINE reads == ask[c].op = "get"
             r     == Outcome(ask[c], answer[c], reads)
  <1>1. step[c] = "answered" /\ End(c, r) /\ UNCHANGED <<store, ask, answer, was>>
    BY DEF Ends
  <1>2. reads \in BOOLEAN /\ (reads => step[c] = "read" \/ ask[c].op = "get")
    OBVIOUS
  <1> HIDE DEF reads
  <1>3. /\ r.code = "MessageEntityNotFoundError" => FALSE \in was[c]
        /\ r.code = "MessageEntityAlreadyExistsError" => ask[c].op = "create" /\ TRUE \in was[c]
        /\ ask[c].kind # "topic" => \A d \in r.details : d.kind = ask[c].kind
    BY <1>1, <1>2, OutcomeHonest
  <1> HIDE DEF r
  <1>4. QED
    BY <1>1, <1>3, CallEnds

LEMMA LostInv ==
    ASSUME AtomInv, NEW c \in Call, Lost(c)
    PROVE  AtomInv'
  <1> DEFINE r == Failed("REQUEST_SEND_ERROR")
  <1>1. End(c, r) /\ UNCHANGED <<store, ask, answer, was>>
    BY DEF Lost
  <1>2. r.code = "REQUEST_SEND_ERROR" /\ r.details = {}
    BY DEF Failed
  <1> HIDE DEF r
  <1>3. QED
    BY <1>1, <1>2, CallEnds

LEMMA AtomInvariant == AtomSpec => []AtomInv
  <1>1. AtomInv /\ [AtomNext]_atomVars => AtomInv'
    <2> SUFFICES ASSUME AtomInv, [AtomNext]_atomVars PROVE AtomInv'
      OBVIOUS
    <2>1. ASSUME NEW c \in Call, NEW a \in Ask, Begin(c, a) PROVE AtomInv'
      BY <2>1, BeginInv
    <2>2. ASSUME NEW c \in Call, ServeRead(c) PROVE AtomInv'
      BY <2>2, ServeReadInv
    <2>3. ASSUME NEW c \in Call, Serve(c) PROVE AtomInv'
      BY <2>3, ServeInv
    <2>4. ASSUME NEW c \in Call, Refuse(c) PROVE AtomInv'
      BY <2>4, RefuseInv
    <2>5. ASSUME NEW c \in Call, HasRead(c) PROVE AtomInv'
      BY <2>5, HasReadInv
    <2>6. ASSUME NEW c \in Call, Ends(c) PROVE AtomInv'
      BY <2>6, EndsInv
    <2>7. ASSUME NEW c \in Call, Lost(c) PROVE AtomInv'
      BY <2>7, LostInv
    <2>8. CASE UNCHANGED atomVars
      BY <2>8 DEF atomVars, AtomInv, AtomTypes, StoreInv, BodyInv, AnswerInv, HonestInv, ResultInv,
                  VerdictIsHonest, KindIsRight
    <2>9. QED
      BY <2>1, <2>2, <2>3, <2>4, <2>5, <2>6, <2>7, <2>8 DEF AtomNext
  <1>2. QED
    BY AtomInitInv, <1>1, PTL DEF AtomSpec

(* A call ends with "not found" or "already exists" only when it was so as one of  *)
(* its requests was served, however calls, faults and other programs interleave     *)
(* (getErrorCode, getResource).                                                     *)
THEOREM VerdictsAreHonest == AtomSpec => []VerdictIsHonest
  <1>1. AtomInv => VerdictIsHonest
    BY DEF AtomInv, ResultInv
  <1>2. QED
    BY <1>1, AtomInvariant, PTL

(* What is described as a queue, a subscription or a rule is one (buildQueue,        *)
(* buildSubscription, buildRule).                                                    *)
THEOREM KindsAreRight == AtomSpec => []KindIsRight
  <1>1. AtomInv => KindIsRight
    BY DEF AtomInv, ResultInv
  <1>2. QED
    BY <1>1, AtomInvariant, PTL

(* Whatever is forwarded to goes by one absolute URL, for any number of updates      *)
(* (putResource).                                                                    *)
THEOREM ForwardsStayUrls == AtomSpec => []ForwardsAreUrls
  <1>1. AtomInv => ForwardsAreUrls
    BY UrlsHaveOneScheme DEF AtomInv, StoreInv, UrlsIn, ForwardsAreUrls
  <1>2. QED
    BY <1>1, AtomInvariant, PTL

-----------------------------------------------------------------------------
(* What an update writes *)

StoredIn(raw) == \A f \in DOMAIN raw : IsStored(f, raw[f])

\* What is in the namespace, sent to it and shown of it can be written again as it is.
StoredInv ==
    /\ \A p \in DOMAIN store : StoredIn(store[p].raw)
    /\ \A c \in Call : StoredIn(body[c]) /\ \A e \in answer[c].entries : StoredIn(e.raw)

\* A call that meets no other one has read, and sends, what the entity is.
Copied(c) == ReadsFirst(ask[c]) =>
    /\ step[c] = "read" /\ answer[c].status = 200 => answer[c].entries = Found(c)
    /\ step[c] = "sending" =>
          /\ Exists(ask[c].path)
          /\ body[c] = Updated(ask[c], Descriptions(ask[c], ParseFeed(Found(c))))

CopyInv == \A c \in Call \ met : Copied(c)

ExactInv == StoredInv /\ CopyInv

\* Rules of authorization, and their rights, come back from XML as they were written, be
\* there one of them or many.
LEMMA RulesComeBack ==
    ASSUME NEW v, IsRules(v)
    PROVE  LET w == Written("authorizationRules", v) IN
           /\ w # Undefined /\ w # Default /\ Read("authorizationRules", w) = v
  <1> DEFINE Rule  == [rights : Seq(STRING)]
             rules == v[2]
             raws  == [i \in DOMAIN rules |-> [rights |-> Listed(rules[i].rights)]]
             w     == Written("authorizationRules", v)
  <1>1. v = <<v[1], rules>> /\ rules \in Seq(Rule)
    BY DEF IsRules
  <1> HIDE DEF Rule, rules
  <1>2. raws \in Seq({raws[i] : i \in DOMAIN rules})
    <2> DEFINE T == {raws[i] : i \in DOMAIN rules}
    <2>1. DOMAIN rules = 1..Len(rules) /\ Len(rules) \in Nat
      BY <1>1
    <2>2. raws \in [1..Len(rules) -> T]
      BY <2>1
    <2> HIDE DEF T, raws
    <2>3. QED
      BY <2>1, <2>2 DEF T
  <1>3. w = <<v[1], Listed(raws)>>
    BY DEF Written, RawAuthorizationRules, rules
  <1>4. Unlisted(Listed(raws)) = raws
    <2> HIDE DEF raws
    <2>1. QED
      BY <1>2, UnlistedListed
  <1>5. w # Undefined /\ w # Default
    BY <1>3 DEF Undefined, Default
  <1>6. Read("authorizationRules", w) =
            <<v[1], [i \in DOMAIN raws |-> [rights |-> Unlisted(raws[i].rights)]]>>
    <2>1. Read("authorizationRules", w) = <<w[1], AuthorizationRulesOf(w[2])>>
      BY <1>5 DEF Read
    <2>2. w[1] = v[1] /\ w[2] = Listed(raws)
      BY <1>3
    <2>3. AuthorizationRulesOf(Listed(raws)) =
              [i \in DOMAIN raws |-> [rights |-> Unlisted(raws[i].rights)]]
      <3> HIDE DEF raws
      <3>1. QED
        BY <1>4 DEF AuthorizationRulesOf
    <2> HIDE DEF w, raws
    <2>4. QED
      BY <2>1, <2>2, <2>3
  <1>7. [i \in DOMAIN raws |-> [rights |-> Unlisted(raws[i].rights)]] = rules
    <2>1. DOMAIN raws = DOMAIN rules /\ DOMAIN rules = 1..Len(rules)
      BY <1>1
    <2>2. ASSUME NEW i \in DOMAIN rules
          PROVE  [rights |-> Unlisted(raws[i].rights)] = rules[i]
      <3>1. rules[i] \in Rule
        BY <1>1, <2>1
      <3>2. rules[i].rights \in Seq(STRING) /\ rules[i] = [rights |-> rules[i].rights]
        BY <3>1 DEF Rule
      <3>3. Unlisted(Listed(rules[i].rights)) = rules[i].rights
        BY <3>2, UnlistedListed
      <3>4. raws[i].rights = Listed(rules[i].rights)
        OBVIOUS
      <3> HIDE DEF raws
      <3>5. QED
        BY <3>2, <3>3, <3>4
    <2>3. rules = [i \in DOMAIN rules |-> rules[i]]
      BY <1>1
    <2> HIDE DEF raws
    <2>4. QED
      BY <2>1, <2>2, <2>3
  <1> HIDE DEF w, raws
  <1>8. Read("authorizationRules", w) = v
    BY <1>1, <1>6, <1>7
  <1>9. QED
    BY <1>5, <1>8 DEF w

\* What is written of options is as a namespace keeps it.
LEMMA MadeIsStored ==
    ASSUME NEW kind \in Kind, NEW o, \A f \in Forwards \cap DOMAIN o : IsTarget(o[f]),
           "authorizationRules" \in Defined(o) => IsRules(o["authorizationRules"])
    PROVE  StoredIn(PutResource(BuildOptions(kind, o)))
  <1> DEFINE given == IF kind = "rule" THEN RuleOf(o) ELSE o
             built == BuildOptions(kind, o)
             put   == PutResource(built)
  <1>1. built = [f \in Defined(given) \cap OptionsOf[kind] |-> Written(f, given[f])]
    BY DEF BuildOptions
  <1>2. /\ DOMAIN put = DOMAIN built /\ DOMAIN built = Defined(given) \cap OptionsOf[kind]
        /\ \A f \in DOMAIN put :
              put[f] = IF f \in Forwards THEN Absolute(built[f]) ELSE built[f]
    BY <1>1 DEF PutResource
  <1>3. ASSUME NEW f \in DOMAIN put
        PROVE  IsStored(f, put[f])
    <2>1. f \in OptionsOf[kind] /\ f \in Defined(given) /\ built[f] = Written(f, given[f])
          /\ given[f] # Undefined
      BY <1>1, <1>2 DEF Defined
    <2>2. CASE f \in Forwards
      <3>1. IsUrl(put[f])
        BY <2>2, BodyMade DEF UrlsIn
      <3>2. put[f][1] = "sb://"
        BY <3>1 DEF IsUrl, IsAbsoluteUrl
      <3>3. f # "authorizationRules" /\ put[f] # Undefined
        BY <2>2, <3>2, ForwardFields DEF Undefined
      <3>4. QED
        BY <3>3 DEF IsStored
    <2>3. CASE f = "authorizationRules"
      <3>1. kind # "rule" /\ f \notin Forwards
        BY <2>1, <2>3, ForwardFields DEF RuleOptions
      <3>2. given = o /\ put[f] = Written(f, o[f])
        BY <1>2, <2>1, <3>1
      <3>3. IsRules(o[f])
        BY <2>1, <2>3, <3>2
      <3>4. /\ put[f] # Undefined /\ put[f] # Default
            /\ Read("authorizationRules", put[f]) = o[f]
        BY <2>3, <3>2, <3>3, RulesComeBack
      <3> HIDE DEF put, given, built
      <3>5. QED
        BY <2>3, <3>2, <3>3, <3>4 DEF IsStored
    <2>4. CASE f \notin Forwards /\ f # "authorizationRules"
      <3>1. put[f] = Written(f, given[f])
        BY <1>2, <2>1, <2>4
      <3>2. put[f] = given[f] \/ put[f] = <<given[f][1], RawSql(given[f][2])>>
        BY <3>1, <2>4 DEF Written
      <3> HIDE DEF put, given, built
      <3>3. put[f] # Undefined
        BY <2>1, <3>2 DEF Undefined
      <3>4. QED
        BY <3>3, <2>4 DEF IsStored
    <2>5. QED
      BY <2>2, <2>3, <2>4
  <1>4. QED
    BY <1>3 DEF StoredIn

LEMMA ShownIsStored ==
    ASSUME NEW p, NEW e, e.kind \in Kind, StoredIn(e.raw)
    PROVE  StoredIn(Shown(p, e).raw)
  <1> DEFINE s == Shown(p, e)
  <1>1. s.raw = [f \in DOMAIN e.raw \cup (RequiredOf[e.kind] \ NameProperties[e.kind]) \cup
                          (IF e.kind = "queue" THEN {"supportOrdering"} ELSE {})
                      |-> IF f \in DOMAIN e.raw THEN e.raw[f] ELSE Default]
    BY DEF Shown
  <1> HIDE DEF s
  <1>2. "authorizationRules" \notin RequiredOf[e.kind]
    <2>1. e.kind \in {"queue", "topic", "subscription", "rule"}
      BY ForwardFields
    <2>2. QED
      BY <2>1 DEF RequiredOf, QueueRequired, TopicRequired, SubscriptionRequired, RuleRequired
  <1>3. ASSUME NEW f \in DOMAIN s.raw
        PROVE  IsStored(f, s.raw[f])
    <2>1. CASE f \in DOMAIN e.raw
      <3>1. s.raw[f] = e.raw[f]
        BY <2>1, <1>1
      <3>2. QED
        BY <2>1, <3>1 DEF StoredIn
    <2>2. CASE f \notin DOMAIN e.raw
      <3>1. s.raw[f] = Default /\ f # "authorizationRules"
        BY <2>2, <1>1, <1>2
      <3>2. Default # Undefined
        BY DEF Default, Undefined
      <3>3. QED
        BY <3>1, <3>2 DEF IsStored
    <2>3. QED
      BY <2>1, <2>2
  <1>4. QED
    BY <1>3 DEF StoredIn, s

\* The options an update can be given.
OptionsGood(o) ==
    /\ \A f \in Forwards \cap DOMAIN o : IsTarget(o[f])
    /\ "authorizationRules" \in Defined(o) => IsRules(o["authorizationRules"])

LEMMA UpdateIsStored ==
    ASSUME NEW a, a.kind \in Kind, OptionsGood(a.options), NEW entries, Visibles(entries),
           entries # {}, \A e \in entries : StoredIn(e.raw)
    PROVE  StoredIn(Updated(a, Descriptions(a, ParseFeed(entries))))
  <1> DEFINE details == Descriptions(a, ParseFeed(entries))
             d       == CHOOSE x \in details : TRUE
             got     == d.fields
             o       == Merged(got, a.options)
             auth    == "authorizationRules"
  <1>1. ParseFeed(entries) \subseteq entries /\ ParseFeed(entries) # {}
    BY ParseFeedIs DEF Visibles
  <1>2. d \in details
    <2>1. details # {}
      BY <1>1 DEF Descriptions
    <2> HIDE DEF details
    <2>2. QED
      BY <2>1
  <1> HIDE DEF d
  <1>3. PICK e \in ParseFeed(entries) :
            d = [path |-> e.path, kind |-> e.kind, fields |-> Build(a.kind, Named(a.kind, e.raw))]
    BY <1>2 DEF Descriptions
  <1>4. got = Build(a.kind, Named(a.kind, e.raw)) /\ e \in entries
    BY <1>1, <1>3
  <1> HIDE DEF got
  <1>5. ASSUME NEW f \in DOMAIN got, f \notin NameProperties[a.kind]
        PROVE  f \in DOMAIN e.raw /\ got[f] = Read(f, e.raw[f])
    <2>1. f \in DOMAIN Named(a.kind, e.raw) /\ got[f] = Read(f, Named(a.kind, e.raw)[f])
      BY <1>4 DEF Build
    <2>2. f \in DOMAIN e.raw /\ Named(a.kind, e.raw)[f] = e.raw[f]
      BY <2>1, <1>5 DEF Named
    <2>3. QED
      BY <2>1, <2>2
  <1>6. ASSUME NEW f \in Forwards \cap DOMAIN got
        PROVE  IsTarget(got[f])
    <2>1. f \notin NameProperties[a.kind] /\ f \notin {"authorizationRules", "filter", "action"}
      BY ForwardFields
    <2>2. f \in DOMAIN e.raw /\ got[f] = e.raw[f]
      BY <2>1, <1>5 DEF Read
    <2>3. QED
      BY <2>2, <1>4 DEF Visibles, UrlsIn, IsUrl
  <1>7. ASSUME auth \in DOMAIN got
        PROVE  IsRules(got[auth])
    <2>1. auth \notin NameProperties[a.kind]
      <3>1. a.kind \in {"queue", "topic", "subscription", "rule"}
        BY ForwardFields
      <3>2. QED
        BY <3>1 DEF NameProperties
    <2>2. auth \in DOMAIN e.raw /\ got[auth] = Read(auth, e.raw[auth])
      BY <2>1, <1>5, <1>7
    <2>3. IsStored(auth, e.raw[auth])
      BY <2>2, <1>4 DEF StoredIn
    <2>4. QED
      BY <2>2, <2>3 DEF IsStored
  <1>8. \A f \in DOMAIN o : /\ f \in DOMAIN got \/ f \in DOMAIN a.options
                            /\ o[f] = IF f \in DOMAIN a.options THEN a.options[f] ELSE got[f]
    BY DEF Merged
  <1> HIDE DEF o
  <1>9. \A f \in Forwards \cap DOMAIN o : IsTarget(o[f])
    BY <1>6, <1>8 DEF OptionsGood
  <1>10. auth \in Defined(o) => IsRules(o[auth])
    BY <1>7, <1>8 DEF OptionsGood, Defined
  <1>11. StoredIn(PutResource(BuildOptions(a.kind, o)))
    BY <1>9, <1>10, MadeIsStored
  <1>12. QED
    BY <1>11 DEF Updated, o, got, d

\* Which fields a description has, of those that can be set.
LEMMA OptionFields ==
    ASSUME NEW kind \in Kind, kind # "rule"
    PROVE  /\ OptionsOf[kind] \subseteq DetailsOf[kind]
           /\ OptionsOf[kind] \cap NameProperties[kind] = {}
           /\ kind = "queue" => "supportOrdering" \notin OptionsOf[kind]
           /\ OptionsOf[kind] \cap {"filter", "action"} = {}
           /\ "authorizationRules" \notin RequiredOf[kind]
           /\ Forwards \cap RequiredOf[kind] = {}
  <1>1. kind \in {"queue", "topic", "subscription"}
    BY ForwardFields
  <1>2. CASE kind = "queue"
    BY <1>2 DEF OptionsOf, DetailsOf, NameProperties, RequiredOf, QueueOptions, QueueDetails,
                QueueRequired, Forwards
  <1>3. CASE kind = "topic"
    BY <1>3 DEF OptionsOf, DetailsOf, NameProperties, RequiredOf, TopicOptions, TopicDetails,
                TopicRequired, Forwards
  <1>4. CASE kind = "subscription"
    BY <1>4 DEF OptionsOf, DetailsOf, NameProperties, RequiredOf, SubscriptionOptions,
                SubscriptionDetails, SubscriptionRequired, Forwards
  <1>5. QED
    BY <1>1, <1>2, <1>3, <1>4

\* A field of what was read is what the client sees of the entity.
LEMMA ReadField ==
    ASSUME NEW kind \in Kind, kind # "rule", NEW p, NEW e, e.kind = kind,
           NEW f \in OptionsOf[kind],
           NEW got, got = Build(kind, Named(kind, Shown(p, e).raw))
    PROVE  IF f \in DOMAIN got
           THEN got[f] = Value(e, f) /\ (f \in DOMAIN e.raw \/ f \in RequiredOf[kind])
           ELSE f \notin DOMAIN e.raw /\ f \notin RequiredOf[kind]
  <1> DEFINE s     == Shown(p, e).raw
             named == Named(kind, s)
  <1>1. /\ f \in DetailsOf[kind] /\ f \notin NameProperties[kind]
        /\ kind = "queue" => f # "supportOrdering"
        /\ f \notin {"filter", "action"}
        /\ f = "authorizationRules" => f \notin RequiredOf[kind]
    BY OptionFields
  <1>2. s = [x \in DOMAIN e.raw \cup (RequiredOf[kind] \ NameProperties[kind]) \cup
                     (IF kind = "queue" THEN {"supportOrdering"} ELSE {})
                 |-> IF x \in DOMAIN e.raw THEN e.raw[x] ELSE Default]
    BY DEF Shown
  <1>3. f \in DOMAIN s <=> f \in DOMAIN e.raw \/ f \in RequiredOf[kind]
    BY <1>1, <1>2
  <1>4. f \in DOMAIN s => s[f] = IF f \in DOMAIN e.raw THEN e.raw[f] ELSE Default
    BY <1>2
  <1> HIDE DEF s
  <1>5. (f \in DOMAIN named <=> f \in DOMAIN s) /\ (f \in DOMAIN s => named[f] = s[f])
    BY <1>1 DEF Named
  <1> HIDE DEF named
  <1>6. (f \in DOMAIN got <=> f \in DOMAIN named) /\ (f \in DOMAIN got => got[f] = Read(f, named[f]))
    BY <1>1 DEF Build, named, s
  <1>7. f \notin DOMAIN e.raw /\ f \in RequiredOf[kind] => Read(f, Default) = Default
    BY <1>1 DEF Read
  <1>8. CASE f \in DOMAIN e.raw
    <2>1. got[f] = Read(f, e.raw[f]) /\ f \in DOMAIN got
      BY <1>8, <1>3, <1>4, <1>5, <1>6
    <2>2. Value(e, f) = Read(f, e.raw[f])
      BY <1>8 DEF Value
    <2>3. QED
      BY <2>1, <2>2, <1>8
  <1>9. CASE f \notin DOMAIN e.raw /\ f \in RequiredOf[kind]
    <2>1. got[f] = Default /\ f \in DOMAIN got
      BY <1>9, <1>3, <1>4, <1>5, <1>6, <1>7
    <2>2. Value(e, f) = Default
      BY <1>9 DEF Value
    <2>3. QED
      BY <2>1, <2>2, <1>9
  <1>10. CASE f \notin DOMAIN e.raw /\ f \notin RequiredOf[kind]
    BY <1>10, <1>3, <1>5, <1>6
  <1>11. QED
    BY <1>8, <1>9, <1>10

\* What is sent in a field comes back as it was.
LEMMA WriteField ==
    ASSUME NEW kind \in Kind, kind # "rule", NEW o, NEW f \in OptionsOf[kind],
           f \in DOMAIN o /\ f = "authorizationRules" /\ o[f] # Undefined => IsRules(o[f]),
           NEW new, new.kind = kind, new.raw = PutResource(BuildOptions(kind, o))
    PROVE  Value(new, f) =
              IF f \in Defined(o) THEN IF f \in Forwards THEN Absolute(o[f]) ELSE o[f]
              ELSE IF f \in RequiredOf[kind] THEN Default ELSE Undefined
  <1> DEFINE built == BuildOptions(kind, o)
             put   == new.raw
  <1>1. /\ f \in DOMAIN built <=> f \in Defined(o)
        /\ f \in Defined(o) => built[f] = Written(f, o[f])
    BY DEF BuildOptions
  <1> HIDE DEF built
  <1>2. /\ f \in DOMAIN put <=> f \in DOMAIN built
        /\ f \in DOMAIN built =>
              put[f] = IF f \in Forwards THEN Absolute(built[f]) ELSE built[f]
    BY DEF PutResource, built
  <1> HIDE DEF put
  <1>3. f \notin {"filter", "action"}
    BY OptionFields
  <1>4. CASE f \notin Defined(o)
    BY <1>1, <1>2, <1>4 DEF Value, put
  <1>5. CASE f \in Defined(o)
    <2>1. /\ f \in DOMAIN o /\ o[f] # Undefined /\ f \in DOMAIN put
          /\ put[f] = IF f \in Forwards THEN Absolute(Written(f, o[f])) ELSE Written(f, o[f])
      BY <1>1, <1>2, <1>5 DEF Defined
    <2>2. Value(new, f) = Read(f, put[f])
      BY <2>1 DEF Value, put
    <2>3. CASE f = "authorizationRules"
      <3>1. f \notin Forwards
        BY <2>3, ForwardFields
      <3>2. Read(f, Written(f, o[f])) = o[f]
        BY <2>1, <2>3, RulesComeBack
      <3>3. QED
        BY <2>1, <2>2, <3>1, <3>2, <1>5
    <2>4. CASE f # "authorizationRules"
      <3>1. Written(f, o[f]) = o[f] /\ Read(f, put[f]) = put[f]
        BY <2>4, <1>3 DEF Written, Read
      <3>2. QED
        BY <2>1, <2>2, <3>1, <1>5
    <2>5. QED
      BY <2>3, <2>4
  <1>6. QED
    BY <1>4, <1>5

\* An entity that is written with what was read of it and the options of a call differs
\* from what it was in those options.
LEMMA UpdateSaysSo ==
    ASSUME NEW a, a.kind \in Kind, a.kind # "rule", OptionsGood(a.options),
           NEW p, NEW e, e.kind = a.kind, DOMAIN e.raw \subseteq OptionsOf[e.kind], UrlsIn(e.raw),
           StoredIn(e.raw), NEW f \in OptionsOf[a.kind],
           NEW new, new.kind = a.kind,
           new.raw = Updated(a, Descriptions(a, ParseFeed({Shown(p, e)})))
    PROVE  Value(new, f) = Wanted(a, e, f)
  <1> DEFINE s       == Shown(p, e)
             details == Descriptions(a, ParseFeed({s}))
             got     == Build(a.kind, Named(a.kind, s.raw))
             o       == Merged(got, a.options)
  <1>1. ParseFeed({s}) = {s}
    <2> HIDE DEF s
    <2>1. ParseFeed({s}) \subseteq {s} /\ ParseFeed({s}) # {}
      BY ParseFeedIs, FS_Singleton
    <2>2. QED
      BY <2>1
  <1>2. details = {[path |-> s.path, kind |-> s.kind, fields |-> got]}
    BY <1>1 DEF Descriptions
  <1>3. (CHOOSE d \in details : TRUE).fields = got
    <2> HIDE DEF got, s, details
    <2>1. (CHOOSE d \in details : TRUE) \in details
      BY <1>2
    <2>2. QED
      BY <1>2, <2>1
  <1>4. new.raw = PutResource(BuildOptions(a.kind, o))
    BY <1>3 DEF Updated
  <1>5. IF f \in DOMAIN got
        THEN got[f] = Value(e, f) /\ (f \in DOMAIN e.raw \/ f \in RequiredOf[a.kind])
        ELSE f \notin DOMAIN e.raw /\ f \notin RequiredOf[a.kind]
    BY ReadField
  <1> HIDE DEF got, s
  <1>6. /\ f \in DOMAIN o <=> f \in DOMAIN got \/ f \in DOMAIN a.options
        /\ f \in DOMAIN o => o[f] = IF f \in DOMAIN a.options THEN a.options[f] ELSE got[f]
    BY DEF Merged
  <1>7. /\ f = "authorizationRules" => f \notin RequiredOf[a.kind]
        /\ f \notin {"filter", "action"}
        /\ f \in Forwards => f \notin RequiredOf[a.kind]
    BY OptionFields
  <1> HIDE DEF o
  <1>8. f \in DOMAIN got =>
            /\ got[f] # Undefined
            /\ f = "authorizationRules" => IsRules(got[f])
            /\ f \in Forwards => Absolute(got[f]) = got[f]
    <2> SUFFICES ASSUME f \in DOMAIN got
                 PROVE  /\ got[f] # Undefined
                        /\ f = "authorizationRules" => IsRules(got[f])
                        /\ f \in Forwards => Absolute(got[f]) = got[f]
      OBVIOUS
    <2>1. CASE f = "authorizationRules"
      <3>1. f \in DOMAIN e.raw /\ f \notin Forwards
        BY <2>1, <1>5, <1>7, ForwardFields
      <3>2. got[f] = Read(f, e.raw[f]) /\ IsStored(f, e.raw[f])
        BY <3>1, <1>5 DEF Value, StoredIn
      <3>3. IsRules(got[f])
        BY <2>1, <3>2 DEF IsStored
      <3>4. got[f] # Undefined
        BY <3>3 DEF IsRules, Undefined
      <3>5. QED
        BY <3>1, <3>3, <3>4
    <2>2. CASE f # "authorizationRules" /\ f \in DOMAIN e.raw
      <3>1. got[f] = e.raw[f]
        BY <2>2, <1>5, <1>7 DEF Value, Read
      <3>2. got[f] # Undefined
        BY <2>2, <3>1 DEF StoredIn, IsStored
      <3>3. f \in Forwards => Absolute(got[f]) = got[f]
        BY <2>2, <3>1 DEF UrlsIn, IsUrl, Absolute
      <3>4. QED
        BY <2>2, <3>2, <3>3
    <2>3. CASE f # "authorizationRules" /\ f \notin DOMAIN e.raw
      <3>1. got[f] = Default /\ f \notin Forwards
        BY <2>3, <1>5, <1>7 DEF Value
      <3>2. Default # Undefined
        BY DEF Default, Undefined
      <3>3. QED
        BY <2>3, <3>1, <3>2
    <2>4. QED
      BY <2>1, <2>2, <2>3
  <1>9. f \in DOMAIN o /\ f = "authorizationRules" /\ o[f] # Undefined => IsRules(o[f])
    BY <1>6, <1>8 DEF OptionsGood, Defined
  <1>10. Value(new, f) =
              IF f \in Defined(o) THEN IF f \in Forwards THEN Absolute(o[f]) ELSE o[f]
              ELSE IF f \in RequiredOf[a.kind] THEN Default ELSE Undefined
    BY <1>4, <1>9, WriteField
  <1>11. f \in Defined(o) <=> f \in DOMAIN o /\ o[f] # Undefined
    BY DEF Defined
  <1>12. CASE f \in DOMAIN a.options
    BY <1>12, <1>6, <1>10, <1>11 DEF Wanted
  <1>13. CASE f \notin DOMAIN a.options /\ f \in DOMAIN got
    <2>1. f \in Defined(o) /\ o[f] = got[f]
      BY <1>13, <1>6, <1>8, <1>11
    <2>2. Value(new, f) = got[f]
      BY <2>1, <1>8, <1>10, <1>13
    <2>3. QED
      BY <2>2, <1>5, <1>13 DEF Wanted
  <1>14. CASE f \notin DOMAIN a.options /\ f \notin DOMAIN got
    <2>1. f \notin Defined(o) /\ f \notin DOMAIN e.raw /\ f \notin RequiredOf[a.kind]
      BY <1>14, <1>5, <1>6, <1>11
    <2>2. Value(new, f) = Undefined /\ Value(e, f) = Undefined
      BY <2>1, <1>10 DEF Value
    <2>3. QED
      BY <2>2, <1>14 DEF Wanted
  <1>15. QED
    BY <1>12, <1>13, <1>14

LEMMA AskedGood ==
    ASSUME AtomTypes, NEW c \in Call
    PROVE  OptionsGood(ask[c].options)
  <1>1. CASE ask[c] \in Ask
    BY <1>1, InputsOK DEF OptionsGood
  <1>2. CASE ask[c] = NoAsk
    <2>1. DOMAIN ask[c].options = {}
      BY <1>2 DEF NoAsk
    <2>2. QED
      BY <2>1 DEF OptionsGood, Defined
  <1>3. QED
    BY <1>1, <1>2 DEF AtomTypes

LEMMA ExactInitInv == AtomInit => ExactInv
  <1> SUFFICES ASSUME AtomInit PROVE ExactInv
    OBVIOUS
  <1>1. \A c \in Call : step[c] = "idle" /\ body[c] = <<>> /\ answer[c] = NoAnswer
    BY DEF AtomInit
  <1>2. \A p \in DOMAIN store : StoredIn(store[p].raw)
    BY InputsOK DEF AtomInit, StoredIn
  <1>3. StoredIn(<<>>)
    BY DEF StoredIn
  <1>4. StoredInv
    BY <1>1, <1>2, <1>3 DEF StoredInv, NoAnswer
  <1>5. CopyInv
    BY <1>1 DEF CopyInv, Copied
  <1>6. QED
    BY <1>4, <1>5 DEF ExactInv

\* A call that is left alone, and its entity too.
LEMMA CopyKept ==
    ASSUME NEW d \in Call, Copied(d), ask'[d] = ask[d], step'[d] = step[d], body'[d] = body[d],
           answer'[d] = answer[d],
           step[d] \in {"read", "sending"} =>
              /\ ask[d].path \in DOMAIN store' <=> ask[d].path \in DOMAIN store
              /\ ask[d].path \in DOMAIN store => store'[ask[d].path] = store[ask[d].path]
    PROVE  Copied(d)'
  <1>1. CASE step[d] \in {"read", "sending"}
    <2>1. Found(d)' = Found(d) /\ Exists(ask[d].path)' = Exists(ask[d].path)
      BY <1>1 DEF Found, Exists
    <2>2. QED
      BY <2>1 DEF Copied
  <1>2. CASE step[d] \notin {"read", "sending"}
    BY <1>2 DEF Copied
  <1>3. QED
    BY <1>1, <1>2

LEMMA BeginExact ==
    ASSUME AtomInv, ExactInv, NEW c \in Call, NEW a \in Ask, Begin(c, a)
    PROVE  ExactInv'
  <1>1. /\ ask'[c] = a /\ step'[c] = IF ReadsFirst(a) THEN "reading" ELSE "sending"
        /\ body'[c] = PutResource(BuildOptions(a.kind, a.options)) \/ body'[c] = <<>>
        /\ \A d \in Call \ {c} : ask'[d] = ask[d] /\ step'[d] = step[d] /\ body'[d] = body[d]
        /\ UNCHANGED <<store, answer, met>>
    BY DEF Begin, GoTo, AtomInv, AtomTypes
  <1>2. StoredIn(body'[c])
    <2>1. StoredIn(<<>>)
      BY DEF StoredIn
    <2>2. StoredIn(PutResource(BuildOptions(a.kind, a.options)))
      BY InputsOK, MadeIsStored
    <2>3. QED
      BY <1>1, <2>1, <2>2
  <1>3. StoredInv'
    BY <1>1, <1>2 DEF ExactInv, StoredInv
  <1>4. Copied(c)'
    BY <1>1 DEF Copied
  <1>5. \A d \in Call \ met : d # c => Copied(d)'
    BY <1>1, CopyKept DEF ExactInv, CopyInv
  <1>6. QED
    BY <1>1, <1>3, <1>4, <1>5 DEF ExactInv, CopyInv

LEMMA EntryIsStored ==
    ASSUME AtomInv, ExactInv, NEW p \in DOMAIN store
    PROVE  StoredIn(Shown(p, store[p]).raw)
  BY ShownIsStored DEF ExactInv, StoredInv, AtomInv, StoreInv

LEMMA FoundIsStored ==
    ASSUME AtomInv, ExactInv, NEW c \in Call
    PROVE  \A e \in Found(c) : StoredIn(e.raw)
  BY EntryIsStored DEF Found, Exists

LEMMA ServeReadExact ==
    ASSUME AtomInv, ExactInv, NEW c \in Call, ServeRead(c)
    PROVE  ExactInv'
  <1>1. /\ step'[c] = "read" /\ answer'[c].entries = Found(c)
        /\ \A d \in Call \ {c} : step'[d] = step[d] /\ answer'[d] = answer[d]
        /\ UNCHANGED <<store, ask, body, met>>
    BY DEF ServeRead, GoTo, Answered, AtomInv, AtomTypes
  <1>2. StoredInv'
    BY <1>1, FoundIsStored DEF ExactInv, StoredInv
  <1>3. Copied(c)'
    <2>1. Found(c)' = Found(c)
      BY <1>1 DEF Found, Exists
    <2>2. QED
      BY <1>1, <2>1 DEF Copied
  <1>4. \A d \in Call \ met : d # c => Copied(d)'
    BY <1>1, CopyKept DEF ExactInv, CopyInv
  <1>5. QED
    BY <1>1, <1>2, <1>3, <1>4 DEF ExactInv, CopyInv

\* Every path is part of itself.
LEMMA PrefixOfItself == ASSUME NEW p PROVE IsPrefix(p, p)
  BY DEF IsPrefix

\* A request that is served writes the entity it goes to, or removes it with what is
\* below it: the calls on those are disturbed.
LEMMA ServedStore ==
    ASSUME NEW c \in Call, Serve(c), NEW d \in Call \ {c}, d \notin met', step[d] \in {"read", "sending"}
    PROVE  /\ d \notin met
           /\ ask[d].path \in DOMAIN store' <=> ask[d].path \in DOMAIN store
           /\ ask[d].path \in DOMAIN store => store'[ask[d].path] = store[ask[d].path]
  <1> DEFINE p == ask[c].path
             q == ask[d].path
  <1>1. CASE UNCHANGED <<store, met>>
    BY <1>1
  <1>2. CASE \E e : ServePut(c, ask[c], e)
    <2>1. PICK e : /\ store' = [x \in DOMAIN store \cup {p} |-> IF x = p THEN e ELSE store[x]]
                   /\ Disturbs(c, p)
      BY <1>2 DEF ServePut
    <2>2. d \notin met /\ ~IsPrefix(p, q)
      BY <2>1 DEF Disturbs
    <2>3. q # p
      BY <2>2, PrefixOfItself
    <2>4. QED
      BY <2>1, <2>2, <2>3
  <1>3. CASE store' = [x \in DOMAIN store \ Below(p) |-> store[x]] /\ Disturbs(c, p)
    <2>1. d \notin met /\ ~IsPrefix(p, q)
      BY <1>3 DEF Disturbs
    <2>2. q \notin Below(p)
      BY <2>1 DEF Below
    <2>3. QED
      BY <1>3, <2>1, <2>2
  <1>4. QED
    BY <1>1, <1>2, <1>3 DEF Serve

\* What a request leaves behind and is answered.
LEMMA ServedValues ==
    ASSUME AtomInv, ExactInv, NEW c \in Call, Serve(c)
    PROVE  /\ \A p \in DOMAIN store' : StoredIn(store'[p].raw)
           /\ \A e \in answer'[c].entries : StoredIn(e.raw)
  <1> DEFINE p == ask[c].path
  <1>1. \A q \in DOMAIN store : StoredIn(store[q].raw) /\ StoredIn(Shown(q, store[q]).raw)
    BY EntryIsStored DEF ExactInv, StoredInv
  <1>2. CASE UNCHANGED store /\ Answered(c, 200, Found(c))
    <2>1. answer'[c].entries = Found(c)
      BY <1>2 DEF Answered, AtomInv, AtomTypes
    <2>2. QED
      BY <2>1, <1>1, <1>2, FoundIsStored
  <1>3. CASE \E kind : UNCHANGED store /\ Answered(c, 200, {Shown(q, store[q]) : q \in Children(kind, p)})
    <2>1. PICK kind : Answered(c, 200, {Shown(q, store[q]) : q \in Children(kind, p)})
      BY <1>3
    <2>2. answer'[c].entries = {Shown(q, store[q]) : q \in Children(kind, p)}
      BY <2>1 DEF Answered, AtomInv, AtomTypes
    <2>3. Children(kind, p) \subseteq DOMAIN store
      BY DEF Children, Below
    <2>4. \A e \in answer'[c].entries : StoredIn(e.raw)
      BY <2>2, <2>3, <1>1
    <2>5. QED
      BY <2>4, <1>1, <1>3
  <1>4. CASE ServePut(c, ask[c], [kind |-> ask[c].kind, raw |-> body[c]])
    <2> DEFINE e == [kind |-> ask[c].kind, raw |-> body[c]]
    <2>1. /\ store' = [q \in DOMAIN store \cup {p} |-> IF q = p THEN e ELSE store[q]]
          /\ Answered(c, 200, {Shown(p, e)})
      BY <1>4 DEF ServePut
    <2>2. StoredIn(e.raw) /\ e.kind \in Kind
      BY AskedIs DEF ExactInv, StoredInv, AtomInv
    <2> HIDE DEF e
    <2>3. StoredIn(Shown(p, e).raw)
      BY <2>2, ShownIsStored
    <2>4. answer'[c].entries = {Shown(p, e)}
      BY <2>1 DEF Answered, AtomInv, AtomTypes
    <2>5. \A q \in DOMAIN store' : store'[q] = e \/ (q \in DOMAIN store /\ store'[q] = store[q])
      BY <2>1
    <2>6. QED
      BY <2>2, <2>3, <2>4, <2>5, <1>1
  <1>5. CASE store' = [q \in DOMAIN store \ Below(p) |-> store[q]] /\ Answered(c, 200, {})
    <2>1. answer'[c].entries = {}
      BY <1>5 DEF Answered, AtomInv, AtomTypes
    <2>2. QED
      BY <2>1, <1>1, <1>5
  <1>6. CASE UNCHANGED store /\ \E status : Answered(c, status, {})
    <2>1. answer'[c].entries = {}
      BY <1>6 DEF Answered, AtomInv, AtomTypes
    <2>2. QED
      BY <2>1, <1>1, <1>6
  <1>7. QED
    BY <1>2, <1>3, <1>4, <1>5, <1>6 DEF Serve

LEMMA ServeExact ==
    ASSUME AtomInv, ExactInv, NEW c \in Call, Serve(c)
    PROVE  ExactInv'
  <1>1. /\ step'[c] = "answered"
        /\ \A d \in Call \ {c} : step'[d] = step[d] /\ answer'[d] = answer[d]
        /\ UNCHANGED <<ask, body>>
    BY DEF Serve, ServePut, GoTo, Answered, AtomInv, AtomTypes
  <1>2. StoredInv'
    BY <1>1, ServedValues DEF ExactInv, StoredInv
  <1>3. Copied(c)'
    BY <1>1 DEF Copied
  <1>4. met \subseteq met'
    BY DEF Serve, ServePut, Disturbs
  <1>5. ASSUME NEW d \in Call \ met', d # c PROVE Copied(d)'
    <2>1. Copied(d)
      BY <1>4, <1>5 DEF ExactInv, CopyInv
    <2>2. step[d] \in {"read", "sending"} =>
              /\ ask[d].path \in DOMAIN store' <=> ask[d].path \in DOMAIN store
              /\ ask[d].path \in DOMAIN store => store'[ask[d].path] = store[ask[d].path]
      BY <1>5, ServedStore
    <2>3. QED
      BY <2>1, <2>2, <1>1, <1>5, CopyKept
  <1>6. QED
    BY <1>2, <1>3, <1>5 DEF ExactInv, CopyInv

LEMMA RefuseExact ==
    ASSUME AtomInv, ExactInv, NEW c \in Call, Refuse(c)
    PROVE  ExactInv'
  <1>1. PICK n \in Nat, b \in BOOLEAN :
            /\ answer' = [answer EXCEPT ![c] =
                   [status |-> n, subcode |-> b, entries |-> {}]]
            /\ n # 200
    BY RefusalsAre
  <1>2. /\ answer'[c].status # 200 /\ answer'[c].entries = {}
        /\ step'[c] \in {"read", "answered"}
        /\ \A d \in Call \ {c} : step'[d] = step[d] /\ answer'[d] = answer[d]
        /\ UNCHANGED <<store, ask, body, met>>
    BY <1>1 DEF Refuse, GoTo, AtomInv, AtomTypes
  <1>3. StoredInv'
    BY <1>2 DEF ExactInv, StoredInv
  <1>4. Copied(c)'
    BY <1>2 DEF Copied
  <1>5. \A d \in Call \ met : d # c => Copied(d)'
    BY <1>2, CopyKept DEF ExactInv, CopyInv
  <1>6. QED
    BY <1>2, <1>3, <1>4, <1>5 DEF ExactInv, CopyInv

LEMMA EndExact ==
    ASSUME AtomInv, ExactInv, NEW c \in Call, NEW r, End(c, r), UNCHANGED <<store, ask, answer, met>>
    PROVE  ExactInv'
  <1>1. /\ step'[c] = "over" /\ UNCHANGED body
        /\ \A d \in Call \ {c} : step'[d] = step[d]
    BY DEF End, GoTo, AtomInv, AtomTypes
  <1>2. StoredInv'
    BY <1>1 DEF ExactInv, StoredInv
  <1>3. Copied(c)'
    BY <1>1 DEF Copied
  <1>4. \A d \in Call \ met : d # c => Copied(d)'
    BY <1>1, CopyKept DEF ExactInv, CopyInv
  <1>5. QED
    BY <1>2, <1>3, <1>4 DEF ExactInv, CopyInv

LEMMA HasReadExact ==
    ASSUME AtomInv, ExactInv, NEW c \in Call, HasRead(c)
    PROVE  ExactInv'
  <1> DEFINE r == Outcome(ask[c], answer[c], TRUE)
             entries == answer[c].entries
  <1>1. step[c] = "read" /\ UNCHANGED <<store, ask, answer, met>>
    BY DEF HasRead
  <1>2. CASE r.code # "ok"
    <2>1. End(c, r)
      BY <1>2 DEF HasRead
    <2> HIDE DEF r
    <2>2. QED
      BY <2>1, <1>1, EndExact
  <1>3. CASE r.code = "ok"
    <2>1. /\ answer[c].status = 200 /\ entries # {}
          /\ r.details = Descriptions(ask[c], ParseFeed(entries))
      BY <1>1, <1>3, OutcomeHonest
    <2>2. /\ body'[c] = Updated(ask[c], r.details) /\ step'[c] = "sending"
          /\ \A d \in Call \ {c} : body'[d] = body[d] /\ step'[d] = step[d]
      BY <1>3 DEF HasRead, GoTo, AtomInv, AtomTypes
    <2> HIDE DEF r
    <2>3. StoredIn(body'[c])
      <3>1. ask[c].kind \in Kind /\ OptionsGood(ask[c].options)
        BY AskedIs, AskedGood DEF AtomInv
      <3>2. Visibles(entries) /\ \A e \in entries : StoredIn(e.raw)
        BY DEF AtomInv, AnswerInv, Visibles, ExactInv, StoredInv
      <3>3. QED
        BY <2>1, <2>2, <3>1, <3>2, UpdateIsStored
    <2>4. StoredInv'
      BY <2>2, <2>3, <1>1 DEF ExactInv, StoredInv
    <2>5. c \notin met => Copied(c)'
      <3> SUFFICES ASSUME c \notin met, ReadsFirst(ask[c]) PROVE Copied(c)'
        BY <1>1 DEF Copied
      <3>1. entries = Found(c)
        BY <1>1, <2>1 DEF ExactInv, CopyInv, Copied
      <3>2. Exists(ask[c].path)
        BY <2>1, <3>1 DEF Found
      <3>3. Found(c)' = Found(c) /\ Exists(ask[c].path)' = Exists(ask[c].path)
        BY <1>1 DEF Found, Exists
      <3>4. body'[c] = Updated(ask'[c], Descriptions(ask'[c], ParseFeed(Found(c)')))
        BY <1>1, <2>1, <2>2, <3>1, <3>3
      <3>5. QED
        BY <2>2, <3>2, <3>3, <3>4 DEF Copied
    <2>6. \A d \in Call \ met : d # c => Copied(d)'
      BY <1>1, <2>2, CopyKept DEF ExactInv, CopyInv
    <2>7. QED
      BY <1>1, <2>4, <2>5, <2>6 DEF ExactInv, CopyInv
  <1>4. QED
    BY <1>2, <1>3

LEMMA ExactStep ==
    ASSUME AtomInv, ExactInv, [AtomNext]_atomVars
    PROVE  ExactInv'
  <1>1. ASSUME NEW c \in Call, NEW a \in Ask, Begin(c, a) PROVE ExactInv'
    BY <1>1, BeginExact
  <1>2. ASSUME NEW c \in Call, ServeRead(c) PROVE ExactInv'
    BY <1>2, ServeReadExact
  <1>3. ASSUME NEW c \in Call, Serve(c) PROVE ExactInv'
    BY <1>3, ServeExact
  <1>4. ASSUME NEW c \in Call, Refuse(c) PROVE ExactInv'
    BY <1>4, RefuseExact
  <1>5. ASSUME NEW c \in Call, HasRead(c) PROVE ExactInv'
    BY <1>5, HasReadExact
  <1>6. ASSUME NEW c \in Call, Ends(c) \/ Lost(c) PROVE ExactInv'
    <2>1. PICK r : End(c, r) /\ UNCHANGED <<store, ask, answer, met>>
      BY <1>6 DEF Ends, Lost
    <2>2. QED
      BY <2>1, EndExact
  <1>7. CASE UNCHANGED atomVars
    <2>1. StoredInv'
      BY <1>7 DEF atomVars, ExactInv, StoredInv
    <2>2. \A d \in Call \ met : Copied(d)'
      BY <1>7, CopyKept DEF atomVars, ExactInv, CopyInv
    <2>3. QED
      BY <2>1, <2>2, <1>7 DEF ExactInv, CopyInv, atomVars
  <1>8. QED
    BY <1>1, <1>2, <1>3, <1>4, <1>5, <1>6, <1>7 DEF AtomNext

\* The step of an update that is accepted is that of a request served.
LEMMA UpdateServed ==
    ASSUME AtomInv, NEW c \in Call, [AtomNext]_atomVars, Updates(c, Kind \ {"rule"})
    PROVE  LET a == ask[c] IN
           /\ a.path \in DOMAIN store /\ store[a.path].kind = a.kind
           /\ store'[a.path] = [kind |-> a.kind, raw |-> body[c]]
  <1> DEFINE a == ask[c]
  <1>1. step[c] = "sending" /\ step'[c] = "answered" /\ answer'[c].status = 200 /\ a.op = "update"
    BY DEF Updates
  <1>2. ~(UNCHANGED atomVars)
    BY <1>1 DEF atomVars
  <1>3. ASSUME NEW d \in Call, step'[d] # step[d], \A x \in Call \ {d} : step'[x] = step[x]
        PROVE  d = c
    BY <1>1, <1>3
  <1>4. ASSUME NEW d \in Call, GoTo(d, "reading") \/ GoTo(d, "sending") \/ GoTo(d, "read")
                               \/ GoTo(d, "over")
        PROVE  FALSE
    BY <1>1, <1>4 DEF GoTo, AtomInv, AtomTypes
  <1>5. ASSUME NEW d \in Call, GoTo(d, "answered") PROVE d = c
    BY <1>1, <1>5 DEF GoTo, AtomInv, AtomTypes
  <1>6. ASSUME NEW d \in Call, Refuse(d) PROVE FALSE
    <2>1. d = c
      BY <1>4, <1>5, <1>6 DEF Refuse
    <2>2. answer'[c].status # 200
      <3>1. PICK n \in Nat, b \in BOOLEAN :
                /\ answer' = [answer EXCEPT ![c] =
                       [status |-> n, subcode |-> b, entries |-> {}]]
                /\ n # 200
        BY <1>6, <2>1, RefusalsAre
      <3>2. QED
        BY <3>1 DEF AtomInv, AtomTypes
    <2>3. QED
      BY <1>1, <2>2
  <1>7. \E d \in Call : Serve(d)
    <2>1. \A d \in Call : ~ServeRead(d) /\ ~Ends(d) /\ ~Lost(d) /\ ~HasRead(d)
      BY <1>4 DEF ServeRead, Ends, Lost, End, HasRead
    <2>2. \A d \in Call, x \in Ask : ~Begin(d, x)
      BY <1>4 DEF Begin
    <2>3. QED
      BY <1>2, <1>6, <2>1, <2>2 DEF AtomNext
  <1>8. Serve(c)
    <2>1. PICK d \in Call : Serve(d)
      BY <1>7
    <2>2. GoTo(d, "answered")
      BY <2>1 DEF Serve
    <2>3. QED
      BY <2>1, <2>2, <1>5
  <1>9. /\ a.path \in DOMAIN store /\ store[a.path].kind = a.kind
        /\ ServePut(c, a, [kind |-> a.kind, raw |-> body[c]])
    BY <1>1, <1>8 DEF Serve, Answered, Exists, AtomInv, AtomTypes
  <1>10. QED
    BY <1>9 DEF ServePut

(* An update that meets no other writer leaves every field it is not given as the     *)
(* client saw it, and gives the others what it is asked to, for any entity and any      *)
(* options: what is read, built, merged and written again comes back the same           *)
(* (serializers/*, updateQueue, updateTopic, updateSubscription).                       *)
THEOREM UpdatesAreExact == AtomSpec => UpdateIsExact
  <1>1. AtomInv /\ ExactInv /\ [AtomNext]_atomVars
            => [\A c \in Call : Updates(c, Kind \ {"rule"}) => Exact(c)]_atomVars
    <2> SUFFICES ASSUME AtomInv, ExactInv, [AtomNext]_atomVars,
                        NEW c \in Call, Updates(c, Kind \ {"rule"})
                 PROVE  Exact(c)
      OBVIOUS
    <2> DEFINE a == ask[c]
               e == store[a.path]
               new == store'[a.path]
    <2>1. a.path \in DOMAIN store /\ e.kind = a.kind /\ new = [kind |-> a.kind, raw |-> body[c]]
      BY UpdateServed
    <2>2. a.kind \in Kind /\ a.kind # "rule" /\ OptionsGood(a.options)
      BY AskedGood DEF AtomInv, Updates
    <2>3. DOMAIN e.raw \subseteq OptionsOf[e.kind] /\ UrlsIn(e.raw) /\ StoredIn(e.raw)
      BY <2>1 DEF AtomInv, StoreInv, ExactInv, StoredInv
    <2>4. body[c] = Updated(a, Descriptions(a, ParseFeed(Found(c))))
      BY <2>2 DEF Updates, ExactInv, CopyInv, Copied, ReadsFirst
    <2>5. Found(c) = {Shown(a.path, e)}
      BY <2>1 DEF Found, Exists
    <2>6. new.kind = a.kind /\ new.raw = Updated(a, Descriptions(a, ParseFeed({Shown(a.path, e)})))
      BY <2>1, <2>4, <2>5
    <2> HIDE DEF a, e, new
    <2>7. ASSUME NEW f \in OptionsOf[a.kind] PROVE Value(new, f) = Wanted(a, e, f)
      BY <2>1, <2>2, <2>3, <2>6, UpdateSaysSo
    <2>8. QED
      BY <2>7 DEF Exact, a, e, new
  <1>2. AtomInv /\ ExactInv /\ [AtomNext]_atomVars => ExactInv'
    BY ExactStep
  <1>3. QED
    BY AtomInvariant, ExactInitInv, <1>1, <1>2, PTL DEF AtomSpec, UpdateIsExact
=============================================================================
