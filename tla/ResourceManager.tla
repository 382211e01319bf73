---------------------------- MODULE ResourceManager ----------------------------
(***************************************************************************)
(* The life of the connections (resource-manager/*, client/*, discovery/*    *)
(* and the module's hooks, over the clients of atom-client/src): a group has  *)
(* a server, a client or both; its channels make one client of the library   *)
(* for each entity a route receives from or an emitter sends to; destroying   *)
(* the module closes the groups one after the other, while routes and         *)
(* emitters may still be registering and connections may be down.             *)
(***************************************************************************)
EXTENDS Naturals, Sequences, FiniteSets, SequencesExt

CONSTANTS
    ClientOptions,  \* the groups of the module's clients, in order
    ServerOptions,  \* the groups of its servers, in order
    Credentials,    \* the client options with credentials of their own
    Route,          \* subscribers: records [group, kind, entity, side], side "rx"
    Emitter,        \* emitters: the same, side "tx"
    MaxLosses       \* bound: connections lost, closes that fail

GroupOf(options) == {options[i] : i \in DOMAIN options}
Group == GroupOf(ClientOptions) \cup GroupOf(ServerOptions)

\* A ServiceBusClient, with its connection: the server's or the client's own.
Connection == Group \X {"server", "client"}
NoClient   == <<"no client">>

\* Client options without credentials take the connection of the server of their
\* group: without one, createClientConnector throws and there is no module.  Routes
\* receive from queues and subscriptions, emitters send to queues and topics.
ASSUME OptionsOK ==
    /\ ClientOptions \in Seq(GroupOf(ClientOptions))
    /\ ServerOptions \in Seq(GroupOf(ServerOptions))
    /\ Credentials \subseteq GroupOf(ClientOptions)
    /\ GroupOf(ClientOptions) \subseteq Credentials \cup GroupOf(ServerOptions)
    /\ \A r \in Route : r.side = "rx" /\ r.group \in GroupOf(ServerOptions)
                         /\ r.kind \in {"queue", "subscription"}
    /\ \A e \in Emitter : e.side = "tx" /\ e.group \in GroupOf(ClientOptions)
                           /\ e.kind \in {"queue", "topic"}

VARIABLES
    phase,      \* of the module: "new", "constructed", "destroying", "destroyed"
    known,      \* the groups in the resource manager
    rx, tx,     \* rx[g], tx[g]: the clients the channels receive and send with
    containers, \* containers[g]: those in the store, by kind and entity
    clients,    \* the queue, topic and subscription clients, in order of creation
    links,      \* links[i]: of client i's receiver and sender: "none", "opening", "up", "down"
    pending,    \* the routes and emitters still to be registered
    open,       \* the connections that are open
    lost,       \* those lost, whose links are about to be opened again
    flagged,    \* wasConnectionCloseCalled
    job,        \* what the destruction has still to do
    ended,      \* the connections whose ServiceBusClient.close returned
    clean,      \* those that were open then, with no link on its way
    calm,       \* since the destruction began, or before, nothing opened or failed
    losses

groupVars == <<phase, known, rx, tx>>
amqpVars  == <<links, open, lost, flagged>>
historyVars == <<ended, clean, calm>>
vars == <<groupVars, containers, clients, pending, amqpVars, job, historyVars, losses>>

Init ==
    /\ phase = "new" /\ known = {}
    /\ rx = [g \in Group |-> NoClient] /\ tx = [g \in Group |-> NoClient]
    /\ containers = [g \in Group |-> {}]
    /\ clients = <<>> /\ links = <<>>
    /\ pending = {}
    /\ open = {} /\ lost = {} /\ flagged = {}
    /\ job = <<>> /\ losses = 0
    /\ ended = {} /\ clean = {} /\ calm = TRUE

-----------------------------------------------------------------------------
\* What the client and the server of a group connect with.
ServerConnector(g) == IF g \in GroupOf(ServerOptions) THEN <<g, "server">> ELSE NoClient
ClientConnector(g) ==
    IF g \in Credentials THEN <<g, "client">> ELSE ServerConnector(g)

\* channels.resourceUpdate, when the group has its server and its client.
RxClient(g) ==
    IF g \in GroupOf(ServerOptions) THEN ServerConnector(g) ELSE ClientConnector(g)
TxClient(g) ==
    IF g \in GroupOf(ClientOptions) THEN ClientConnector(g) ELSE ServerConnector(g)

\* The groups that the servers and the clients make, each once.
Servers == GroupOf(ServerOptions)
Clients == GroupOf(ClientOptions)

\* The constructor of the module: the servers are created and registered, then the
\* clients are created.
Construct ==
    /\ phase = "new" /\ phase' = "constructed"
    /\ known' = Servers \cup Clients
    /\ rx' = [g \in Group |-> RxClient(g)] /\ tx' = [g \in Group |-> TxClient(g)]
    /\ pending' = Route \cup Emitter
    /\ UNCHANGED <<containers, clients, amqpVars, job, historyVars, losses>>

-----------------------------------------------------------------------------
\* A client of the library; sides: its Receiver and its Sender, once they are made.
NewClient(conn, kind, entity, side) ==
    [conn |-> conn, kind |-> kind, entity |-> entity, sides |-> {side},
     listed |-> TRUE, closed |-> FALSE]
NoLinks == [rx |-> "none", tx |-> "none"]

\* findQueue, findTopic: which client receives from an entity, and which one sends.
Boxes(g, kind, entity) == {c \in containers[g] : c.kind = kind /\ c.entity = entity}
Container(g, kind, entity) ==
    IF Boxes(g, kind, entity) = {} THEN [kind |-> kind, entity |-> entity, rx |-> 0, tx |-> 0]
    ELSE CHOOSE c \in Boxes(g, kind, entity) : TRUE

\* Mutant of WithClient: it is never shared.
WithOwnClient(g, box, side, i) == [box EXCEPT ![side] = i]

\* A queue's client serves both ways when one connection does.
WithClient(g, box, side, i) ==
    IF box.kind = "queue" /\ rx[g] = tx[g] THEN [box EXCEPT !.rx = i, !.tx = i]
    ELSE [box EXCEPT ![side] = i]

\* The container is kept even when no client can be made on a closed connection.
Kept(g, box) == containers' = [containers EXCEPT ![g] = (@ \ Boxes(g, box.kind, box.entity)) \cup {box}]

\* createSender, createReceiver: an error on a client or a connection that is closed.
WithSide(i, side) ==
    IF clients[i].conn \in flagged \/ clients[i].closed THEN clients
    ELSE [clients EXCEPT ![i].sides = @ \cup {side}]

\* getCreateQueryReceiver, getCreateSubscription, getCreateQuerySender, getCreateTopic.
GetCreate(g, kind, entity, side) ==
    LET conn == IF side = "rx" THEN rx[g] ELSE tx[g]
        box  == Container(g, kind, entity)
        i    == box[side]
    IN IF i # 0
       THEN /\ clients' = WithSide(i, side)
            /\ UNCHANGED <<containers, links>>
       ELSE IF conn \in flagged
       THEN /\ Kept(g, box)
            /\ UNCHANGED <<clients, links>>
       ELSE /\ clients' = Append(clients, NewClient(conn, kind, entity, side))
            /\ links' = Append(links, NoLinks)
            /\ Kept(g, WithClient(g, box, side, Len(clients) + 1))

\* An emitter gets its sender once its entity is verified: the channels are the
\* ones of the client it began with, whatever was destroyed meanwhile.
RegisterEmitter(e) ==
    /\ phase # "new" /\ e \in pending
    /\ pending' = pending \ {e}
    /\ GetCreate(e.group, e.kind, e.entity, e.side)
    /\ UNCHANGED <<groupVars, open, lost, flagged, job, historyVars, losses>>

\* A route gets its receiver, and registers its handler: see LinkBegins.
RegisterRoute(r) ==
    /\ phase # "new" /\ r \in pending
    /\ pending' = pending \ {r}
    /\ GetCreate(r.group, r.kind, r.entity, r.side)
    /\ UNCHANGED <<groupVars, open, lost, flagged, job, historyVars, losses>>

-----------------------------------------------------------------------------
\* A handler is registered, or a message is sent: a link that is lost and that nobody
\* reopens is opened by the next message.
MayBegin(i) == ~clients[i].closed /\ clients[i].conn \notin flagged
LinkBegins(i, side) ==
    /\ side \in clients[i].sides /\ MayBegin(i)
    /\ links[i][side] = "none" \/ (side = "tx" /\ links[i][side] = "down")
    /\ links' = [links EXCEPT ![i][side] = "opening"]
    /\ calm' = (calm /\ phase = "constructed")
    /\ UNCHANGED <<groupVars, containers, clients, pending, open, lost, flagged, job, ended,
                   clean, losses>>

\* The link is there.  It opened its connection, which is not closed any more; a
\* receiver that was closed meanwhile closes its link, a sender does not look.
LinkOpens(i, side) ==
    /\ links[i][side] = "opening"
    /\ links' = [links EXCEPT ![i][side] =
           IF clients[i].closed /\ side = "rx" THEN "none" ELSE "up"]
    /\ open' = open \cup {clients[i].conn}
    /\ flagged' = IF clients[i].conn \in open THEN flagged ELSE flagged \ {clients[i].conn}
    /\ UNCHANGED <<groupVars, containers, clients, pending, lost, job, historyVars, losses>>

On(conn) == {i \in DOMAIN clients : clients[i].conn = conn}
ListedOn(conn) == {i \in On(conn) : clients[i].listed}
Dropped(f) == [s \in {"rx", "tx"} |-> IF f[s] = "up" THEN "down" ELSE f[s]]
\* Reopened, a moment later, for each client the connection still knows.
Reopening(conn) == [i \in DOMAIN links |->
    IF i \in ListedOn(conn)
    THEN [s \in {"rx", "tx"} |-> IF links[i][s] = "down" THEN "opening" ELSE links[i][s]]
    ELSE links[i]]

Disconnected(conn) ==
    /\ conn \in open /\ losses < MaxLosses /\ losses' = losses + 1
    /\ open' = open \ {conn}
    /\ lost' = IF ListedOn(conn) # {} /\ conn \notin flagged THEN lost \cup {conn} ELSE lost
    /\ links' = [i \in DOMAIN links |-> IF i \in On(conn) THEN Dropped(links[i]) ELSE links[i]]
    /\ calm' = FALSE
    /\ UNCHANGED <<groupVars, containers, clients, pending, flagged, job, ended, clean>>

Reconnect(conn) ==
    /\ conn \in lost /\ lost' = lost \ {conn}
    /\ links' = Reopening(conn)
    /\ UNCHANGED <<groupVars, containers, clients, pending, open, flagged, job, historyVars, losses>>

-----------------------------------------------------------------------------
\* What is left to do is a sequence of steps <<what, of what>>.
Step(what, arg) == <<what, arg>>
Steps(what, args) == [k \in 1..Len(args) |-> Step(what, args[k])]

\* SbDiscoveryService.destroy: the groups of the clients, then those of the servers.
Destroy ==
    /\ phase = "constructed" /\ phase' = "destroying"
    /\ job' = Steps("group", ClientOptions \o ServerOptions) \o <<Step("end", 0)>>
    /\ calm' = (calm /\ \A i \in DOMAIN links : "opening" \notin {links[i].rx, links[i].tx})
    /\ UNCHANGED <<known, rx, tx, containers, clients, pending, amqpVars, ended, clean, losses>>

Doing(what) == job # <<>> /\ Head(job)[1] = what
Arg == Head(job)[2]

\* Queues first; a topic closes its subscriptions, its own client was not kept.
ClosedBy(box) ==
    IF box.kind = "topic" THEN {} ELSE {box.rx, box.tx} \ {0}
ToClose(g) == SetToSeq(UNION {ClosedBy(c) : c \in containers[g]})
\* Mutant of Connections: only the connection that receives is closed.
RxConnections(g) == <<rx[g]>>

Connections(g) == IF rx[g] = tx[g] THEN <<rx[g]>> ELSE <<rx[g], tx[g]>>

\* SbResourceManager.destroy: the group leaves the manager first, once.
DestroyGroup ==
    /\ Doing("group")
    /\ IF Arg \in known
       THEN /\ known' = known \ {Arg}
            /\ containers' = [containers EXCEPT ![Arg] = {}]
            /\ job' = Steps("client", ToClose(Arg)) \o Steps("connection", Connections(Arg))
                        \o Tail(job)
       ELSE /\ job' = Tail(job)
            /\ UNCHANGED <<known, containers>>
    /\ UNCHANGED <<phase, rx, tx, clients, pending, amqpVars, historyVars, losses>>

\* ClientEntityContext.close: nothing, when the connection is not open.
Close(i) ==
    IF clients[i].conn \in open
    THEN /\ clients' = [clients EXCEPT ![i].closed = TRUE, ![i].listed = FALSE]
         /\ links' = [links EXCEPT ![i] =
                [s \in {"rx", "tx"} |-> IF @[s] = "opening" THEN "opening" ELSE "none"]]
    ELSE UNCHANGED <<clients, links>>

CloseClient ==
    /\ Doing("client")
    /\ Close(Arg)
    /\ job' = Tail(job)
    /\ UNCHANGED <<groupVars, containers, pending, open, lost, flagged, historyVars, losses>>

\* ServiceBusClient.close: nothing, when the connection is not open; otherwise every
\* client it knows, then the connection.
BeginClose ==
    /\ Doing("connection")
    /\ job' = IF Arg \in open
              THEN Steps("client", SetToSeq(ListedOn(Arg))) \o <<Step("shut", Arg)>> \o Tail(job)
              ELSE Tail(job)
    /\ ended' = IF Arg \in open THEN ended ELSE ended \cup {Arg}
    /\ UNCHANGED <<groupVars, containers, clients, pending, amqpVars, clean, calm, losses>>

\* Mutant of Marked: the close is not remembered.
MarkedNever(conn) == flagged

Marked(conn) == flagged \cup {conn}

Shut ==
    /\ Doing("shut")
    /\ open' = open \ {Arg}
    /\ flagged' = Marked(Arg)
    /\ links' = [i \in DOMAIN links |-> IF i \in On(Arg) THEN Dropped(links[i]) ELSE links[i]]
    /\ clean' = IF /\ Arg \in open \ lost
                   /\ \A i \in On(Arg) : \A s \in {"rx", "tx"} : links[i][s] # "opening"
                THEN clean \cup {Arg} ELSE clean
    /\ ended' = ended \cup {Arg}
    /\ job' = Tail(job)
    /\ UNCHANGED <<groupVars, containers, clients, pending, lost, calm, losses>>

\* A close that fails ends the destruction: what is left is not closed.
CloseFails ==
    /\ Doing("client") \/ Doing("shut")
    /\ losses < MaxLosses /\ losses' = losses + 1
    /\ phase' = "destroyed" /\ job' = <<>> /\ calm' = FALSE
    /\ UNCHANGED <<known, rx, tx, containers, clients, pending, amqpVars, ended, clean>>

Destroyed ==
    /\ Doing("end")
    /\ phase' = "destroyed" /\ job' = <<>>
    /\ UNCHANGED <<known, rx, tx, containers, clients, pending, amqpVars, historyVars, losses>>

-----------------------------------------------------------------------------
Next ==
    \/ Construct
    \/ \E e \in Emitter : RegisterEmitter(e)
    \/ \E r \in Route : RegisterRoute(r)
    \/ \E i \in DOMAIN clients, s \in {"rx", "tx"} : LinkBegins(i, s) \/ LinkOpens(i, s)
    \/ \E c \in Connection : Disconnected(c) \/ Reconnect(c)
    \/ Destroy \/ DestroyGroup \/ CloseClient \/ BeginClose \/ Shut \/ CloseFails \/ Destroyed

Spec == Init /\ [][Next]_vars

-----------------------------------------------------------------------------
(* Until its group is destroyed, an entity has one client on a connection, whoever *)
(* comes first, the route that receives or the emitter that sends.                 *)
OneClientPerEntity ==
    \A g \in known : \A i, j \in DOMAIN clients :
        /\ clients[i].conn = clients[j].conn /\ clients[i].conn[1] = g
        /\ clients[i].kind = clients[j].kind /\ clients[i].entity = clients[j].entity
        => i = j

(* A module destroyed while nothing opens, is lost or fails leaves no connection   *)
(* open: both clients of a group are closed, and no group is forgotten.            *)
CalmDestroyCloses == phase = "destroyed" /\ calm => open = {}

(* A connection that was open when it was closed, with no link on its way, is never *)
(* opened again, by a route or an emitter that is still registering or by the      *)
(* handler of the disconnect.                                                       *)
CleanCloseIsFinal == clean \cap open = {}

(* What ServiceBusClient.close says (serviceBusClient.ts:123-132): once closed, its *)
(* clients cannot send or receive any more.                                         *)
ClosedIsSilent ==
    \A i \in DOMAIN clients : clients[i].conn \in ended => "up" \notin {links[i].rx, links[i].tx}
=============================================================================
