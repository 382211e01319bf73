------------------------------ MODULE Bootstrap ------------------------------
(***************************************************************************)
(* The boot of an application on the bus: SbDiscoveryService.discover, the *)
(* registration of routes and emitters, and the commit of the routes of    *)
(* each server, one after the other (registerHandlers: 'sequence') or all  *)
(* at once (the default).  Composed with Configurator: verifying a route   *)
(* or an emitter is a root call of it, and its steps interleave with the   *)
(* boot's.                                                                 *)
(***************************************************************************)
EXTENDS Configurator, Sequences

CONSTANTS
    QueueRoute,     \* subscribers of queues (@Queue)
    TopicRoute,     \* subscribers of topic subscriptions (@Subscription)
    Emitter,        \* @QueueEmitter / @TopicEmitter properties
    Servers,        \* serverOptions, in order
    InSequence,     \* the servers with registerHandlers: 'sequence'
    ServerOf,       \* the server of a route (serverId)
    Clients,        \* the clients that were created
    ClientOf,       \* the client of an emitter (clientId)
    EntityOf,       \* the entity a route receives from
    NodeOf,         \* the root call that verifies it, or NoNode
    MayReject,      \* those whose metadata factory may reject
    NoNode          \* no provision, or no management client

Route  == QueueRoute \cup TopicRoute
Server == {Servers[i] : i \in 1..Len(Servers)}

ASSUME BootConstantsOK ==
    /\ QueueRoute \cap TopicRoute = {}
    /\ Servers \in Seq(Server)
    /\ NodeOf \in [Route \cup Emitter -> Root \cup {NoNode}]
    /\ NoNode \notin Node
    /\ EntityOf \in [Route -> Entity]
    \* verify() and createReceiver() of a handler go by the same options.
    /\ \A r \in Route : NodeOf[r] # NoNode => EntOf[NodeOf[r]] = EntityOf[r]
    /\ InSequence \subseteq Server
    /\ MayReject \subseteq Route \cup Emitter

VARIABLES
    phase,       \* discover(): "build", "commit", "ready" or "aborted"
    appended,    \* appended[s]: the routesToCommit of server s, by type
    todo,        \* the routes of the server being committed, not yet executed
    at,          \* how many servers have begun to commit
    rstate,      \* rstate[r]: where the route is
    emitters,    \* the emitters whose registration is over
    events       \* errors handed to the error handler: <<phase, route>>

bootVars == <<phase, appended, todo, at, rstate, emitters, events>>
allVars  == <<vars, bootVars>>

RouteState == {"scanned", "invalid", "appended", "verifying", "connecting", "listening", "refused"}
InFlight   == {"verifying", "connecting"}

-----------------------------------------------------------------------------
BootInit ==
    /\ Init
    /\ phase = "build"
    /\ appended = [s \in Server |-> [queue |-> <<>>, subscription |-> <<>>]]
    /\ todo = <<>>
    /\ at = 0
    /\ rstate = [r \in Route |-> "scanned"]
    /\ emitters = {}
    /\ events = {}

\* subscriptionHasDependency: the route provisions its topic.
HasDependency(r) ==
    /\ NodeOf[r] # NoNode
    /\ TypeOf[NodeOf[r]] # "skip"
    /\ \E t \in Child[NodeOf[r]]["topic"] : TypeOf[t] # "skip"

\* appendRoute: a subscription that provisions its topic goes to the front.
Appended(list, r) ==
    IF r \in QueueRoute THEN [list EXCEPT !.queue = Append(@, r)]
    ELSE IF HasDependency(r) THEN [list EXCEPT !.subscription = <<r>> \o @]
    ELSE [list EXCEPT !.subscription = Append(@, r)]

\* The commit of a server that does not run in sequence executes its routes in
\* one turn: no other step comes between them.
Launching == at > 0 /\ Servers[at] \notin InSequence /\ todo # <<>>

\* initSubscriber: once its metadata is there, a route is appended to its
\* server.  A factory that rejects, or a server that does not exist, fails the
\* boot, while the other registrations of the same Promise.all go on.
RegisterRoute(r) ==
    /\ rstate[r] = "scanned"
    /\ \/ /\ ServerOf[r] \in Server
          /\ appended' = [appended EXCEPT ![ServerOf[r]] = Appended(@, r)]
          /\ rstate' = [rstate EXCEPT ![r] = "appended"]
          /\ UNCHANGED phase
       \/ /\ ServerOf[r] \notin Server \/ r \in MayReject
          /\ rstate' = [rstate EXCEPT ![r] = "invalid"]
          /\ phase' = "aborted"
          /\ UNCHANGED appended
    /\ UNCHANGED <<vars, todo, at, emitters, events>>

\* initEmitter and createEmitter: the entity's verification is begun and the
\* sender created; nothing awaits the verification.
RegisterEmitter(e) ==
    /\ e \notin emitters
    /\ emitters' = emitters \cup {e}
    /\ \/ /\ ClientOf[e] \in Clients
          /\ IF NodeOf[e] = NoNode THEN UNCHANGED vars ELSE Call(NodeOf[e])
          /\ UNCHANGED phase
       \/ /\ ClientOf[e] \notin Clients \/ e \in MayReject
          /\ phase' = "aborted"
          /\ UNCHANGED vars
    /\ UNCHANGED <<appended, todo, at, rstate, events>>

\* Mutant of Built: build() is not awaited.
BuiltAtOnce == TRUE

\* build() has resolved: every route is appended, every emitter registered.
Built == emitters = Emitter /\ \A r \in Route : rstate[r] = "appended"

StartCommit ==
    /\ phase = "build" /\ Built
    /\ phase' = "commit"
    /\ UNCHANGED <<vars, appended, todo, at, rstate, emitters, events>>

\* Mutant of Settled: the executions are begun and not awaited.
SettledOnceBegun == todo = <<>>

\* Every route that was begun is settled.
Settled == todo = <<>> /\ \A r \in Route : rstate[r] \notin InFlight

\* The server's routesToCommit once they are taken.
Taken(s) == [appended EXCEPT ![s] = [queue |-> <<>>, subscription |-> <<>>]]

\* commitRoutes of the next server, when the previous one's has resolved.
CommitRoutes ==
    /\ phase = "commit" /\ Settled /\ at < Len(Servers)
    /\ at' = at + 1
    /\ todo' = appended[Servers[at + 1]].queue \o appended[Servers[at + 1]].subscription
    /\ appended' = Taken(Servers[at + 1])
    /\ UNCHANGED <<vars, phase, rstate, emitters, events>>

\* Mutant of Receives: one receiver for the server.
ReceivesForServer(r) ==
    \E q \in Route : rstate[q] = "listening" /\ ServerOf[q] = ServerOf[r]

\* The receiver of r's entity (one per entity in a server's channel manager) is
\* receiving.
Receives(r) ==
    \E q \in Route : /\ rstate[q] = "listening" /\ ServerOf[q] = ServerOf[r]
                     /\ EntityOf[q] = EntityOf[r]

\* registerMessageHandler throws when the receiver is receiving already.
Connecting(r) ==
    IF Receives(r)
    THEN /\ rstate' = [rstate EXCEPT ![r] = "refused"]
         /\ events' = events \cup {<<"register", r>>}
    ELSE rstate' = [rstate EXCEPT ![r] = "connecting"] /\ UNCHANGED events

\* A server in sequence awaits each route before it executes the next.
MayExecute == Servers[at] \in InSequence => \A r \in Route : rstate[r] \notin InFlight

\* executeRoute: verifyAndCreate up to its first await.
ExecuteRoute ==
    /\ todo # <<>> /\ MayExecute
    /\ todo' = Tail(todo)
    /\ IF NodeOf[Head(todo)] = NoNode
       THEN Connecting(Head(todo)) /\ UNCHANGED vars
       ELSE /\ Call(NodeOf[Head(todo)])
            /\ rstate' = [rstate EXCEPT ![Head(todo)] = "verifying"]
            /\ UNCHANGED events
    /\ UNCHANGED <<phase, appended, at, emitters>>

\* The verification returned, or was rejected and reported; either way the
\* route goes on to register its handler.
Verified(r) ==
    /\ ~Launching
    /\ rstate[r] = "verifying" /\ pc[NodeOf[r]] = "done"
    /\ Connecting(r)
    /\ UNCHANGED <<vars, phase, appended, todo, at, emitters>>

VerifyFailed(r) ==
    /\ ~Launching
    /\ rstate[r] = "verifying" /\ pc[NodeOf[r]] = "failed"
    /\ <<"verify", r>> \notin events
    /\ events' = events \cup {<<"verify", r>>}
    /\ UNCHANGED <<vars, phase, appended, todo, at, rstate, emitters>>

AfterVerifyFailed(r) ==
    /\ ~Launching
    /\ rstate[r] = "verifying" /\ <<"verify", r>> \in events
    /\ Connecting(r)
    /\ UNCHANGED <<vars, phase, appended, todo, at, emitters>>

\* The receiver's link is attached, or refused: the entity is missing.
Attached(r) ==
    /\ ~Launching
    /\ rstate[r] = "connecting"
    /\ IF Exists(EntityOf[r])
       THEN rstate' = [rstate EXCEPT ![r] = "listening"] /\ UNCHANGED events
       ELSE /\ rstate' = [rstate EXCEPT ![r] = "refused"]
            /\ events' = events \cup {<<"register", r>>}
    /\ UNCHANGED <<vars, phase, appended, todo, at, emitters>>

\* discover() has resolved.
Ready ==
    /\ phase = "commit" /\ Settled /\ at = Len(Servers)
    /\ phase' = "ready"
    /\ UNCHANGED <<vars, appended, todo, at, rstate, emitters, events>>

\* A step of the configurator while the boot waits.
Manage(n) == ~Launching /\ NodeStep(n) /\ UNCHANGED bootVars

RouteStep(r) ==
    RegisterRoute(r) \/ Verified(r) \/ VerifyFailed(r) \/ AfterVerifyFailed(r) \/ Attached(r)

BootStep == StartCommit \/ CommitRoutes \/ ExecuteRoute \/ Ready

BootNext ==
    \/ \E r \in Route : RouteStep(r)
    \/ \E e \in Emitter : RegisterEmitter(e)
    \/ BootStep
    \/ \E n \in Node : Manage(n)

\* Promises that settle resume their awaiters; requests are answered.
BootFairness ==
    /\ \A r \in Route : WF_allVars(RouteStep(r))
    /\ \A e \in Emitter : WF_allVars(RegisterEmitter(e))
    /\ WF_allVars(BootStep)
    /\ \A n \in Node : WF_allVars(Manage(n))

BootSpec == BootInit /\ [][BootNext]_allVars /\ BootFairness

-----------------------------------------------------------------------------
(* Properties *)

\* Every variable of the boot keeps its type.
BootTypeOK ==
    /\ phase \in {"build", "commit", "ready", "aborted"}
    /\ appended \in [Server -> [queue : Seq(QueueRoute), subscription : Seq(TopicRoute)]]
    /\ todo \in Seq(Route)
    /\ at \in 0..Len(Servers)
    /\ rstate \in [Route -> RouteState]
    /\ emitters \subseteq Emitter
    /\ events \subseteq {"verify", "register"} \X Route

\* No route is lost, or left to be executed twice, between its registration and
\* its execution: one that is appended waits in exactly one place, every other
\* in none (service-bus-server.ts 90-149).
RoutesWaitOnce ==
    LET Places(list, r) == {i \in DOMAIN list : list[i] = r}
        Waiting(s, r)   == Places(appended[s].queue, r) \cup Places(appended[s].subscription, r)
    IN  \A r \in Route :
            LET own == IF ServerOf[r] \in Server THEN Cardinality(Waiting(ServerOf[r], r)) ELSE 0
            IN  /\ own + Cardinality(Places(todo, r)) = IF rstate[r] = "appended" THEN 1 ELSE 0
                /\ \A s \in Server \ {ServerOf[r]} : Waiting(s, r) = {}

\* The boot that is over has settled every route: it listens, or an error event
\* says why not; a verification that failed was reported, and only such a one.
EveryRouteSettles ==
    phase = "ready" => \A r \in Route :
        /\ rstate[r] \in {"listening", "refused"}
        /\ rstate[r] = "refused" <=> <<"register", r>> \in events
        /\ NodeOf[r] # NoNode => (pc[NodeOf[r]] = "failed" <=> <<"verify", r>> \in events)

\* A route that provisions its entity and has it for itself listens after the
\* boot, unless its verification was reported as failed.
ProvisionedRoutesListen ==
    phase = "ready" => \A r \in Route :
        (/\ NodeOf[r] # NoNode /\ TypeOf[NodeOf[r]] = "verifyCreate"
         /\ \A q \in Route \ {r} : EntityOf[q] # EntityOf[r]
         /\ <<"verify", r>> \notin events)
        => rstate[r] = "listening"

\* A boot that one registration fails connects no route, whatever the others of
\* the same Promise.all do meanwhile (discovery-service.ts 43-48).
AbortedBootIsSilent ==
    phase = "aborted" => \A r \in Route : rstate[r] \in {"scanned", "invalid", "appended"}

\* Route q creates the topic on its way.
Creates(q, topic) ==
    /\ HasDependency(q)
    /\ \E t \in Child[NodeOf[q]]["topic"] :
          TypeOf[t] = "verifyCreate" /\ EntOf[t] = topic

\* r, which does not create its topic and has its entity for itself, is not
\* refused for want of the topic when q of the same server creates it.
TopicSparedBy(q, r) ==
    (/\ ServerOf[q] = ServerOf[r] /\ faults = 0
     /\ Creates(q, Owner[EntityOf[r]]) /\ ~Creates(r, Owner[EntityOf[r]])
     /\ \A p \in Route \ {r} : EntityOf[p] # EntityOf[r])
    => <<"verify", r>> \notin events

\* In a server that commits in sequence, a subscription without a topic
\* provision finds the topic that another one of the server creates, in
\* whatever order the two were registered (service-bus-server.ts 101-107, 142-148).
TopicsComeFirst ==
    \A q, r \in TopicRoute :
        ServerOf[q] \in InSequence /\ ~HasDependency(r) => TopicSparedBy(q, r)

\* The boot comes to an end, whatever is missing or fails.
BootEnds == <>(phase \in {"ready", "aborted"})

-----------------------------------------------------------------------------
(* Claims of the comments *)

\* "we prioritize the routes so all subscriptions with topic provision will run
\* first in order to avoid a missing topic when registering a subscription":
\* discovery-service.ts, lines 46-47, of any server.
NoMissingTopic == \A q, r \in TopicRoute : TopicSparedBy(q, r)

\* "at this point all client passed provision": discovery-service.ts, line 45.
ClientsProvisioned ==
    phase \in {"commit", "ready"} => \A e \in Emitter :
        NodeOf[e] # NoNode => pc[NodeOf[e]] \in Returned
=============================================================================
