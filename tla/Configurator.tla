---------------------------- MODULE Configurator ----------------------------
(***************************************************************************)
(* SbConfigurator (nesbus/src/management/configurator.ts): the provisioning *)
(* of queues, topics, subscriptions and rules when an application boots.   *)
(*                                                                         *)
(* Every call of verifyQueue / verifyTopic / verifySubscription /          *)
(* verifyRule is a Node.  The provision object of a call is a finite tree  *)
(* (a subscription names its topic's provision and its rules, a queue or a *)
(* subscription the provision of the entities it forwards to), so the      *)
(* calls it may make are known beforehand: they are its children, and a    *)
(* node is called at most once.  A call runs without interruption between  *)
(* two awaits; each await is where the actions below interleave.  The      *)
(* namespace (broker) is shared by all connectors, a connector's cache by  *)
(* the calls on that connector.                                            *)
(***************************************************************************)
EXTENDS Naturals, FiniteSets

CONSTANTS
    Node,           \* every verify call that some provision tree can make
    Entity,         \* queues, topics, subscriptions and rules of the namespace
    Connector,      \* one SbConfigurator each: servers, clients, replicas
    Absent,         \* "no such entity": a falsy result of getX
    ConnOf,         \* the configurator a node is called on
    EntOf,          \* the entity a node verifies
    TypeOf,         \* its provision type, after normalizeEntityProvision
    Child,          \* Child[n][s]: the calls node n makes at stage s
    Params,         \* the links the provision params of a node would configure
    Owner,          \* topic of a subscription, subscription of a rule, or Absent
    CreateOrUpdate, \* connectors whose adapter's upsert overwrites (ARM)
    Namespace,      \* the namespaces the application may find when it boots
    MaxFaults,      \* bound: management requests that fail in transit
    MaxDeletes      \* bound: entities deleted while the application boots

LinkKind == {"deadLetter", "forward"}
Stage    == LinkKind \cup {"topic", "rules"}
Returned == {"done", "failed"}
PcVal    == Stage \cup Returned \cup {"idle", "get", "got", "created"}

\* What getX and upsertX resolve with: the links of the entity, or nothing.
Details == {Absent} \cup SUBSET LinkKind

Root == Node \ UNION {UNION {Child[n][s] : s \in Stage} : n \in Node}

ASSUME ConstantsOK ==
    /\ ConnOf \in [Node -> Connector]
    /\ EntOf \in [Node -> Entity]
    /\ TypeOf \in [Node -> {"skip", "verify", "verifyCreate"}]
    /\ Child \in [Node -> [Stage -> SUBSET Node]]
    /\ Params \in [Node -> SUBSET LinkKind]
    /\ Owner \in [Entity -> Entity \cup {Absent}]
    /\ Namespace \subseteq [Entity -> Details]
    /\ CreateOrUpdate \subseteq Connector
    /\ \A links \in SUBSET LinkKind : links # Absent
    /\ Absent \notin Entity
    /\ MaxFaults \in Nat /\ MaxDeletes \in Nat

\* A child has one caller, and a topic's verification calls nothing.
ASSUME ForestOK ==
    /\ \A m, n \in Node : \A s, t \in Stage :
          Child[m][s] \cap Child[n][t] # {} => m = n /\ s = t
    /\ \A n \in Node : \A m \in Child[n]["topic"] :
          Child[m]["topic"] = {} /\ m # n

VARIABLES
    broker,   \* broker[e]: the entity as the namespace holds it
    cache,    \* cache[c]: the entities connector c has in its four maps
    pc,       \* pc[n]: the await that call n is suspended at
    obj,      \* obj[n]: the local `queue`, `topic`, `subscription` or `rule`
    deleted,  \* history: the entities deleted so far
    faults    \* requests that failed in transit so far

vars == <<broker, cache, pc, obj, deleted, faults>>

Exists(e) == broker[e] # Absent

-----------------------------------------------------------------------------
(* The synchronous parts of a verify call *)

\* What a call does before its first await: return at once when the entity is
\* cached or the provision is `skip`, else await the topic or the first get.
Entered(n, ch) ==
    IF EntOf[n] \in ch[ConnOf[n]] \/ TypeOf[n] = "skip" THEN "done"
    ELSE IF Child[n]["topic"] # {} THEN "topic" ELSE "get"

\* The calls made in the turn that makes those of S: each that goes on to await
\* its topic's verification has made that call too.
Made(S, ch) ==
    S \cup UNION {Child[n]["topic"] : n \in {m \in S : Entered(m, ch) = "topic"}}

Invoke(S, p, ch) ==
    [n \in Node |-> IF n \in Made(S, ch) THEN Entered(n, ch) ELSE p[n]]

\* The children stage s makes n await: resolveLinkedEntity calls nothing when
\* the entity has no such link.
Awaited(n, s, o) ==
    IF s \in LinkKind /\ (o = Absent \/ s \notin o) THEN {} ELSE Child[n][s]

\* The next await of n after s ("settle": after get and upsert).  An await of
\* nothing changes no state and is not a step.
StageAfter(n, s, o) ==
    IF s = "settle" /\ Awaited(n, "deadLetter", o) # {} THEN "deadLetter"
    ELSE IF s \in {"settle", "deadLetter"} /\ Awaited(n, "forward", o) # {} THEN "forward"
    ELSE IF s # "rules" /\ Awaited(n, "rules", o) # {} THEN "rules"
    ELSE "done"

\* n goes on to stage s, making the calls it will await there.
MoveTo(n, s, o, ch) ==
    Invoke(IF s = "done" THEN {} ELSE Awaited(n, s, o), [pc EXCEPT ![n] = s], ch)

ShouldCreate(n) == obj[n] = Absent /\ TypeOf[n] = "verifyCreate"

-----------------------------------------------------------------------------
Init ==
    /\ broker \in Namespace
    /\ cache = [c \in Connector |-> {}]
    /\ pc = [n \in Node |-> "idle"]
    /\ obj = [n \in Node |-> Absent]
    /\ deleted = {}
    /\ faults = 0

\* A route or an emitter asks for its entity.
Call(r) ==
    /\ pc[r] = "idle"
    /\ pc' = Invoke({r}, pc, cache)
    /\ UNCHANGED <<broker, cache, obj, deleted, faults>>

\* safeAsync(getX): an error of any kind reads as "no such entity".
GetReply(n) ==
    /\ pc[n] = "get"
    /\ pc' = [pc EXCEPT ![n] = "got"]
    /\ \/ obj' = [obj EXCEPT ![n] = broker[EntOf[n]]] /\ UNCHANGED faults
       \/ /\ Exists(EntOf[n]) /\ faults < MaxFaults
          /\ obj' = [obj EXCEPT ![n] = Absent]
          /\ faults' = faults + 1
    /\ UNCHANGED <<broker, cache, deleted>>

\* Mutant of Accepts: isNew is not passed on.
AcceptsUpsert(n) == Owner[EntOf[n]] \in Entity => Exists(Owner[EntOf[n]])

\* Whether the namespace accepts upsertX(..., isNew = true): the owner must
\* exist, and so must the entity not, unless the adapter ignores isNew.
Accepts(n) ==
    /\ Owner[EntOf[n]] \in Entity => Exists(Owner[EntOf[n]])
    /\ Exists(EntOf[n]) => ConnOf[n] \in CreateOrUpdate

\* Mutant of UpsertFails: upsertX is wrapped in safeAsync as getX is.
UpsertFailsSafely(n) ==
    pc' = [pc EXCEPT ![n] = "created"] /\ obj' = [obj EXCEPT ![n] = Params[n]]

\* A rejected upsertX rejects the call.
UpsertFails(n) == pc' = [pc EXCEPT ![n] = "failed"] /\ UNCHANGED obj

\* upsertX after a get that found nothing: accepted, refused, or failed in
\* transit (before or after the namespace applied it).
UpsertReply(n) ==
    /\ pc[n] = "got" /\ ShouldCreate(n)
    /\ \/ /\ Accepts(n)
          /\ broker' = [broker EXCEPT ![EntOf[n]] = Params[n]]
          /\ obj' = [obj EXCEPT ![n] = Params[n]]
          /\ pc' = [pc EXCEPT ![n] = "created"]
          /\ UNCHANGED faults
       \/ /\ ~Accepts(n)
          /\ UpsertFails(n)
          /\ UNCHANGED <<broker, faults>>
       \/ /\ faults < MaxFaults /\ faults' = faults + 1
          /\ UpsertFails(n)
          /\ \/ UNCHANGED broker
             \/ Accepts(n) /\ broker' = [broker EXCEPT ![EntOf[n]] = Params[n]]
    /\ UNCHANGED <<cache, deleted>>

\* The entity is cached when there is one, then its links and rules are
\* verified (a queue's and a subscription's) or the call returns.
Settle(n) ==
    /\ pc[n] = "created" \/ (pc[n] = "got" /\ ~ShouldCreate(n))
    /\ cache' = IF obj[n] = Absent THEN cache
                ELSE [cache EXCEPT ![ConnOf[n]] = @ \cup {EntOf[n]}]
    /\ pc' = MoveTo(n, StageAfter(n, "settle", obj[n]), obj[n], cache')
    /\ UNCHANGED <<broker, obj, deleted, faults>>

\* Mutant of AllReturned: the calls are made and not awaited.
AllReturnedAtOnce(n) == TRUE

AllReturned(n) == \A m \in Awaited(n, pc[n], obj[n]) : pc[m] = "done"

\* Mutant of AnyRejected: a rejection is caught and forgotten.
AnyRejectedNever(n) == FALSE

AnyRejected(n) == \E m \in Awaited(n, pc[n], obj[n]) : pc[m] = "failed"

\* Every call awaited at this stage has returned: go on to the next one.
Resume(n) ==
    /\ pc[n] \in Stage
    /\ AllReturned(n)
    /\ pc' = IF pc[n] = "topic" THEN [pc EXCEPT ![n] = "get"]
             ELSE MoveTo(n, StageAfter(n, pc[n], obj[n]), obj[n], cache)
    /\ UNCHANGED <<broker, cache, obj, deleted, faults>>

\* An awaited call was rejected, and so is its caller; with Promise.all the
\* other rules go on.
Reject(n) ==
    /\ pc[n] \in Stage
    /\ AnyRejected(n)
    /\ pc' = [pc EXCEPT ![n] = "failed"]
    /\ UNCHANGED <<broker, cache, obj, deleted, faults>>

\* What deleting e removes: e, its subscriptions and their rules.
Below(e) ==
    {d \in Entity : \/ d = e \/ Owner[d] = e
                    \/ Owner[d] \in Entity /\ Owner[Owner[d]] = e}

\* deleteQueue, deleteTopic, deleteSubscription or deleteRule, of a configurator
\* or of another party: the caches keep what they hold.
DeleteEntity(e) ==
    /\ Exists(e)
    /\ deleted' = deleted \cup {d \in Below(e) : Exists(d)}
    /\ Cardinality(deleted') <= MaxDeletes
    /\ broker' = [d \in Entity |-> IF d \in Below(e) THEN Absent ELSE broker[d]]
    /\ UNCHANGED <<cache, pc, obj, faults>>

NodeStep(n) == GetReply(n) \/ UpsertReply(n) \/ Settle(n) \/ Resume(n) \/ Reject(n)

Next ==
    \/ \E r \in Root : Call(r)
    \/ \E n \in Node : NodeStep(n)
    \/ \E e \in Entity : DeleteEntity(e)

\* A management request is answered or times out, and the event loop runs
\* every continuation that is ready.
Fairness == \A n \in Node : WF_vars(NodeStep(n))

Spec == Init /\ [][Next]_vars /\ Fairness

-----------------------------------------------------------------------------
(* Properties *)

\* Every variable keeps its type.
TypeOK ==
    /\ broker \in [Entity -> Details]
    /\ cache \in [Connector -> SUBSET Entity]
    /\ pc \in [Node -> PcVal]
    /\ obj \in [Node -> Details]
    /\ deleted \subseteq Entity
    /\ faults \in Nat

\* What a connector believes verified is there, unless it has been deleted: no
\* interleaving of gets, upserts and lost replies caches a missing entity
\* (configurator.ts 52-71).
CacheSound ==
    \A c \in Connector : \A e \in cache[c] : Exists(e) \/ e \in deleted

\* A verifyCreate call that returns leaves its entity provisioned, whether it
\* created it, found it, or trusted the cache that another call filled.
ProvisionedExists ==
    \A n \in Node : pc[n] = "done" /\ TypeOf[n] = "verifyCreate"
        => Exists(EntOf[n]) \/ EntOf[n] \in deleted

\* A call that returns made no call that failed: no error of a topic, a linked
\* entity or a rule is lost on its way up, whatever the others do meanwhile.
NoSilentFailure ==
    \A n \in Node : pc[n] = "done" =>
        \A s \in Stage : \A m \in Child[n][s] : pc[m] # "failed"

\* A subscription asks for itself only after its topic's verification returned,
\* so with a verifyCreate topic provision the topic is there (lines 129-131).
TopicFirst ==
    \A n \in Node : \A t \in Child[n]["topic"] :
        /\ pc[n] \in PcVal \ {"idle", "topic", "failed"} /\ pc[t] # "idle"
        /\ TypeOf[t] = "verifyCreate"
        => Exists(EntOf[t]) \/ EntOf[t] \in deleted

\* A call fails for a reason: a request failed in transit, something was
\* deleted, a call it made failed, its owner is missing, or it raced with the
\* call that created its entity or its owner after it had looked.
FailureHasCause ==
    \A n \in Node : pc[n] = "failed" =>
        \/ faults > 0 \/ deleted # {}
        \/ \E s \in Stage : \E m \in Child[n][s] : pc[m] = "failed"
        \/ Owner[EntOf[n]] \in Entity /\ ~Exists(Owner[EntOf[n]])
        \/ \E m \in Node :
              /\ m # n /\ obj[m] # Absent /\ TypeOf[m] = "verifyCreate"
              /\ EntOf[m] \in {EntOf[n], Owner[EntOf[n]]}

\* Provisioning never reconfigures an entity that is there: it creates or it
\* reads.  (Of adapters whose upsert honours isNew.)
NeverReconfigured ==
    [][\A e \in Entity : Exists(e) /\ Exists(e)' => broker'[e] = broker[e]]_vars

\* Every call comes to an end, returned or rejected.
CallsReturn == \A n \in Node : pc[n] # "idle" ~> pc[n] \in Returned

-----------------------------------------------------------------------------
(* A claim of the comments *)

\* "check if already verified for this connector": configurator.ts, line 119.
\* When a call returns on the word of the cache, the verification that filled
\* the cache does not fail.
CachedIsVerified ==
    \A m, n \in Node :
        (/\ ConnOf[m] = ConnOf[n] /\ EntOf[m] = EntOf[n]
         /\ pc[n] = "done" /\ TypeOf[n] # "skip" /\ obj[n] = Absent
         /\ EntOf[n] \in cache[ConnOf[n]])
        => ~(pc[m] = "failed" /\ obj[m] # Absent)
=============================================================================
