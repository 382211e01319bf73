--------------------------- MODULE ManagementClient ---------------------------
(***************************************************************************)
(* The requests of an entity's clients over its management link              *)
(* (atom-client/src: core/managementClient.ts, with clientEntityContext.ts,   *)
(* serviceBusMessage.ts, receiver.ts and util/concurrentExpiringMap.ts): one  *)
(* ManagementClient for all clients of the entity, whose link is opened under *)
(* a lock; and the locks of the deferred messages that only it can settle.    *)
(***************************************************************************)
EXTENDS Naturals, FiniteSets, FiniteSetsExt

CONSTANTS
    Client,     \* clients of one entity in one namespace
    Owner,      \* the first of them, which created the ManagementClient
    Request,    \* what they ask for: records [kind, arg]
    Last,       \* messages are numbered 1..Last, the last one deferred
    MaxOps,     \* bound: requests that are made
    MaxFaults   \* bound: links lost, locks that run out

\* What can be asked for: by a queue's or a subscription's client, by its Sender, by
\* its Receiver, by a message, and by the Receiver of a session.
Peeks         == {"peek", "peekFrom", "peekSession"}
RuleKinds     == {"addRule", "removeRule", "getRules"}
SenderKinds   == {"schedule", "cancel"}
ReceiverKinds == {"receiveDeferred", "renewLock"}
Settlements   == {"complete", "abandon", "defer", "deadLetter"}
StateKinds    == {"setState", "getState"}
Kind == Peeks \cup RuleKinds \cup SenderKinds \cup ReceiverKinds \cup Settlements \cup StateKinds

Op     == 1..MaxOps     \* the requests, in the order in which they are made
Msg    == 1..Last       \* sequence numbers
Nobody == 0

ASSUME ManagementOK ==
    /\ Owner \in Client /\ {Last, MaxOps, MaxFaults} \subseteq Nat \ {0}
    /\ \A r \in Request :
        /\ r.kind \in Kind /\ (r.kind \in Peeks => r.arg \in Nat)
        /\ r.kind \in Settlements \cup {"receiveDeferred", "renewLock"} => r.arg \in Msg

VARIABLES
    clients,    \* clients that are not closed
    apis,       \* which of the owner's Sender and Receiver are not closed
    link,       \* the number of the link in _mgmtReqResLink, 0 if undefined
    links,      \* how many were created
    open,       \* the links that are open
    lock,       \* who holds managementLock
    step,       \* step[o]: how far a request is
    req,        \* req[o]: what it asks for
    by,         \* by[o]: whose it is, of a peek or a receive
    from,       \* from[o]: where a peek begins, or the receive a message is from
    result,     \* result[o]: what the service answered
    pointer,    \* _lastPeekedSequenceNumber
    peeked,     \* peeked[c]: the messages that peeks returned to a client
    jumped,     \* a peek began elsewhere than at the pointer, or saw one session only
    place,      \* place[n]: a message at the service
    token,      \* token[n]: its lock, named by the receive that took it
    renewed,    \* the locks that were renewed
    entries,    \* the keys of requestResponseLockedMessages: locks
    live,       \* those whose time is not over
    cleaning,   \* _cleanupScheduled
    aux,        \* scheduled messages, rules and session state at the service
    faults

linkVars   == <<link, links, open, lock>>
opVars     == <<req, by, from, result>>
peekVars   == <<pointer, peeked, jumped>>
lockVars   == <<entries, live, cleaning>>
sbVars     == <<place, token, renewed, aux>>
vars == <<clients, apis, linkVars, step, opVars, peekVars, lockVars, sbVars, faults>>

Steps == {"idle", "waiting", "opening", "ready", "sent", "served", "resolved", "rejected"}

Init ==
    /\ clients = Client /\ apis = {"sender", "receiver"}
    /\ link = 0 /\ links = 0 /\ open = {} /\ lock = Nobody
    /\ step = [o \in Op |-> "idle"] /\ req = [o \in Op |-> [kind |-> "none", arg |-> 0]]
    /\ by = [o \in Op |-> Owner] /\ from = [o \in Op |-> 0] /\ result = [o \in Op |-> {}]
    /\ pointer = 0 /\ peeked = [c \in Client |-> {}] /\ jumped = FALSE
    /\ place = [n \in Msg |-> IF n = Last THEN "deferred" ELSE "active"]
    /\ token = [n \in Msg |-> Nobody] /\ renewed = {} /\ entries = {} /\ live = {} /\ cleaning = FALSE
    /\ aux = [scheduled |-> {}, rules |-> {}, state |-> 0]
    /\ faults = 0

Fault      == faults < MaxFaults /\ faults' = faults + 1
GoTo(o, s) == step' = [step EXCEPT ![o] = s]
IsLinkOpen == link \in open

-----------------------------------------------------------------------------
\* Where a peek begins.
PeekFrom(r) == IF r.kind = "peekFrom" THEN r.arg ELSE pointer + 1

\* settleMessage(): a lock that is in the map goes over the management link; else the
\* name of the receiver is looked up, which a deferred message does not have.
CanSettle(o) == o \in live

\* What a request refers to: a peek to a number, and a settlement or a renewal to a
\* message that was received, of which the receive stands for the lock.
Refers(r) ==
    CASE r.kind \in Peeks -> {PeekFrom(r)}
      [] r.kind \in Settlements \cup {"renewLock"} ->
            {p \in Op : /\ step[p] = "resolved"
                        /\ req[p].kind = "receiveDeferred" /\ req[p].arg = r.arg}
      [] OTHER -> {0}

\* A request is made by a client; a Sender or Receiver that is closed refuses its own.
Start(o) == \E c \in clients, r \in Request : \E f \in Refers(r) :
    /\ step[o] = "idle" /\ \A p \in 1..(o - 1) : step[p] # "idle"
    /\ c = Owner /\ r.kind \in SenderKinds => "sender" \in apis
    /\ c = Owner /\ r.kind \in ReceiverKinds => "receiver" \in apis
    /\ req' = [req EXCEPT ![o] = r] /\ from' = [from EXCEPT ![o] = f]
    /\ by' = IF r.kind \in Peeks \cup {"receiveDeferred"} THEN [by EXCEPT ![o] = c] ELSE by
    /\ jumped' = (jumped \/ r.kind \in Peeks \ {"peek"})
    /\ GoTo(o, IF r.kind \in Settlements /\ ~CanSettle(f) THEN "rejected" ELSE "waiting")
    /\ UNCHANGED <<clients, apis, linkVars, result, pointer, peeked, lockVars, sbVars, faults>>

\* Mutant of MustOpen: whoever has the lock creates a link.
MustOpenAlways == TRUE

MustOpen == ~IsLinkOpen

\* _init() under the lock: a link is created unless there is one.
Lock(o) ==
    /\ step[o] = "waiting" /\ lock = Nobody
    /\ IF MustOpen THEN lock' = o /\ GoTo(o, "opening")
       ELSE GoTo(o, "ready") /\ UNCHANGED lock
    /\ UNCHANGED <<clients, apis, link, links, open, opVars, peekVars, lockVars, sbVars, faults>>

Opened(o) ==
    /\ step[o] = "opening" /\ GoTo(o, "ready") /\ lock' = Nobody
    /\ links' = links + 1 /\ link' = links + 1 /\ open' = open \cup {links + 1}
    /\ UNCHANGED <<clients, apis, opVars, peekVars, lockVars, sbVars, faults>>

\* Mutant of Freed: a link that is refused keeps the lock.
FreedNever(o) == o

Freed(o) == Nobody

OpenFails(o) ==
    /\ step[o] = "opening" /\ GoTo(o, "rejected") /\ lock' = Freed(o)
    /\ UNCHANGED <<clients, apis, link, links, open, opVars, peekVars, lockVars, sbVars, faults>>

\* sendRequest(), unless the link went meanwhile.
Send(o) ==
    /\ step[o] = "ready" /\ GoTo(o, IF IsLinkOpen THEN "sent" ELSE "rejected")
    /\ UNCHANGED <<clients, apis, linkVars, opVars, peekVars, lockVars, sbVars, faults>>

-----------------------------------------------------------------------------
(* The service *)

\* A peek answers with what there is from some number on: all of it, or one
\* session's messages, here the even ones.
ServePeek(o) ==
    LET r == req[o]
        there == {n \in Msg : /\ n >= from[o] /\ place[n] # "completed"
                              /\ r.kind = "peekSession" => n % 2 = 0}
        count == IF r.kind = "peek" THEN r.arg ELSE 1
    IN  /\ r.kind \in Peeks
        /\ result' = [result EXCEPT ![o] =
                        {n \in there : Cardinality({k \in there : k < n}) < count}]
        /\ GoTo(o, "served") /\ UNCHANGED sbVars

\* A deferred message is locked and answered with.
ServeDeferred(o) ==
    LET n == req[o].arg IN
    /\ req[o].kind = "receiveDeferred" /\ place[n] = "deferred" /\ token[n] = Nobody
    /\ token' = [token EXCEPT ![n] = o]
    /\ GoTo(o, "served") /\ UNCHANGED <<result, place, renewed, aux>>

\* A message that was deferred stays so until it is completed or dead-lettered.
After(kind) == IF kind \in {"complete", "deadLetter"} THEN "completed" ELSE "deferred"

\* A message is settled by who has its lock ...
ServeSettle(o) ==
    LET n == req[o].arg IN
    /\ req[o].kind \in Settlements /\ token[n] = from[o]
    /\ place' = [place EXCEPT ![n] = After(req[o].kind)]
    /\ token' = [token EXCEPT ![n] = Nobody]
    /\ GoTo(o, "served") /\ UNCHANGED <<result, renewed, aux>>

\* ... or the lock is renewed.
ServeRenewLock(o) ==
    /\ req[o].kind = "renewLock" /\ token[req[o].arg] = from[o]
    /\ renewed' = renewed \cup {from[o]}
    /\ GoTo(o, "served") /\ UNCHANGED <<result, place, token, aux>>

\* Messages are scheduled, and cancelled while they are; rules are added, removed
\* and listed by name; the state of a session is set and read.
ServeSchedule(o) ==
    /\ req[o].kind = "schedule" /\ aux' = [aux EXCEPT !.scheduled = @ \cup {req[o].arg}]
    /\ GoTo(o, "served") /\ UNCHANGED <<result, place, token, renewed>>

ServeCancel(o) ==
    /\ req[o].kind = "cancel" /\ req[o].arg \in aux.scheduled
    /\ aux' = [aux EXCEPT !.scheduled = @ \ {req[o].arg}]
    /\ GoTo(o, "served") /\ UNCHANGED <<result, place, token, renewed>>

ServeAddRule(o) ==
    /\ req[o].kind = "addRule" /\ req[o].arg \notin aux.rules
    /\ aux' = [aux EXCEPT !.rules = @ \cup {req[o].arg}]
    /\ GoTo(o, "served") /\ UNCHANGED <<result, place, token, renewed>>

ServeRemoveRule(o) ==
    /\ req[o].kind = "removeRule" /\ req[o].arg \in aux.rules
    /\ aux' = [aux EXCEPT !.rules = @ \ {req[o].arg}]
    /\ GoTo(o, "served") /\ UNCHANGED <<result, place, token, renewed>>

ServeRules(o) ==
    /\ req[o].kind = "getRules" /\ result' = [result EXCEPT ![o] = aux.rules]
    /\ GoTo(o, "served") /\ UNCHANGED sbVars

ServeSetState(o) ==
    /\ req[o].kind = "setState" /\ aux' = [aux EXCEPT !.state = req[o].arg]
    /\ GoTo(o, "served") /\ UNCHANGED <<result, place, token, renewed>>

ServeGetState(o) ==
    /\ req[o].kind = "getState" /\ result' = [result EXCEPT ![o] = {aux.state}]
    /\ GoTo(o, "served") /\ UNCHANGED sbVars

Serve(o) ==
    /\ step[o] = "sent" /\ IsLinkOpen
    /\ \/ ServePeek(o) \/ ServeDeferred(o) \/ ServeSettle(o) \/ ServeRenewLock(o)
       \/ ServeSchedule(o) \/ ServeCancel(o) \/ ServeAddRule(o) \/ ServeRemoveRule(o)
       \/ ServeRules(o) \/ ServeSetState(o) \/ ServeGetState(o)
    /\ UNCHANGED <<clients, apis, linkVars, req, by, from, peekVars, lockVars, faults>>

\* The lock of a message runs out: for the client at the time it knows, and at the
\* service too unless it was renewed; then it lasts longer than the client knows.
LockRunsOut(n) ==
    /\ Fault /\ token[n] # Nobody
    /\ live' = live \ {token[n]}
    /\ \/ token[n] \in live \cap renewed /\ UNCHANGED token
       \/ token[n] \notin live \cap renewed /\ token' = [token EXCEPT ![n] = Nobody]
    /\ UNCHANGED <<clients, apis, linkVars, step, opVars, peekVars, entries, cleaning, place,
                   renewed, aux>>

-----------------------------------------------------------------------------
(* The answer *)

\* Mutant of Pointer: the pointer is where the peek was to end.
PointerEnd(o) == from[o] + req[o].arg - 1

\* The last message of the answer, whatever answered meanwhile.
Pointer(o) == IF result[o] = {} THEN pointer ELSE Max(result[o])

\* What a settled message leaves in the map: nothing.
Forgotten(o) == IF req[o].kind \in Settlements THEN {from[o]} ELSE {}

\* What a deferred message puts there: its lock, which may have run out on the way.
Noted(o) == IF req[o].kind = "receiveDeferred" THEN {o} ELSE {}
Held(o)  == token[req[o].arg] = o

Answered(o) ==
    /\ step[o] = "served" /\ IsLinkOpen /\ GoTo(o, "resolved")
    /\ IF req[o].kind \in Peeks
       THEN /\ pointer' = Pointer(o)
            /\ peeked' = [peeked EXCEPT ![by[o]] = @ \cup result[o]]
       ELSE UNCHANGED <<pointer, peeked>>
    /\ entries' = (entries \cup Noted(o)) \ Forgotten(o)
    /\ live' = (live \cup {p \in Noted(o) : Held(p)}) \ Forgotten(o)
    /\ cleaning' = (cleaning \/ Noted(o) # {})
    /\ UNCHANGED <<clients, apis, linkVars, opVars, jumped, sbVars, faults>>

\* The service refuses, or there is no answer in time; the service may have done
\* what was asked.
Fails(o) ==
    /\ step[o] \in {"sent", "served"} /\ GoTo(o, "rejected")
    /\ UNCHANGED <<clients, apis, linkVars, opVars, peekVars, lockVars, sbVars, faults>>

\* Mutant of Unexpired: the comparison is the other way round.
UnexpiredNot == entries \ live

\* What _collectExpiredEntries() keeps.
Unexpired == live

\* Another round, as long as there are entries.
CleansOn == Unexpired # {}

\* _collectExpiredEntries(), after its delay.
Collect ==
    /\ cleaning /\ entries' = Unexpired /\ live' = live \cap Unexpired /\ cleaning' = CleansOn
    /\ UNCHANGED <<clients, apis, linkVars, step, opVars, peekVars, sbVars, faults>>

-----------------------------------------------------------------------------
CloseSender ==
    /\ "sender" \in apis /\ apis' = apis \ {"sender"}
    /\ UNCHANGED <<clients, linkVars, step, opVars, peekVars, lockVars, sbVars, faults>>

\* close() of the Receiver forgets the deferred messages, whoever received them: the
\* map is that of the owner's context.
CloseReceiver ==
    /\ "receiver" \in apis /\ apis' = apis \ {"receiver"}
    /\ entries' = {} /\ live' = {}
    /\ UNCHANGED <<clients, linkVars, step, opVars, peekVars, cleaning, sbVars, faults>>

\* close() of the management client.
CloseLink == IF IsLinkOpen THEN open' = open \ {link} /\ link' = 0 ELSE UNCHANGED <<open, link>>

\* close() of a client: the owner's clears the map, and the last one closes the
\* management client.
CloseClient(c) ==
    /\ c \in clients /\ clients' = clients \ {c}
    /\ IF c = Owner THEN entries' = {} /\ live' = {} ELSE UNCHANGED <<entries, live>>
    /\ IF clients' = {} THEN CloseLink ELSE UNCHANGED <<open, link>>
    /\ UNCHANGED <<apis, links, lock, step, opVars, peekVars, cleaning, sbVars, faults>>

\* The connection is lost: the management clients are closed, whose link is not
\* open any more.
Disconnected ==
    /\ Fault /\ open # {} /\ open' = {}
    /\ UNCHANGED <<clients, apis, link, links, lock, step, opVars, peekVars, lockVars, sbVars>>

OpStep(o) ==
    Lock(o) \/ Opened(o) \/ OpenFails(o) \/ Send(o) \/ Serve(o) \/ Answered(o) \/ Fails(o)

Next ==
    \/ \E o \in Op : Start(o) \/ OpStep(o)
    \/ \E n \in Msg : LockRunsOut(n)
    \/ \E c \in Client : CloseClient(c)
    \/ Collect \/ CloseSender \/ CloseReceiver \/ Disconnected

\* A link is opened or refused, requests time out, timers fire.
Fairness == WF_vars(Collect) /\ \A o \in Op : WF_vars(OpStep(o))

Spec == Init /\ [][Next]_vars /\ Fairness

-----------------------------------------------------------------------------
(* Properties *)

\* Every variable keeps its type.
TypeOK ==
    /\ clients \subseteq Client /\ apis \subseteq {"sender", "receiver"}
    /\ link \in 0..MaxOps /\ links \in 0..MaxOps /\ open \subseteq 1..MaxOps
    /\ lock \in Op \cup {Nobody} /\ step \in [Op -> Steps]
    /\ pointer \in 0..Last /\ peeked \in [Client -> SUBSET Msg]
    /\ place \in [Msg -> {"active", "deferred", "completed"}]
    /\ token \in [Msg -> Op \cup {Nobody}]
    /\ renewed \subseteq Op /\ entries \subseteq Op /\ live \subseteq entries
    /\ cleaning \in BOOLEAN /\ faults \in 0..MaxFaults

\* However many requests find no link, and lose it again, one link is open at
\* most, the one that close() would close (lines 210-270 and 313-332).
OneManagementLink == open \subseteq {link}

\* As long as all use peek(), no message is passed over, in whatever order the
\* answers of concurrent peeks come and whichever are lost (lines 345-463).
PeekLeavesNoGap ==
    ~jumped => \A n \in 1..pointer : \E c \in Client : n \in peeked[c]

\* A deferred message that was received is in the map while its lock lasts and neither
\* the owner nor its Receiver is closed, so that complete() can be tried again after it
\* failed, also when the message was settled before under another lock
\* (serviceBusMessage.ts 966-983).
DeferredIsKnown ==
    \A o \in Op :
        /\ req[o].kind = "receiveDeferred" /\ step[o] = "resolved"
        /\ Held(o) /\ o \notin renewed /\ Owner \in clients /\ "receiver" \in apis
        => CanSettle(o)

\* Every request ends, whoever holds the lock and whatever gets lost.
RequestsEnd == \A o \in Op : step[o] = "waiting" ~> step[o] \in {"resolved", "rejected"}

\* What is past its time is removed from the map in the end
\* (concurrentExpiringMap.ts 25-74).
ExpiredIsCollected == []<>(entries = live)

-----------------------------------------------------------------------------
(* Claims of the comments *)

\* A lock that was renewed "lands back in the Queue/Subscription" only when it
\* expires (receiver.ts 208-213): a deferred message that can be settled can be
\* settled as long as the service keeps its lock.
KeptIsSettleable ==
    [][\A o \in live : Held(o) /\ Held(o)' /\ Owner \in clients' /\ "receiver" \in apis'
            => CanSettle(o)']_vars

\* "Close the managementClient unless it is shared with other clients"
\* (clientEntityContext.ts 318): the others go on with it, and can settle what they have.
OthersKeepTheirs ==
    \A o \in Op :
        /\ req[o].kind = "receiveDeferred" /\ step[o] = "resolved"
        /\ Held(o) /\ o \notin renewed /\ by[o] \in clients \ {Owner}
        => CanSettle(o)

\* "The first call to `peek()` fetches the first active message for this client.
\* Each subsequent call fetches the subsequent message in the entity": lines 334-336.
PeekIsPerClient ==
    ~jumped => \A c \in Client, n, k \in Msg :
        n < k /\ k \in peeked[c] /\ place[n] # "completed" => n \in peeked[c]
=============================================================================
