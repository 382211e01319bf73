--------------------------- MODULE MessageSession ---------------------------
(***************************************************************************)
(* Message sessions of one entity's context (atom-client/src:              *)
(* session/messageSession.ts, the SessionReceiver of receiver.ts, and what  *)
(* they share in clientEntityContext.ts): how the calls of an application   *)
(* create a session's link, share it, lose it and close it.                 *)
(*                                                                         *)
(* A MessageSession is created by the first call of a SessionReceiver that  *)
(* finds none; the check and the assignment lie on two sides of an await.   *)
(* The broker lets one link hold the lock of a session at a time.           *)
(***************************************************************************)
EXTENDS Naturals, FiniteSets

CONSTANTS
    Session,        \* the MessageSession objects that may be created
    Sid,            \* ids of sessions of the entity
    Reader,         \* SessionReceivers
    Call,           \* calls of the application on them
    None,           \* no session, id, reader or call
    ReaderOf(_),    \* the SessionReceiver a call is made on
    KindOf(_),      \* "handler", "batch" or "request"
    WantOf(_),      \* the sessionId a SessionReceiver asks for, or None: any
    BatchSize,      \* maxMessageCount
    MaxCalls,       \* maxConcurrentCalls
    MaxMessages,    \* bound: messages that are delivered
    MaxLosses       \* bound: links and connections that are lost

ASSUME SessionOK ==
    /\ None \notin Session \cup Sid \cup Call
    /\ \A c \in Call : ReaderOf(c) \in Reader

VARIABLES
    link,       \* link[o]: the receiver link of o
    sid,        \* sid[o]: o.sessionId
    receiving,  \* the sessions with isReceivingMessages
    credit,     \* credit[o]: messages the broker may still send
    renewal,    \* renewal[o]: the renewal of the lock, "off", "set" or "asked"
    onError,    \* onError[o]: the call whose error handler o has
    settling,   \* settling[o]: entries of _deliveryDispositionMap
    cache,      \* cache[s]: context.messageSessions[s]
    expired,    \* context.expiredMessageSessions
    holder,     \* holder[s]: the session whose link has the lock, at the broker
    current,    \* current[r]: r._messageSession
    readerId,   \* readerId[r]: r._sessionId
    shut,       \* shut[r]: close() of r: "no", "begun" or "ended"
    stage,      \* stage[c]: how far a call is
    target,     \* target[c]: the session it creates or uses
    got,        \* got[c]: messages in the batch of a call, or in its handler
    sent,       \* messages delivered so far
    faults,     \* links and connections lost so far
    dropped     \* history: the connection was lost at some time

linkVars   == <<link, sid, receiving, credit, renewal, onError, settling, cache, expired, holder>>
readerVars == <<current, readerId, shut>>
callVars   == <<stage, target, got>>
bounds     == <<sent, faults, dropped>>
vars       == <<linkVars, readerVars, callVars, bounds>>

\* `_receiver` is defined in the states HasReceiver; isOpen() in "open" only.
LinkState   == {"unused", "connecting", "failed", "open", "down", "closing", "closed"}
HasReceiver == {"open", "down"}
Receiving   == {"streaming", "filling", "draining"}
Stage == {"idle", "creating", "ready", "asking", "resolved", "rejected"} \cup Receiving

IsOpen(o)    == link[o] = "open"

\* What awaits a resolved promise runs before any event of the network or timer.
Quiet == \A c \in Call : stage[c] # "ready"

Put(f, x, v) == [f EXCEPT ![x] = v]
Fault        == faults < MaxLosses /\ faults' = faults + 1

-----------------------------------------------------------------------------
Init ==
    /\ link = [o \in Session |-> "unused"] /\ sid = [o \in Session |-> None]
    /\ receiving = {} /\ credit = [o \in Session |-> 0]
    /\ renewal = [o \in Session |-> "off"] /\ onError = [o \in Session |-> None]
    /\ settling = [o \in Session |-> 0]
    /\ cache = [s \in Sid |-> None] /\ expired = {} /\ holder = [s \in Sid |-> None]
    /\ current = [r \in Reader |-> None] /\ readerId = [r \in Reader |-> None]
    /\ shut = [r \in Reader |-> "no"]
    /\ stage = [c \in Call |-> "idle"] /\ target = [c \in Call |-> None]
    /\ got = [c \in Call |-> 0]
    /\ sent = 0 /\ faults = 0 /\ dropped = FALSE

-----------------------------------------------------------------------------
\* The calls of the application.

\* isClosed of a SessionReceiver: also when the cache has no session of its id.
IsClosed(r) ==
    \/ shut[r] = "ended"
    \/ readerId[r] # None /\ cache[readerId[r]] = None

AlreadyReceiving(r) == current[r] # None /\ current[r] \in receiving

\* A call is let in; without a session it begins to create one.
StartCall(c) ==
    LET r == ReaderOf(c) IN
    /\ stage[c] = "idle" /\ ~IsClosed(r)
    /\ KindOf(c) # "request" => ~AlreadyReceiving(r)
    /\ IF current[r] # None
       THEN stage' = Put(stage, c, "ready") /\ UNCHANGED <<link, target>>
       ELSE \E o \in Session :
            /\ link[o] = "unused" /\ link' = Put(link, o, "connecting")
            /\ stage' = Put(stage, c, "creating") /\ target' = Put(target, c, o)
    /\ UNCHANGED <<sid, receiving, credit, renewal, onError, settling, cache, expired,
                   holder, readerVars, got, bounds>>

\* _init succeeds: the link has the lock, and the session enters the cache
\* unless another has its id there; the lock is renewed from now on.
Established(o, s) ==
    /\ link' = Put(link, o, "open") /\ sid' = Put(sid, o, s)
    /\ holder' = Put(holder, s, o)
    /\ cache' = IF cache[s] = None THEN Put(cache, s, o) ELSE cache
    /\ renewal' = Put(renewal, o, "set")

\* ... and the call that created it makes it the session of the receiver.
Created(c) == \E s \in Sid :
    LET r == ReaderOf(c)  o == target[c] IN
    /\ Quiet /\ stage[c] = "creating" /\ link[o] = "connecting"
    /\ holder[s] = None /\ WantOf(r) \in {s, None}
    /\ Established(o, s)
    /\ current' = Put(current, r, o) /\ readerId' = Put(readerId, r, s)
    /\ expired' = expired \ {s}
    /\ stage' = Put(stage, c, "ready")
    /\ UNCHANGED <<receiving, credit, onError, settling, shut, target, got, bounds>>

\* _init fails: no session can be locked, or the connection fails.
CreateRejected(c) ==
    /\ Quiet /\ stage[c] = "creating"
    /\ link' = Put(link, target[c], "failed")
    /\ stage' = Put(stage, c, "rejected")
    /\ UNCHANGED <<sid, receiving, credit, renewal, onError, settling, cache, expired,
                   holder, readerVars, target, got, bounds>>

-----------------------------------------------------------------------------
\* Mutant of Forgotten: the entry of a closed session stays.
ForgottenNever(s) == cache

\* _deleteFromCache: the entry goes, whichever session it names.
Forgotten(s) == Put(cache, s, None)

\* close() of a session up to its await.
Close(o, dueToExpiry) ==
    /\ receiving' = receiving \ {o}
    /\ renewal' = IF renewal[o] = "set" THEN Put(renewal, o, "off") ELSE renewal
    /\ expired' = IF dueToExpiry THEN expired ELSE expired \ {sid[o]}
    /\ IF link[o] \in HasReceiver
       THEN /\ link' = Put(link, o, IF link[o] = "open" THEN "closing" ELSE "closed")
            /\ cache' = Forgotten(sid[o])
       ELSE UNCHANGED <<link, cache>>
    /\ UNCHANGED <<sid, credit, onError, settling, holder>>

\* receive(): the listener is set and credit is given, if the link is open.
Receive(c, o) ==
    /\ onError' = Put(onError, o, c)
    /\ IF IsOpen(o)
       THEN /\ stage' = Put(stage, c, "streaming")
            /\ receiving' = receiving \cup {o} /\ credit' = Put(credit, o, credit[o] + MaxCalls)
       ELSE /\ stage' = Put(stage, c, "rejected")
            /\ receiving' = receiving \ {o} /\ UNCHANGED credit
    /\ UNCHANGED <<link, sid, renewal, settling, cache, expired, holder>>

\* receiveMessages(): listeners, credit for the batch, and the timer that ends it.
ReceiveMessages(c, o) ==
    /\ receiving' = receiving \cup {o}
    /\ onError' = Put(onError, o, c)
    /\ IF IsOpen(o)
       THEN stage' = Put(stage, c, "filling") /\ credit' = Put(credit, o, credit[o] + BatchSize)
       ELSE stage' = Put(stage, c, "rejected") /\ UNCHANGED credit
    /\ UNCHANGED <<link, sid, renewal, settling, cache, expired, holder>>

\* registerMessageHandler goes on: a receiver closed meanwhile closes the session.
UseHandler(c) ==
    LET r == ReaderOf(c)  o == current[r] IN
    /\ stage[c] = "ready" /\ KindOf(c) = "handler"
    /\ IF o = None THEN stage' = Put(stage, c, "resolved") /\ UNCHANGED linkVars
       ELSE IF shut[r] # "ended" THEN Receive(c, o)
       ELSE stage' = Put(stage, c, "resolved") /\ Close(o, FALSE)
    /\ target' = Put(target, c, o)
    /\ UNCHANGED <<readerVars, got, bounds>>

\* receiveMessages goes on, whether or not the receiver was closed meanwhile.
UseBatch(c) ==
    LET o == current[ReaderOf(c)] IN
    /\ stage[c] = "ready" /\ KindOf(c) = "batch"
    /\ IF o = None THEN stage' = Put(stage, c, "rejected") /\ UNCHANGED linkVars
       ELSE ReceiveMessages(c, o)
    /\ target' = Put(target, c, o)
    /\ UNCHANGED <<readerVars, got, bounds>>

\* peek, getState, setState, receiveDeferredMessages: one request on the
\* management link, with the id of the session.
UseRequest(c) ==
    /\ stage[c] = "ready" /\ KindOf(c) = "request"
    /\ stage' = Put(stage, c, "asking")
    /\ UNCHANGED <<linkVars, readerVars, target, got, bounds>>

Answered(c) == \E answer \in {"resolved", "rejected"} :
    /\ Quiet /\ stage[c] = "asking"
    /\ stage' = Put(stage, c, answer)
    /\ UNCHANGED <<linkVars, readerVars, target, got, bounds>>

-----------------------------------------------------------------------------
\* Messages.

\* The calls whose listeners are set on the link of o.
Listens(c, o) == target[c] = o /\ stage[c] \in {"streaming", "filling"}

\* Mutant of Final: the link is drained although there may be none any more.
FinalAnyLink(o, left) == IF left > 0 THEN "draining" ELSE "resolved"

\* finalAction() of a batch: with credit left the link is drained first.
Final(o, left) == IF link[o] \in HasReceiver /\ left > 0 THEN "draining" ELSE "resolved"

\* A message arrives: every listener has it; a full batch ends.  A handler
\* does not get it once the link is closing; with no listener it is dropped.
Deliver(o) ==
    LET left == credit[o] - 1
        Full(c) == stage[c] = "filling" /\ Listens(c, o) /\ got[c] + 1 = BatchSize
        Takes(c) == Listens(c, o) /\ (stage[c] = "streaming" => IsOpen(o))
    IN
    /\ Quiet /\ link[o] \in {"open", "closing"} /\ credit[o] > 0 /\ sent < MaxMessages
    /\ credit' = Put(credit, o, left)
    /\ got' = [c \in Call |-> IF Takes(c) THEN got[c] + 1 ELSE got[c]]
    /\ stage' = [c \in Call |-> IF Full(c) THEN Final(o, left) ELSE stage[c]]
    /\ receiving' = IF \E c \in Call : Full(c) /\ Final(o, left) = "resolved"
                    THEN receiving \ {o} ELSE receiving
    /\ sent' = sent + 1
    /\ UNCHANGED <<link, sid, renewal, onError, settling, cache, expired, holder,
                   readerVars, target, faults, dropped>>

\* The wait of a batch is over: for new messages, or in all.
WaitOver(c) ==
    LET o == target[c] IN
    /\ Quiet /\ stage[c] = "filling"
    /\ stage' = Put(stage, c, Final(o, credit[o]))
    /\ receiving' = IF stage'[c] = "resolved" THEN receiving \ {o} ELSE receiving
    /\ UNCHANGED <<link, sid, credit, renewal, onError, settling, cache, expired, holder,
                   readerVars, target, got, bounds>>

\* The broker has used up the credit: the batch resolves.
Drained(o) ==
    /\ Quiet /\ IsOpen(o) /\ \E c \in Call : target[c] = o /\ stage[c] = "draining"
    /\ stage' = [c \in Call |-> IF target[c] = o /\ stage[c] = "draining"
                               THEN "resolved" ELSE stage[c]]
    /\ credit' = Put(credit, o, 0) /\ receiving' = receiving \ {o}
    /\ UNCHANGED <<link, sid, renewal, onError, settling, cache, expired, holder,
                   readerVars, target, got, bounds>>

\* getReceiver() and throwIfMessageCannotBeSettled(): a message of o can be
\* settled over the open link that the cache has for its session.
CanSettle(o) == sid[o] \notin expired /\ cache[sid[o]] = o /\ IsOpen(o)

\* settleMessage(): the disposition is sent, and awaited.
Settling(o) == IF CanSettle(o) THEN Put(settling, o, settling[o] + 1) ELSE settling

\* The handler of a message ends.  It is completed, or abandoned if the
\* handler threw; what goes wrong is told to the error handler.
Handled(c) ==
    LET o == target[c] IN
    /\ Quiet /\ stage[c] = "streaming" /\ got[c] > 0
    /\ got' = Put(got, c, got[c] - 1)
    /\ credit' = IF link[o] \in HasReceiver THEN Put(credit, o, credit[o] + 1) ELSE credit
    /\ settling' = Settling(o)
    /\ UNCHANGED <<link, sid, receiving, renewal, onError, cache, expired, holder,
                   readerVars, stage, target, bounds>>

\* The broker settles the delivery, or the timer gives up on it.
SettleEnds(o) ==
    /\ Quiet /\ settling[o] > 0
    /\ settling' = Put(settling, o, settling[o] - 1)
    /\ UNCHANGED <<link, sid, receiving, credit, renewal, onError, cache, expired, holder,
                   readerVars, callVars, bounds>>

-----------------------------------------------------------------------------
\* The lock of a session and its renewal.

\* Mutant of Renews: the timer is set whatever became of the link.
RenewsAlways(o) == TRUE

\* _ensureSessionLockRenewal: a closed session is not renewed.
Renews(o) == IsOpen(o)

RenewalFires(o) ==
    /\ Quiet /\ renewal[o] = "set" /\ renewal' = Put(renewal, o, "asked")
    /\ UNCHANGED <<link, sid, receiving, credit, onError, settling, cache, expired, holder,
                   readerVars, callVars, bounds>>

\* The request is answered: the timer is set again, unless the request failed
\* or the time for automatic renewal is over.
RenewalAnswered(o) == \E again \in BOOLEAN :
    /\ Quiet /\ renewal[o] = "asked"
    /\ renewal' = Put(renewal, o, IF again /\ Renews(o) THEN "set" ELSE "off")
    /\ UNCHANGED <<link, sid, receiving, credit, onError, settling, cache, expired, holder,
                   readerVars, callVars, bounds>>

-----------------------------------------------------------------------------
\* Losing and closing.

\* _notifyError: the handler that o has hears of it, which ends a batch.
Notified(o) ==
    LET c == onError[o] IN
    stage' = IF c # None /\ target[c] = o /\ stage[c] \in {"filling", "draining"}
             THEN Put(stage, c, "rejected") ELSE stage

\* The broker detaches an open link: first the error, then the close.
Detached(o) == \E e \in {"lockLost", "other", "no"} :
    /\ Quiet /\ Fault /\ IsOpen(o)
    /\ IF e = "no" THEN UNCHANGED stage ELSE Notified(o)
    /\ receiving' = receiving \ {o}
    /\ renewal' = IF renewal[o] = "set" THEN Put(renewal, o, "off") ELSE renewal
    /\ expired' = IF e = "lockLost" THEN expired \cup {sid[o]} ELSE expired \ {sid[o]}
    /\ link' = Put(link, o, "closed") /\ cache' = Forgotten(sid[o])
    /\ holder' = Put(holder, sid[o], None)
    /\ UNCHANGED <<sid, credit, onError, settling, readerVars, target, got, sent, dropped>>

\* The connection is lost.  Nothing tells the sessions, which stay where they are.
Disconnected ==
    /\ Quiet /\ Fault /\ \E o \in Session : IsOpen(o)
    /\ link' = [o \in Session |-> CASE link[o] = "open" -> "down"
                                    [] link[o] = "closing" -> "closed"
                                    [] link[o] = "connecting" -> "failed"
                                    [] OTHER -> link[o]]
    /\ holder' = [s \in Sid |-> None] /\ dropped' = TRUE
    /\ UNCHANGED <<sid, receiving, credit, renewal, onError, settling, cache, expired,
                   readerVars, callVars, sent>>

\* close() of a SessionReceiver, up to its await.
CloseReader(r) ==
    /\ shut[r] = "no"
    /\ IF current[r] = None THEN shut' = Put(shut, r, "ended") /\ UNCHANGED linkVars
       ELSE shut' = Put(shut, r, "begun") /\ Close(current[r], FALSE)
    /\ UNCHANGED <<current, readerId, callVars, bounds>>

\* close() of the context closes the sessions of its cache, one after another.
CloseContext(o) ==
    /\ sid[o] # None /\ cache[sid[o]] = o
    /\ Close(o, FALSE)
    /\ UNCHANGED <<readerVars, callVars, bounds>>

\* The link is closed at the broker too.
LinkClosed(o) ==
    /\ Quiet /\ link[o] = "closing" /\ link' = Put(link, o, "closed")
    /\ holder' = [s \in Sid |-> IF holder[s] = o THEN None ELSE holder[s]]
    /\ UNCHANGED <<sid, receiving, credit, renewal, onError, settling, cache, expired,
                   readerVars, callVars, bounds>>

\* ... and close() of the SessionReceiver ends: it forgets the session it has
\* by then.
ReaderClosed(r) ==
    /\ shut[r] = "begun" /\ \A o \in Session : link[o] # "closing"
    /\ current' = Put(current, r, None) /\ shut' = Put(shut, r, "ended")
    /\ UNCHANGED <<linkVars, readerId, callVars, bounds>>

-----------------------------------------------------------------------------
CallStep(c) ==
    \/ Created(c) \/ CreateRejected(c) \/ UseHandler(c) \/ UseBatch(c) \/ UseRequest(c)
    \/ Answered(c) \/ WaitOver(c)

Next ==
    \/ \E c \in Call : StartCall(c) \/ CallStep(c) \/ Handled(c)
    \/ \E o \in Session : \/ Deliver(o) \/ Drained(o) \/ SettleEnds(o) \/ RenewalFires(o)
                          \/ RenewalAnswered(o) \/ Detached(o) \/ CloseContext(o) \/ LinkClosed(o)
    \/ \E r \in Reader : CloseReader(r) \/ ReaderClosed(r)
    \/ Disconnected

\* Promises that settled resume their awaiters, timers fire, and the broker
\* answers on a link that stays open.  The application need not call anything.
Fairness ==
    /\ \A c \in Call : WF_vars(CallStep(c))
    /\ \A o \in Session : WF_vars(Drained(o)) /\ WF_vars(LinkClosed(o))
    /\ \A r \in Reader : WF_vars(ReaderClosed(r))

Spec == Init /\ [][Next]_vars /\ Fairness

-----------------------------------------------------------------------------
TypeOK ==
    /\ link \in [Session -> LinkState] /\ sid \in [Session -> Sid \cup {None}]
    /\ receiving \subseteq Session /\ credit \in [Session -> Nat] /\ settling \in [Session -> Nat]
    /\ renewal \in [Session -> {"off", "set", "asked"}]
    /\ onError \in [Session -> Call \cup {None}]
    /\ cache \in [Sid -> Session \cup {None}] /\ holder \in [Sid -> Session \cup {None}]
    /\ expired \subseteq Sid \cup {None}
    /\ current \in [Reader -> Session \cup {None}] /\ readerId \in [Reader -> Sid \cup {None}]
    /\ shut \in [Reader -> {"no", "begun", "ended"}]
    /\ stage \in [Call -> Stage] /\ target \in [Call -> Session \cup {None}]
    /\ got \in [Call -> Nat] /\ sent \in Nat /\ faults \in Nat /\ dropped \in BOOLEAN

\* A session that is closed never asks for its lock again, even if a renewal was
\* under way when close() cleared the timer: the answer must not set it again.
RenewalStops == \A o \in Session : link[o] \in {"closing", "closed"} => renewal[o] # "set"

\* The session that holds the lock at the broker is the one the cache names,
\* else its messages could not be settled and its reader would report itself
\* closed.  It holds as long as no connection is lost.
CacheIsHolder ==
    ~dropped => \A s \in Sid : holder[s] # None /\ IsOpen(holder[s]) => cache[s] = holder[s]

\* receiveMessages() of a session returns: always if its link is closed while it
\* waits for messages, else unless the link is lost or closed while it drains.
BatchReturns == \A c \in {x \in Call : KindOf(x) = "batch"} :
    LET Settled == stage[c] \in {"resolved", "rejected"}
        Shut    == target[c] # None /\ link[target[c]] \in {"closing", "closed"}
    IN
    /\ stage[c] = "filling" /\ Shut ~> Settled
    /\ stage[c] = "filling" ~> Settled \/ (stage[c] = "draining" /\ ~IsOpen(target[c]))

\* When the wait of receiveMessages() is over, what it collected is returned
\* (the comment on receiveMessages of SessionReceiver in receiver.ts).
BatchSettles ==
    \A c \in {x \in Call : KindOf(x) = "batch"} :
        stage[c] = "filling" ~> stage[c] \in {"resolved", "rejected"}

=============================================================================
