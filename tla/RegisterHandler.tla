--------------------------- MODULE RegisterHandler ---------------------------
(***************************************************************************)
(* registerMessageHandler (nesbus/src/routing/register-message-handler.ts): *)
(* the promise around Receiver.registerMessageHandler that tells a route    *)
(* whether its link was attached.  The library calls back only for errors,  *)
(* so a timer polls receiver.isReceivingMessages(), and the first error to  *)
(* arrive before the poll sees the link rejects the promise.                *)
(*                                                                         *)
(* Composed with StreamingReceiver: one Receiver, which the channel manager *)
(* keeps for an entity, and the routes registered on it, each of which has   *)
(* a streaming receiver of its own, named after the route.                  *)
(***************************************************************************)
EXTENDS StreamingReceiver

CONSTANT
    MaxErrors   \* bound: errors that the registration and the handler of a route raise

ASSUME RegisterOK == MaxErrors \in Nat

Route == Receiver

VARIABLES
    done,       \* done[r]: the `done` of r's closure
    timer,      \* timer[r]: r's next poll is scheduled
    promise,    \* promise[r]: what registerMessageHandler returned to r
    raised,     \* history: errors raised for r so far
    reports     \* history: how the error handler was told of them

routeVars == <<done, timer, promise, raised, reports>>
vars      == <<recvVars, routeVars>>

Phase   == {"register", "listening", "message"}
Settled == {"resolved", "rejected"}

-----------------------------------------------------------------------------
Init ==
    /\ RecvInit
    /\ done = [r \in Route |-> FALSE]
    /\ timer = [r \in Route |-> FALSE]
    /\ promise = [r \in Route |-> "none"]
    /\ raised = [r \in Route |-> 0]
    /\ reports = [r \in Route |-> [p \in Phase |-> 0]]

Report(r, p) ==
    /\ raised' = [raised EXCEPT ![r] = @ + 1]
    /\ reports' = [reports EXCEPT ![r][p] = @ + 1]

\* Mutant of RouteError: once done, nobody listens.
RouteErrorIgnored(r, p) ==
    IF done[r]
    THEN raised' = [raised EXCEPT ![r] = @ + 1] /\ UNCHANGED <<done, promise, reports>>
    ELSE /\ Report(r, "register")
         /\ done' = [done EXCEPT ![r] = TRUE]
         /\ promise' = [promise EXCEPT ![r] = "rejected"]

\* onErrorRouter: an error after `done` goes to the route's error callback,
\* which tells a handler's error (WrappedError) from the others; the first one
\* before it rejects the promise, and the route reports it as 'register'.
RouteError(r, p) ==
    IF done[r]
    THEN Report(r, p) /\ UNCHANGED <<done, promise>>
    ELSE /\ Report(r, "register")
         /\ done' = [done EXCEPT ![r] = TRUE]
         /\ promise' = [promise EXCEPT ![r] = "rejected"]

\* The executor throws, and so rejects, when the receiver is closed or is
\* receiving; otherwise the link is asked for and the first poll scheduled.
Register(r) ==
    /\ promise[r] = "none"
    /\ IF IsClosed \/ IsReceiving
       THEN /\ promise' = [promise EXCEPT ![r] = "rejected"]
            /\ Report(r, "register")
            /\ UNCHANGED <<recvVars, timer>>
       ELSE /\ Create(r)
            /\ promise' = [promise EXCEPT ![r] = "pending"]
            /\ timer' = [timer EXCEPT ![r] = TRUE]
            /\ UNCHANGED <<raised, reports>>
    /\ UNCHANGED done

\* Mutant of PollAgain: the timer runs once.
PollAgainNever(r) == FALSE

\* poll() calls itself until there is a verdict.
PollAgain(r) == ~done[r]

\* Mutant of Seen: a link that is asked for counts.
SeenSoon == IsReceiving \/ \E r \in Route : op[r] = "creating"

\* What the tick sees: whichever route opened the link.
Seen == IsReceiving

\* The tick of the timer.
Poll(r) ==
    /\ timer[r]
    /\ IF Seen
       THEN /\ done' = [done EXCEPT ![r] = TRUE]
            /\ promise' = [promise EXCEPT ![r] = IF @ = "pending" THEN "resolved" ELSE @]
            /\ timer' = [timer EXCEPT ![r] = FALSE]
       ELSE /\ timer' = [timer EXCEPT ![r] = PollAgain(r)]
            /\ UNCHANGED <<done, promise>>
    /\ UNCHANGED <<recvVars, raised, reports>>

\* A step of the library that may call r's onError.
Heard(r, Step) ==
    /\ Step
    /\ IF told'[r] > told[r]
       THEN RouteError(r, "listening") /\ UNCHANGED timer
       ELSE UNCHANGED routeVars

LinkStep(r) == Heard(r, Continue(r))
LinkFails(r) == \E e \in Error : Heard(r, LinkDetached(r, e))

\* A message arrived and the route's handler threw; the link may be gone by
\* then.
HandlerFails(r) ==
    /\ op[r] \in {"idle"} \cup Detaching /\ raised[r] < MaxErrors
    /\ RouteError(r, "message")
    /\ UNCHANGED <<recvVars, timer>>

\* The steps of the library that call no onError.
Silent == ContextDetached \/ CloseBegins \/ CloseEnds \/ \E e \in Error : Disconnected(e)

Next ==
    \/ \E r \in Route :
          Register(r) \/ Poll(r) \/ LinkStep(r) \/ LinkFails(r) \/ HandlerFails(r)
    \/ Silent /\ UNCHANGED routeVars

\* Timers fire, and a link that is asked for is attached or refused.
Fairness ==
    /\ \A r \in Route : WF_vars(Poll(r)) /\ WF_vars(LinkStep(r))
    /\ WF_vars(ContextDetached /\ UNCHANGED routeVars)

Spec == Init /\ [][Next]_vars /\ Fairness

-----------------------------------------------------------------------------
(* Properties *)

\* Every variable keeps its type.
TypeOK ==
    /\ RecvTypeOK
    /\ done \in [Route -> BOOLEAN]
    /\ timer \in [Route -> BOOLEAN]
    /\ promise \in [Route -> {"none", "pending"} \cup Settled]
    /\ raised \in [Route -> Nat]
    /\ reports \in [Route -> [Phase -> Nat]]

\* Every error reaches the error handler, and reaches it once: as 'register'
\* when it rejected the promise, else as what it is (register-message-handler.ts
\* 11-19 with subscriber-route-handler.ts 50-66).
EveryErrorReportedOnce ==
    \A r \in Route :
        raised[r] = reports[r]["register"] + reports[r]["listening"] + reports[r]["message"]

\* A route is told of at most one failure to register, and only when the
\* promise was rejected: a poll that resolved it is never taken back.
OneVerdict ==
    \A r \in Route : reports[r]["register"] = IF promise[r] = "rejected" THEN 1 ELSE 0

\* The route's link has been attached, or its receiver was closed at once.
Attached == {"idle"} \cup Detaching

\* A promise resolves only when a link of the receiver was attached, its own or
\* another route's; that a link is asked for is not enough
\* (register-message-handler.ts 21-30).
ResolvedAfterAttach ==
    \A r \in Route : promise[r] = "resolved" => \E q \in Route : op[q] \in Attached

\* The timer of a promise that settled stops, also when an error settled it.
PollingStops == \A r \in Route : [](promise[r] \in Settled => <>~timer[r])

\* A route that has the receiver for itself gets a verdict, so a server that
\* commits in sequence goes on, unless the receiver is being closed.
AloneSettles ==
    \A r \in Route : promise[r] = "pending"
        ~> \/ promise[r] \in Settled \/ closing # "no"
           \/ \E q \in Route \ {r} : promise[q] # "none"

-----------------------------------------------------------------------------
(* A claim of the comments *)

\* "The async version for `Receiver.registerMessageHandler` with feedback on the
\* connection status": register-message-handler.ts, line 4, of every route: the
\* promise settles unless the receiver is being closed.
RegistrationSettles ==
    \A r \in Route : promise[r] = "pending" ~> (promise[r] \in Settled \/ closing # "no")
=============================================================================
