-------------------------- MODULE StreamingReceiver --------------------------
(***************************************************************************)
(* The streaming receivers of one entity's context (atom-client/src:       *)
(* core/messageReceiver.ts, core/streamingReceiver.ts,                     *)
(* clientEntityContext.ts, connectionContext.ts): how the link of each is   *)
(* attached, detached by the broker, lost with the connection, attached    *)
(* again, and closed.                                                      *)
(*                                                                         *)
(* A context remembers one receiver, the last that was created; a receiver *)
(* keeps its own link, and its handlers act on that link whether or not    *)
(* the context still knows the receiver.  A promise that settles resumes    *)
(* its awaiters in the same turn, so a step below runs from one event of   *)
(* the network or a timer to the next.                                     *)
(***************************************************************************)
EXTENDS Naturals

CONSTANTS
    Receiver,       \* the StreamingReceivers that may be created
    None,           \* no receiver
    MaxAttempts,    \* Constants.defaultConnectionRetryAttempts
    MaxLosses       \* bound: links and connections that are lost

ASSUME ReceiverOK ==
    None \notin Receiver /\ MaxAttempts \in Nat \ {0} /\ MaxLosses \in Nat

VARIABLES
    closing,    \* close() of the context: "no", "begun" or "ended"
    streaming,  \* context.streamingReceiver
    link,       \* link[r]: r._receiver, "none" when it is undefined
    op,         \* op[r]: what r awaits
    closed,     \* closed[r]: r.wasCloseInitiated
    cause,      \* cause[r]: the error of the onDetached that is running
    attempts,   \* attempts[r]: the attempts it has made to attach the link
    dropped,    \* the error of a lost connection that is being handled, or "no"
    faults,     \* links and connections lost so far
    losses,     \* history: runs of onDetached since r's link was last attached
    told        \* history: the calls of onError since then

recvVars == <<closing, streaming, link, op, closed, cause, attempts, dropped,
              faults, losses, told>>

\* The errors of a link and of a connection, by what translate() makes of them.
Error     == {"retryable", "fatal"}
Detaching == {"closing", "connecting", "waiting"}   \* _isDetaching
LinkState == {"none", "open", "down"}
OpState   == {"unused", "creating", "rejected", "idle"} \cup Detaching

\* receiver.isClosed: set when close() is through, not when it begins.
IsClosed == closing = "ended"

-----------------------------------------------------------------------------
RecvInit ==
    /\ closing = "no"
    /\ streaming = None
    /\ link = [r \in Receiver |-> "none"]
    /\ op = [r \in Receiver |-> "unused"]
    /\ closed = [r \in Receiver |-> FALSE]
    /\ cause = [r \in Receiver |-> "retryable"]
    /\ attempts = [r \in Receiver |-> 0]
    /\ dropped = "no"
    /\ faults = 0
    /\ losses = [r \in Receiver |-> 0]
    /\ told = [r \in Receiver |-> 0]

\* isReceivingMessages(): of the receiver the context knows.
IsReceiving == streaming # None /\ link[streaming] = "open"

GoTo(r, o)  == op' = [op EXCEPT ![r] = o]
Tell(r)     == told' = [told EXCEPT ![r] = @ + 1]
Fault       == faults < MaxLosses /\ faults' = faults + 1

\* A link is attached: it is another one than the one that was lost.
Attach(r) ==
    /\ link' = [link EXCEPT ![r] = "open"]
    /\ losses' = [losses EXCEPT ![r] = 0]
    /\ told' = [told EXCEPT ![r] = 0]

\* close() of a receiver: it, and the reference of the context, whatever
\* receiver that refers to, are gone if it has a link.
Close(r) ==
    /\ closed' = [closed EXCEPT ![r] = TRUE]
    /\ link' = [link EXCEPT ![r] = "none"]
    /\ streaming' = IF link[r] = "none" THEN streaming ELSE None

\* registerMessageHandler: StreamingReceiver.create begins to attach a link.
Create(r) ==
    /\ op[r] = "unused" /\ ~IsClosed /\ ~IsReceiving
    /\ GoTo(r, "creating")
    /\ UNCHANGED <<closing, streaming, link, closed, cause, attempts, dropped, faults, losses, told>>

\* It resolves: the receiver replaces the one the context knew; when the
\* Receiver was closed meanwhile it is closed, in silence.
Created(r) ==
    /\ op[r] = "creating"
    /\ GoTo(r, "idle")
    /\ IF IsClosed
       THEN /\ closed' = [closed EXCEPT ![r] = TRUE]
            /\ streaming' = None
            /\ UNCHANGED <<link, losses, told>>
       ELSE Attach(r) /\ streaming' = r /\ UNCHANGED closed
    /\ UNCHANGED <<closing, cause, attempts, dropped, faults>>

\* It rejects: there is no such entity, or no connection.
CreateRejected(r) ==
    /\ op[r] = "creating"
    /\ GoTo(r, "rejected")
    /\ losses' = [losses EXCEPT ![r] = 1]
    /\ Tell(r)
    /\ UNCHANGED <<closing, streaming, link, closed, cause, attempts, dropped, faults>>

\* Mutant of Ignored: a link that is not open has been detached already.
IgnoredDown(r) == closed[r] \/ op[r] \in Detaching \/ link[r] = "down"

\* onDetached() does nothing after close(), nor while it is running.
Ignored(r) == closed[r] \/ op[r] \in Detaching

\* onDetached() up to its first await, the closing of the link.
OnDetached(r, c) ==
    IF Ignored(r) THEN UNCHANGED <<op, cause, losses>>
    ELSE /\ GoTo(r, "closing")
         /\ cause' = [cause EXCEPT ![r] = c]
         /\ losses' = [losses EXCEPT ![r] = @ + 1]

\* The broker detaches the link: an error that is not retryable is told at
\* once (_onAmqpError), then the link is found closed (_onAmqpClose).
LinkDetached(r, e) ==
    /\ link[r] = "open" /\ Fault
    /\ link' = [link EXCEPT ![r] = "down"]
    /\ IF e = "fatal" THEN Tell(r) ELSE UNCHANGED told
    /\ OnDetached(r, e)
    /\ UNCHANGED <<closing, streaming, closed, attempts, dropped>>

\* The connection is lost and every link with it; its handler drops the
\* sessions and waits before it tells the contexts.
Disconnected(e) ==
    /\ dropped = "no" /\ Fault
    /\ dropped' = e
    /\ link' = [r \in Receiver |-> IF link[r] = "open" THEN "down" ELSE link[r]]
    /\ UNCHANGED <<closing, streaming, op, closed, cause, attempts, losses, told>>

\* The context passes it on to the receiver it knows by then, also one that has
\* attached its link since.
ContextDetached ==
    /\ dropped # "no"
    /\ dropped' = "no"
    /\ IF streaming = None \/ IsClosed THEN UNCHANGED <<op, cause, link, losses>>
       ELSE /\ OnDetached(streaming, IF dropped = "fatal" THEN "disconnect" ELSE "retryable")
            /\ link' = IF Ignored(streaming) THEN link ELSE [link EXCEPT ![streaming] = "down"]
    /\ UNCHANGED <<closing, streaming, closed, attempts, faults, told>>

\* Mutant of GiveUp: the error of the reconnection is logged and not told.
GiveUpSilently(r) == GoTo(r, "idle") /\ UNCHANGED <<told, closed, link, streaming>>

\* onError, and then close(): no more messages or errors.
GiveUp(r) == GoTo(r, "idle") /\ Tell(r) /\ Close(r)

\* The error of a link that is not retryable: _onAmqpError has told it.
Swallowed(r) == cause[r] = "fatal"

\* The old link is closed: an error that is not retryable ends it here, and is
\* told when it is the connection's; otherwise the link is attached anew.
LinkClosed(r) ==
    /\ op[r] = "closing"
    /\ \/ Swallowed(r) /\ GoTo(r, "idle") /\ UNCHANGED <<told, closed, link, streaming, attempts>>
       \/ ~Swallowed(r) /\ cause[r] # "retryable" /\ GiveUp(r) /\ UNCHANGED attempts
       \/ /\ cause[r] = "retryable"
          /\ GoTo(r, "connecting")
          /\ attempts' = [attempts EXCEPT ![r] = 1]
          /\ UNCHANGED <<told, closed, link, streaming>>
    /\ UNCHANGED <<closing, cause, dropped, faults, losses>>

\* Mutant of ClosedMeanwhile: the check after the attachment is left out.
ClosedMeanwhileUnseen(r) == FALSE

\* close() was called by the time the link got attached.
ClosedMeanwhile(r) == closed[r]

\* The new link is attached; when close() was called meanwhile it is closed
\* again, and the context's reference with it.
Reattached(r) ==
    /\ op[r] = "connecting"
    /\ GoTo(r, "idle")
    /\ IF ClosedMeanwhile(r)
       THEN /\ link' = [link EXCEPT ![r] = "none"]
            /\ streaming' = None
            /\ UNCHANGED <<losses, told>>
       ELSE /\ Attach(r)
            /\ streaming' = IF streaming = None THEN r ELSE streaming
    /\ UNCHANGED <<closing, closed, cause, attempts, dropped, faults>>

AttemptsLeft(r) == attempts[r] < MaxAttempts

\* The attempt fails: it is retried after a delay, unless there were enough or
\* the error is not retryable.
ReattachFailed(r) ==
    /\ op[r] = "connecting"
    /\ \/ /\ AttemptsLeft(r)
          /\ GoTo(r, "waiting")
          /\ UNCHANGED <<told, closed, link, streaming>>
       \/ GiveUp(r)
    /\ UNCHANGED <<closing, cause, attempts, dropped, faults, losses>>

RetryDelayed(r) ==
    /\ op[r] = "waiting"
    /\ GoTo(r, "connecting")
    /\ attempts' = [attempts EXCEPT ![r] = @ + 1]
    /\ UNCHANGED <<closing, streaming, link, closed, cause, dropped, faults, losses, told>>

\* close() of the context closes the receiver it knows.  (It does nothing at
\* all while the connection is not open.)
CloseBegins ==
    /\ closing = "no"
    /\ closing' = "begun"
    /\ IF streaming = None THEN UNCHANGED <<closed, link, streaming>> ELSE Close(streaming)
    /\ UNCHANGED <<op, cause, attempts, dropped, faults, losses, told>>

CloseEnds ==
    /\ closing = "begun"
    /\ closing' = "ended"
    /\ UNCHANGED <<streaming, link, op, closed, cause, attempts, dropped, faults, losses, told>>

\* The steps of r that its promises and timers make.
Continue(r) ==
    Created(r) \/ CreateRejected(r) \/ LinkClosed(r) \/ Reattached(r)
    \/ ReattachFailed(r) \/ RetryDelayed(r)

RecvNext ==
    \/ \E r \in Receiver :
          Create(r) \/ Continue(r) \/ \E e \in Error : LinkDetached(r, e)
    \/ \E e \in Error : Disconnected(e)
    \/ ContextDetached \/ CloseBegins \/ CloseEnds

\* Timers fire, and a link that is asked for is attached or refused.
RecvFairness ==
    WF_recvVars(ContextDetached) /\ \A r \in Receiver : WF_recvVars(Continue(r))

RecvSpec == RecvInit /\ [][RecvNext]_recvVars /\ RecvFairness

-----------------------------------------------------------------------------
(* Properties *)

\* Every variable keeps its type.
RecvTypeOK ==
    /\ closing \in {"no", "begun", "ended"}
    /\ streaming \in Receiver \cup {None}
    /\ link \in [Receiver -> LinkState]
    /\ op \in [Receiver -> OpState]
    /\ closed \in [Receiver -> BOOLEAN]
    /\ cause \in [Receiver -> Error \cup {"disconnect"}]
    /\ attempts \in [Receiver -> 0..MaxAttempts]
    /\ dropped \in Error \cup {"no"}
    /\ faults \in 0..MaxLosses
    /\ losses \in [Receiver -> Nat]
    /\ told \in [Receiver -> Nat]

\* The receiver the context knows is served: its link is open, or is about to
\* be attached again, or the route's error handler was told that it is not; two
\* events of one loss never make each other do nothing
\* (messageReceiver.ts 612-657 and 856-999, clientEntityContext.ts 242-260).
LossIsHandled ==
    streaming # None /\ ~IsClosed =>
        \/ link[streaming] = "open" \/ op[streaming] \in Detaching
        \/ dropped # "no" \/ told[streaming] > 0

\* One loss is not told twice: not by the link's error handler and the
\* reconnection both (lines 558-572 and 903-931).
ToldOnce == \A r \in Receiver : told[r] <= losses[r]

\* A receiver that was closed has no open link in the end, also when it was
\* closed while its link was being attached again (lines 940-949).
ClosedStaysClosed == \A r \in Receiver : [](closed[r] => <>[](link[r] # "open"))

\* A link that is lost is attached again, or its route is told, or it is closed:
\* the reconnection does not go on for ever.
LossIsSettled ==
    \A r \in Receiver : streaming = r /\ link[r] = "down"
        ~> streaming # r \/ link[r] = "open" \/ told[r] > 0 \/ IsClosed
=============================================================================
