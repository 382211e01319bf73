---------------------------- MODULE BackoffRetry ----------------------------
(***************************************************************************)
(* SbBackoffRetry (nesbus/tasks/src/backoff.interceptor): a message whose   *)
(* handler fails is sent again as a clone, scheduled for later and carrying *)
(* one more retry in its user properties, and then completed.  There is no  *)
(* transaction over the two, and the message is held under a peek-lock that *)
(* may expire meanwhile.                                                   *)
(*                                                                         *)
(* The module follows one message: its submissions (the message as it was   *)
(* emitted, and every clone) and the copy of each in every subscription of  *)
(* the topic (a queue is a topic with one subscription).  Workers are the   *)
(* message handlers that may run at once, over all replicas.  Their steps   *)
(* around the interceptor are MessageReceiver._onAmqpMessage of the client  *)
(* library (atom-client/src/core/messageReceiver.ts); the broker is         *)
(* modelled from how they use it.                                          *)
(***************************************************************************)
EXTENDS Integers

CONSTANTS
    Sub,                \* the subscriptions of the topic, or the one queue
    Worker,             \* handlers that may run at once
    SubOf,              \* the subscription a worker receives from
    Nobody,             \* no worker
    RetryCount,         \* config.retryCount
    MaxDelivery,        \* the entity's maxDeliveryCount
    HasSender,          \* an emitter of the entity exists for resolveClient()
    DuplicateDetection, \* the entity drops a messageId it has seen
    MaxFaults,          \* bound: crashes, requests that fail, locks that expire
    MaxSends            \* bound: submissions

Submission == 1..MaxSends

ASSUME BackoffOK ==
    /\ SubOf \in [Worker -> Sub]
    /\ Nobody \notin Worker
    /\ RetryCount \in Nat /\ MaxDelivery \in Nat \ {0}
    /\ HasSender \in BOOLEAN /\ DuplicateDetection \in BOOLEAN
    /\ MaxFaults \in Nat /\ MaxSends \in Nat \ {0}

VARIABLES
    sent,       \* how many submissions the broker accepted
    try,        \* try[k]: userProperties[retryCountKey] of submission k, or 0
    copy,       \* copy[k][s]: submission k in subscription s
    deliveries, \* deliveries[k][s]: its delivery count
    holder,     \* holder[k][s]: the worker that holds its lock
    pc,         \* pc[w]: what w awaits
    at,         \* at[w]: the submission w is working on
    handled,    \* history: handled[k][s]: how often the handler succeeded on it
    faults      \* faults so far

vars == <<sent, try, copy, deliveries, holder, pc, at, handled, faults>>

CopyState == {"none", "scheduled", "ready", "locked", "completed", "dead"}
WorkerPc  == {"idle", "handling", "autoComplete", "sending", "settling",
              "exceeded", "releasing"}

-----------------------------------------------------------------------------
\* `extractRetryCount(...) || 0` of a message without the property.
NoRetries == 0

Init ==
    /\ sent = 1
    /\ try = [k \in Submission |-> NoRetries]
    /\ copy = [k \in Submission |-> [s \in Sub |-> IF k = 1 THEN "ready" ELSE "none"]]
    /\ deliveries = [k \in Submission |-> [s \in Sub |-> 0]]
    /\ holder = [k \in Submission |-> [s \in Sub |-> Nobody]]
    /\ pc = [w \in Worker |-> "idle"]
    /\ at = [w \in Worker |-> 1]
    /\ handled = [k \in Submission |-> [s \in Sub |-> 0]]
    /\ faults = 0

\* The worker holds the lock of the message it works on, so it may settle it.
Holds(w) == holder[at[w]][SubOf[w]] = w

GoTo(w, p) == pc' = [pc EXCEPT ![w] = p]

Fault == faults < MaxFaults /\ faults' = faults + 1

\* The scheduled time of a clone has come.
Enqueue(k, s) ==
    /\ copy[k][s] = "scheduled"
    /\ copy' = [copy EXCEPT ![k][s] = "ready"]
    /\ UNCHANGED <<sent, try, deliveries, holder, pc, at, handled, faults>>

\* Mutants of Exceeded: one retry too many, one too few, no limit.
ExceededLate(k) == try[k] > RetryCount + 1
ExceededEarly(k) == try[k] >= RetryCount
ExceededNever(k) == FALSE

\* The check at the head of intercept().
Exceeded(k) == try[k] > RetryCount

\* _onAmqpMessage up to the first await of intercept(): a message beyond the
\* retry limit never reaches the handler.
Deliver(w, k) ==
    /\ pc[w] = "idle" /\ copy[k][SubOf[w]] = "ready"
    /\ copy' = [copy EXCEPT ![k][SubOf[w]] = "locked"]
    /\ deliveries' = [deliveries EXCEPT ![k][SubOf[w]] = @ + 1]
    /\ holder' = [holder EXCEPT ![k][SubOf[w]] = w]
    /\ at' = [at EXCEPT ![w] = k]
    /\ GoTo(w, IF Exceeded(k) THEN "exceeded" ELSE "handling")
    /\ UNCHANGED <<sent, try, handled, faults>>

HandlerSucceeds(w) ==
    /\ pc[w] = "handling"
    /\ GoTo(w, "autoComplete")
    /\ handled' = [handled EXCEPT ![at[w]][SubOf[w]] = @ + 1]
    /\ UNCHANGED <<sent, try, copy, deliveries, holder, at, faults>>

\* catchError: without a sender, resolveClient().send throws, and the library
\* abandons the message.
HandlerFails(w) ==
    /\ pc[w] = "handling"
    /\ GoTo(w, IF HasSender THEN "sending" ELSE "releasing")
    /\ UNCHANGED <<sent, try, copy, deliveries, holder, at, handled, faults>>

\* The broker accepts the clone: one copy for every subscription, with the last
\* one not delayed.  A broker that detects duplicates may have the message's id
\* in its history, and then drops the clone.
Accept(w) ==
    \/ /\ sent < MaxSends
       /\ sent' = sent + 1
       /\ try' = [try EXCEPT ![sent + 1] = try[at[w]] + 1]
       /\ copy' = [copy EXCEPT ![sent + 1] =
              [s \in Sub |-> IF try[at[w]] = RetryCount THEN "ready" ELSE "scheduled"]]
    \/ /\ DuplicateDetection
       /\ UNCHANGED <<sent, try, copy>>

\* Mutant of AfterSendFails: the error of send() is swallowed.
AfterSendSettle == "settling"

\* What follows send(clone): completeMessage(), or the library's abandon().
AfterSend == "settling"
AfterSendFails == "releasing"

\* send(clone): acknowledged; or failed, before or after it was accepted.
Send(w) ==
    /\ pc[w] = "sending"
    /\ \/ Accept(w) /\ GoTo(w, AfterSend) /\ UNCHANGED faults
       \/ /\ Fault /\ GoTo(w, AfterSendFails)
          /\ Accept(w) \/ UNCHANGED <<sent, try, copy>>
    /\ UNCHANGED <<deliveries, holder, at, handled>>

\* The broker settles a message for the holder of its lock.
CompletedFor(w) ==
    /\ copy' = [copy EXCEPT ![at[w]][SubOf[w]] = "completed"]
    /\ holder' = [holder EXCEPT ![at[w]][SubOf[w]] = Nobody]

\* A copy whose lock is released is there to be received again, until it has
\* been delivered too often.
Release(k, s) ==
    /\ copy' = [copy EXCEPT ![k][s] = IF deliveries[k][s] >= MaxDelivery THEN "dead" ELSE "ready"]
    /\ holder' = [holder EXCEPT ![k][s] = Nobody]

\* complete(), by the library after the handler or by the interceptor after the
\* clone was sent.  When it fails the library reports it, and the interceptor's
\* failure makes it abandon the message too, unless the lock was lost.
Complete(w) ==
    /\ pc[w] \in {"autoComplete", "settling"}
    /\ \/ Holds(w) /\ CompletedFor(w) /\ GoTo(w, "idle") /\ UNCHANGED faults
       \/ ~Holds(w) /\ GoTo(w, "idle") /\ UNCHANGED <<copy, holder, faults>>
       \/ /\ Fault
          /\ GoTo(w, IF pc[w] = "settling" THEN "releasing" ELSE "idle")
          /\ (Holds(w) /\ CompletedFor(w)) \/ UNCHANGED <<copy, holder>>
    /\ UNCHANGED <<sent, try, deliveries, at, handled>>

\* abandon(), by the interceptor beyond the limit, or by the library after an
\* error, the failure of the interceptor's abandon() included.
Abandon(w) ==
    /\ pc[w] \in {"exceeded", "releasing"}
    /\ \/ Holds(w) /\ Release(at[w], SubOf[w]) /\ GoTo(w, "idle") /\ UNCHANGED faults
       \/ ~Holds(w) /\ GoTo(w, "idle") /\ UNCHANGED <<copy, holder, faults>>
       \/ /\ Fault
          /\ GoTo(w, IF pc[w] = "exceeded" THEN "releasing" ELSE "idle")
          /\ (Holds(w) /\ Release(at[w], SubOf[w])) \/ UNCHANGED <<copy, holder>>
    /\ UNCHANGED <<sent, try, deliveries, at, handled>>

\* The lock expires: in time when its holder is done with the message, as a
\* fault when it is not.
LockExpires(k, s) ==
    /\ copy[k][s] = "locked"
    /\ LET busy == \E w \in Worker : holder[k][s] = w /\ pc[w] # "idle" /\ at[w] = k
       IN  IF busy THEN Fault ELSE UNCHANGED faults
    /\ Release(k, s)
    /\ UNCHANGED <<sent, try, deliveries, pc, at, handled>>

\* The process of a worker dies; its locks outlive it.
Crash(w) ==
    /\ pc[w] # "idle" /\ Fault
    /\ GoTo(w, "idle")
    /\ UNCHANGED <<sent, try, copy, deliveries, holder, at, handled>>

WorkerStep(w) ==
    HandlerSucceeds(w) \/ HandlerFails(w) \/ Send(w) \/ Complete(w) \/ Abandon(w)

Next ==
    \/ \E k \in Submission, s \in Sub : Enqueue(k, s) \/ LockExpires(k, s)
    \/ \E w \in Worker : WorkerStep(w) \/ Crash(w) \/ \E k \in Submission : Deliver(w, k)

\* Handlers end and requests are answered; scheduled times come and locks
\* expire; a copy that is ready is received when a worker is free.
Fairness ==
    /\ \A w \in Worker : WF_vars(WorkerStep(w))
    /\ \A k \in Submission, s \in Sub :
          /\ WF_vars(Enqueue(k, s)) /\ WF_vars(LockExpires(k, s))
          /\ WF_vars(\E w \in Worker : SubOf[w] = s /\ Deliver(w, k))

Spec == Init /\ [][Next]_vars /\ Fairness

-----------------------------------------------------------------------------
(* Properties *)

\* Every variable keeps its type.
TypeOK ==
    /\ sent \in Submission
    /\ try \in [Submission -> Nat]
    /\ copy \in [Submission -> [Sub -> CopyState]]
    /\ deliveries \in [Submission -> [Sub -> Nat]]
    /\ holder \in [Submission -> [Sub -> Worker \cup {Nobody}]]
    /\ pc \in [Worker -> WorkerPc]
    /\ at \in [Worker -> Submission]
    /\ handled \in [Submission -> [Sub -> Nat]]
    /\ faults \in Nat

Live == {"scheduled", "ready", "locked"}

\* The message is never lost, whatever crashes, expires or fails between the
\* clone's sending and the completion: in every subscription it was handled, or
\* is still there to be, or is in the dead-letter queue (back-off.interceptor.ts
\* 36-46).  Duplicate detection breaks it: see the run that turns it on.
NoLoss ==
    \A s \in Sub : \E k \in Submission :
        handled[k][s] > 0 \/ copy[k][s] \in Live \cup {"dead"}

\* No copy is submitted with more than RetryCount + 1 retries, and the handler
\* never sees one that exceeds the limit (lines 29-34).
RetryBound ==
    /\ \A k \in Submission : try[k] <= RetryCount + 1
    /\ \A k \in Submission, s \in Sub : handled[k][s] > 0 => try[k] <= RetryCount

\* Only a message that exhausted its retries is dead-lettered, unless something
\* failed besides the handler.
DeadMeansExhausted ==
    \A k \in Submission, s \in Sub :
        copy[k][s] = "dead" /\ faults = 0 => try[k] > RetryCount

\* While nothing fails but handlers, a queue holds the message once: a second
\* copy exists only while the worker that sent it completes the first.
OneCopy ==
    faults = 0 => \A s \in Sub : \A j, k \in Submission :
        (j < k /\ copy[j][s] \in Live /\ copy[k][s] \in Live)
        => \E w \in Worker : pc[w] = "settling" /\ at[w] = j /\ SubOf[w] = s

\* A handler that succeeds is not run again on the message, while nothing fails
\* but handlers.
HandledOnce ==
    faults = 0 => \A s \in Sub : \A j, k \in Submission :
        handled[j][s] > 0 /\ handled[k][s] > 0 => j = k /\ handled[k][s] = 1

\* Every copy is completed or dead-lettered in the end.
EveryCopySettles ==
    <>[](\A k \in Submission, s \in Sub : copy[k][s] \in {"none", "completed", "dead"})

-----------------------------------------------------------------------------
(* A claim of the documentation *)

\* "it will re-emit the message but with a certain delay": back-off.md, line 29.
\* Within the limit a failed message is not received again at once.
NoImmediateRetry ==
    \A k \in Submission, s \in Sub :
        faults = 0 /\ try[k] <= RetryCount => deliveries[k][s] <= 1
=============================================================================
