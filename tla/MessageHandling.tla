---------------------------- MODULE MessageHandling ----------------------------
(***************************************************************************)
(* A message in the hands of a streaming receiver (atom-client/src:        *)
(* core/messageReceiver.ts and serviceBusMessage.ts): the handler runs,    *)
(* timers renew the lock meanwhile, a settlement waits for the broker's    *)
(* answer, and credit for one more message is given when the handler ends. *)
(* The life of the link itself is that of StreamingReceiver; here it is    *)
(* lost and attached again, and its losses are bounded.                    *)
(***************************************************************************)
EXTENDS Naturals, FiniteSets, MessageFields

CONSTANTS
    Copy,           \* 1..n: the copies of messages that get into the queue
    Post,           \* the messages the application sends
    Op,             \* the ways to settle a message that are used
    None,           \* no timer, no call
    MaxCalls,       \* maxConcurrentCalls
    MaxRenewals,    \* renewals within maxAutoRenewDurationInSeconds
    MaxFaults       \* bound: links and locks lost, requests refused, and a close

ASSUME HandlingOK ==
    /\ IsFiniteSet(Copy) /\ Copy = 1..Cardinality(Copy)
    /\ Op \subseteq {"complete", "abandon", "defer", "deadletter"}
    /\ MaxCalls \in Nat \ {0} /\ MaxRenewals \in Nat \ {0} /\ MaxFaults \in Nat

\* The keys of user properties that the application's messages have.
Keys == UNION {Props(m) : m \in Post}

\* A message has every field, with a value or none, and no set of user properties
\* is "none".
ASSUME PostOK ==
    /\ \A m \in Post : DOMAIN m = Field
    /\ \A P \in SUBSET Keys : P \cup {"SB_BACKOFF_RETRY_COUNT"} # Absent

\* A message is settled by the code of its handler, or by the receiver after it.
Caller == {"handler", "receiver"}
Call   == Copy \X Caller
Way    == Op \cup {"complete", "abandon"}

VARIABLES
    peekLock, autoComplete,     \* the options of the receiver
    wire,       \* wire[d]: the AMQP message of a copy
    fate,       \* fate[d]: what the broker knows of a copy
    cloneOf,    \* cloneOf[d]: the copy this one retries or repeats
    link,       \* the number of the link in _receiver
    up,         \* it is open
    credit,     \* the messages the broker may still send on it
    closed,     \* wasCloseInitiated
    phase,      \* phase[d]: how far _onAmqpMessage is with a copy
    via,        \* via[d]: the link a copy came on
    renewTimer, \* _messageRenewLockTimers: <<id, d>>, the timer of d for an id
    armed,      \* <<d, n>>: the renewal timer of a copy runs, after n renewals
    renewing,   \* <<d, n>>: the lock of a copy is being renewed
    call,       \* call[c]: what became of a settlement
    asked,      \* asked[c]: the way to settle
    pending,    \* _deliveryDispositionMap: the settlement an answer is for
    timed,      \* the settlements whose timer runs
    moving,     \* dispositions <<d, op>> on the way to the broker
    settled,    \* the copies with delivery.remote_settled
    faults

options  == <<peekLock, autoComplete>>
broker   == <<wire, fate, cloneOf>>
linkVars == <<link, up, closed>>
locks    == <<renewTimer, armed, renewing>>
calls    == <<call, asked, pending, timed, moving>>
vars     == <<options, broker, linkVars, credit, phase, via, locks, calls, settled, faults>>

Received(d) == FromAmqp(wire[d])
Id(d)       == wire[d]["message_id"]
Fault       == faults < MaxFaults /\ faults' = faults + 1

Init ==
    /\ peekLock \in BOOLEAN /\ autoComplete \in BOOLEAN
    /\ wire = [d \in Copy |-> <<>>] /\ fate = [d \in Copy |-> "none"]
    /\ cloneOf = [d \in Copy |-> d]
    /\ link = 1 /\ up = TRUE /\ credit = MaxCalls /\ closed = FALSE
    /\ phase = [d \in Copy |-> "none"] /\ via = [d \in Copy |-> 0]
    /\ renewTimer = {} /\ armed = {} /\ renewing = {}
    /\ call = [c \in Call |-> "none"] /\ asked = [c \in Call |-> "none"]
    /\ pending = [d \in Copy |-> None] /\ timed = {} /\ moving = {}
    /\ settled = {} /\ faults = 0

-----------------------------------------------------------------------------
\* A copy of w gets into the queue.
Enqueue(d, w, from) ==
    /\ fate[d] = "none" /\ \A e \in 1..(d - 1) : fate[e] # "none"
    /\ wire' = [wire EXCEPT ![d] = w]
    /\ cloneOf' = [cloneOf EXCEPT ![d] = from]

\* The application sends a message; one with too long a key is refused.
Send(m) == \E d \in Copy :
    /\ ~TooLong(m)
    /\ Enqueue(d, ToAmqp(m), d) /\ fate' = [fate EXCEPT ![d] = "queued"]
    /\ UNCHANGED <<options, linkVars, credit, phase, via, locks, calls, settled, faults>>

\* The handler sends the message again, as the task of the retries does.
SendRetry(d) == \E e \in Copy :
    /\ phase[d] = "handling" /\ \A x \in Copy : x # d => cloneOf[x] # d
    /\ Enqueue(e, ToAmqp(BackoffClone(Received(d))), d)
    /\ fate' = [fate EXCEPT ![e] = "queued"]
    /\ UNCHANGED <<options, linkVars, credit, phase, via, locks, calls, settled, faults>>

\* The broker's lock runs out.
LockExpires(d) ==
    /\ fate[d] = "locked" /\ Fault
    /\ fate' = [fate EXCEPT ![d] = "lost"]
    /\ UNCHANGED <<options, wire, cloneOf, linkVars, credit, phase, via, locks, calls,
                   settled>>

\* A message that was abandoned, or whose lock was lost, is queued again.
Requeue(d) == \E e \in Copy :
    /\ fate[d] \in {"lost", "abandon"}
    /\ Enqueue(e, wire[d], d)
    /\ fate' = [fate EXCEPT ![e] = "queued", ![d] = "gone"]
    /\ UNCHANGED <<options, linkVars, credit, phase, via, locks, calls, settled, faults>>

-----------------------------------------------------------------------------
\* The map without an entry, and with another one in its place.
Without(id)    == {x \in renewTimer : x[1] # id}
Instead(id, d) == Without(id) \cup {<<id, d>>}

\* Mutant of Cleared: the entry goes, the timer runs on.
ClearedEntry(d) == renewTimer' = Without(Id(d)) /\ UNCHANGED armed

\* _clearMessageLockRenewTimer
Cleared(d) ==
    /\ renewTimer' = Without(Id(d))
    /\ armed' = {t \in armed : <<Id(d), t[1]>> \notin renewTimer}

\* _clearAllMessageLockRenewTimers
ClearedAll ==
    /\ renewTimer' = {}
    /\ armed' = {t \in armed : \A x \in renewTimer : t[1] # x[2]}

\* The next timer is set, if the id of the message has an entry in the map.
RenewAgain(d, n) ==
    IF \E x \in renewTimer : x[1] = Id(d)
    THEN renewTimer' = Instead(Id(d), d) /\ armed' = armed \cup {<<d, n>>}
    ELSE UNCHANGED <<renewTimer, armed>>

\* _onAmqpMessage: the renewal of the lock starts, and the handler is called.
Deliver(d) ==
    /\ fate[d] = "queued" /\ up /\ credit > 0
    /\ credit' = credit - 1
    /\ phase' = [phase EXCEPT ![d] = "handling"] /\ via' = [via EXCEPT ![d] = link]
    /\ IF peekLock
       THEN /\ fate' = [fate EXCEPT ![d] = "locked"] /\ UNCHANGED settled
            /\ renewTimer' = Instead(Id(d), d) /\ armed' = armed \cup {<<d, 0>>}
       ELSE /\ fate' = [fate EXCEPT ![d] = "complete"] /\ settled' = settled \cup {d}
            /\ UNCHANGED <<renewTimer, armed>>
    /\ UNCHANGED <<options, wire, cloneOf, linkVars, renewing, calls, faults>>

\* The timer fires, and asks the broker to renew the lock.
RenewTimerFires(d) == \E t \in armed :
    /\ t[1] = d
    /\ armed' = armed \ {t} /\ renewing' = renewing \cup {t}
    /\ UNCHANGED <<options, broker, linkVars, credit, phase, via, renewTimer, calls, settled, faults>>

\* The lock is renewed, and then there is another renewal, while there is time for it.
Renewed(d) == \E t \in renewing :
    /\ t[1] = d /\ fate[d] = "locked"
    /\ renewing' = renewing \ {t}
    /\ IF t[2] + 1 < MaxRenewals THEN RenewAgain(d, t[2] + 1) ELSE Cleared(d)
    /\ UNCHANGED <<options, broker, linkVars, credit, phase, via, calls, settled, faults>>

\* The renewal fails: the error handler is told, and that was the last one.
RenewalFails(d) == \E t \in renewing :
    /\ t[1] = d
    /\ Fault \/ (fate[d] # "locked" /\ UNCHANGED faults)
    /\ renewing' = renewing \ {t}
    /\ UNCHANGED <<options, broker, linkVars, credit, phase, via, renewTimer, armed, calls, settled>>

-----------------------------------------------------------------------------
\* The receiver that the name of the delivery's link leads to, if it is open.
ByLink(d) == up /\ via[d] = link

\* settleMessage: refused, over the link with a timer, or over the management link.
Settle(c, op) ==
    LET d == c[1] IN
    /\ asked' = [asked EXCEPT ![c] = op]
    /\ IF d \in settled \/ ~peekLock
       THEN call' = [call EXCEPT ![c] = "rejected"] /\ UNCHANGED <<pending, timed, moving>>
       ELSE IF ByLink(d)
       THEN /\ call' = [call EXCEPT ![c] = "waiting"]
            /\ pending' = [pending EXCEPT ![d] = c[2]] /\ timed' = timed \cup {c}
            /\ moving' = moving \cup {<<d, op>>}
       ELSE call' = [call EXCEPT ![c] = "managed"] /\ UNCHANGED <<pending, timed, moving>>

\* The handler settles its message, and may wait for that or not.
HandlerSettles(d) == \E op \in Op :
    /\ phase[d] = "handling" /\ call[<<d, "handler">>] = "none"
    /\ Settle(<<d, "handler">>, op)
    /\ IF d \notin settled /\ peekLock /\ ByLink(d) THEN Cleared(d) ELSE UNCHANGED <<renewTimer, armed>>
    /\ UNCHANGED <<options, broker, linkVars, credit, phase, via, renewing,
                   settled, faults>>

\* Mutant of Refilled: no credit after an abandon, as if the finally were not there.
RefilledOnce(d) == IF closed \/ ~up \/ phase[d] = "abandoning" THEN credit ELSE credit + 1

\* The finally: one more message may come, whichever link is the receiver's now.
Refilled(d) == IF closed \/ ~up THEN credit ELSE credit + 1

\* The handler is done: the message is completed, unless that is left to it.
HandlerReturns(d) ==
    /\ phase[d] = "handling"
    /\ Cleared(d) /\ credit' = Refilled(d)
    /\ IF autoComplete /\ peekLock /\ d \notin settled
       THEN Settle(<<d, "receiver">>, "complete") /\ phase' = [phase EXCEPT ![d] = "completing"]
       ELSE phase' = [phase EXCEPT ![d] = "done"] /\ UNCHANGED calls
    /\ UNCHANGED <<options, broker, linkVars, via, renewing, settled, faults>>

\* The handler throws: the message is abandoned, while the receiver's link is open
\* and unless what the handler throws is that the lock was lost.
HandlerThrows(d) == \E lockLost \in {FALSE, fate[d] \in {"lost", "gone"}} :
    /\ phase[d] = "handling"
    /\ Cleared(d)
    /\ IF peekLock /\ d \notin settled /\ up /\ ~lockLost
       THEN /\ Settle(<<d, "receiver">>, "abandon") /\ UNCHANGED credit
            /\ phase' = [phase EXCEPT ![d] = "abandoning"]
       ELSE /\ phase' = [phase EXCEPT ![d] = "done"] /\ credit' = Refilled(d)
            /\ UNCHANGED calls
    /\ UNCHANGED <<options, broker, linkVars, via, renewing, settled, faults>>

\* The receiver's own settlement is over, either way.
AfterSettlement(d) ==
    /\ phase[d] \in {"completing", "abandoning"}
    /\ call[<<d, "receiver">>] \in {"resolved", "rejected"}
    /\ phase' = [phase EXCEPT ![d] = "done"]
    /\ credit' = IF phase[d] = "abandoning" THEN Refilled(d) ELSE credit
    /\ UNCHANGED <<options, broker, linkVars, via, locks, calls, settled, faults>>

-----------------------------------------------------------------------------
\* Mutant of Verdict: an answer with an error resolves the promise too.
VerdictAlways(ok) == "resolved"

\* An answer with an error rejects.
Verdict(ok) == IF ok THEN "resolved" ELSE "rejected"

\* The timer an answer stops: that of the settlement in the map.
TimersOf(d) == {<<d, pending[d]>>}

\* The broker carries a disposition out, or refuses it when the lock is lost.
CarriedOut(d, op) == IF fate[d] = "locked" THEN [fate EXCEPT ![d] = op] ELSE fate

\* _onSettled: its answer settles the promise in the map, if there is one.
OnSettled(d) == \E op \in Way :
    /\ <<d, op>> \in moving /\ ByLink(d)
    /\ moving' = moving \ {<<d, op>>} /\ settled' = settled \cup {d}
    /\ fate' = CarriedOut(d, op)
    /\ IF pending[d] = None
       THEN UNCHANGED <<call, pending, timed>>
       ELSE /\ call' = [call EXCEPT ![<<d, pending[d]>>] = Verdict(fate[d] = "locked")]
            /\ timed' = timed \ TimersOf(d)
            /\ pending' = [pending EXCEPT ![d] = None]
    /\ UNCHANGED <<options, wire, cloneOf, linkVars, credit, phase, via, locks, asked, faults>>

\* No answer in time: the promise rejects, and the entry of the delivery goes.
SettlementTimesOut(c) ==
    /\ c \in timed
    /\ timed' = timed \ {c} /\ call' = [call EXCEPT ![c] = "rejected"]
    /\ pending' = [pending EXCEPT ![c[1]] = None]
    /\ UNCHANGED <<options, broker, linkVars, credit, phase, via, locks, asked, moving,
                   settled, faults>>

\* updateDispositionStatus over the management link: it works while the lock is held.
ManagedSettlement(c) ==
    LET d == c[1] IN
    /\ call[c] = "managed"
    /\ \/ /\ fate[d] = "locked"
          /\ fate' = [fate EXCEPT ![d] = asked[c]]
          /\ call' = [call EXCEPT ![c] = "resolved"] /\ UNCHANGED faults
       \/ /\ (fate[d] # "locked" /\ UNCHANGED faults) \/ Fault
          /\ call' = [call EXCEPT ![c] = "rejected"] /\ UNCHANGED fate
    /\ UNCHANGED <<options, wire, cloneOf, linkVars, credit, phase, via, locks, asked, pending,
                   timed, moving, settled>>

-----------------------------------------------------------------------------
\* The link is gone, and with it the answers to the dispositions on their way, of
\* which the broker may have carried some out.  A link that the broker closes stops
\* all renewals, a connection that is lost leaves them.
LinkLost == \E done \in SUBSET moving :
    /\ up /\ Fault /\ up' = FALSE
    /\ moving' = {}
    /\ \A x, y \in done : x[1] = y[1] => x = y
    /\ \A x \in done : fate[x[1]] = "locked"
    /\ fate' = [d \in Copy |-> IF \E x \in done : x[1] = d
                              THEN (CHOOSE x \in done : x[1] = d)[2] ELSE fate[d]]
    /\ ClearedAll \/ UNCHANGED <<renewTimer, armed>>
    /\ UNCHANGED <<options, wire, cloneOf, link, closed, credit, phase, via, renewing,
                   call, asked, pending, timed, settled>>

\* onDetached: another link, with credit for as many messages as may be handled.
Reattach ==
    /\ ~up /\ ~closed
    /\ link' = link + 1 /\ up' = TRUE /\ credit' = MaxCalls
    /\ UNCHANGED <<options, broker, closed, phase, via, locks, calls, settled, faults>>

Close ==
    /\ ~closed /\ Fault /\ closed' = TRUE /\ up' = FALSE
    /\ ClearedAll /\ moving' = {}
    /\ UNCHANGED <<options, broker, link, credit, phase, via, renewing, call, asked,
                   pending, timed, settled>>

Next ==
    \/ \E m \in Post : Send(m)
    \/ \E d \in Copy :
        \/ SendRetry(d) \/ LockExpires(d) \/ Requeue(d) \/ Deliver(d)
        \/ RenewTimerFires(d) \/ Renewed(d) \/ RenewalFails(d)
        \/ HandlerSettles(d) \/ HandlerReturns(d) \/ HandlerThrows(d) \/ AfterSettlement(d)
        \/ OnSettled(d)
    \/ \E c \in Call : SettlementTimesOut(c) \/ ManagedSettlement(c)
    \/ LinkLost \/ Reattach \/ Close

Spec == Init /\ [][Next]_vars

-----------------------------------------------------------------------------
\* Type correctness.
TypeOK ==
    /\ peekLock \in BOOLEAN /\ autoComplete \in BOOLEAN
    /\ DOMAIN wire = Copy /\ cloneOf \in [Copy -> Copy]
    /\ fate \in [Copy -> {"none", "queued", "locked", "lost", "gone"} \cup Way]
    /\ link \in Nat \ {0} /\ up \in BOOLEAN /\ closed \in BOOLEAN
    /\ credit \in Nat /\ via \in [Copy -> Nat]
    /\ phase \in [Copy -> {"none", "handling", "completing", "abandoning", "done"}]
    /\ armed \cup renewing \subseteq Copy \X (0..(MaxRenewals - 1))
    /\ call \in [Call -> {"none", "waiting", "managed", "resolved", "rejected"}]
    /\ asked \in [Call -> {"none"} \cup Way]
    /\ pending \in [Copy -> Caller \cup {None}]
    /\ timed \subseteq Call /\ moving \subseteq Copy \X Way /\ settled \subseteq Copy
    /\ faults \in 0..MaxFaults

\* The copies whose handling still holds a credit.
Busy == {d \in Copy : phase[d] \in {"handling", "abandoning"}}

\* Another copy with the id of this one was delivered.
SharesId(d) == \E e \in Copy : e # d /\ phase[e] # "none" /\ Id(e) = Id(d)

(***************************************************************************)
(* No credit is lost or made up: until the link is replaced, the messages  *)
(* that may come and those in the hands of handlers are as many as         *)
(* maxConcurrentCalls, however a handler ends and whatever its settlement  *)
(* comes to.                                                               *)
(***************************************************************************)
CreditIsWhole == (up /\ link = 1) => credit + Cardinality(Busy) = MaxCalls

(***************************************************************************)
(* The lock of a message is renewed no longer than its handler runs, and   *)
(* not once its settlement went out, even when the handler ended while a   *)
(* renewal was on its way - provided no other message with its id came     *)
(* meanwhile.                                                              *)
(***************************************************************************)
RenewalStops ==
    \A t \in armed : \/ SharesId(t[1])
                     \/ phase[t[1]] = "handling" /\ <<t[1], "handler">> \notin timed

(***************************************************************************)
(* Messages that share an id share the entry of the map.  Even then no     *)
(* timer is set unless a handler of the id is running, so that one the map *)
(* has lost fires once more at most.                                       *)
(***************************************************************************)
SetForAHandler == \A t \in armed' \ armed : \E e \in Copy : phase'[e] = "handling" /\ Id(e) = Id(t[1])
RenewedForAHandler == [][SetForAHandler]_vars

(***************************************************************************)
(* A settlement that resolved was carried out: the broker settled the      *)
(* message, and in the way that was asked for unless the handler and the   *)
(* receiver both settled it.                                               *)
(***************************************************************************)
ResolvedIsSettled ==
    \A d \in Copy, w \in Caller : call[<<d, w>>] = "resolved" =>
        /\ fate[d] \in Way \cup {"gone"}
        /\ \/ \E x \in Caller \ {w} : call[<<d, x>>] # "none"
           \/ fate[d] = asked[<<d, w>>]
           \/ fate[d] = "gone" /\ asked[<<d, w>>] = "abandon"

(***************************************************************************)
(* No settlement is forgotten: as long as its promise is open there is a   *)
(* timer that will reject it, also when its entry in the map was           *)
(* overwritten by a second settlement of the message, or removed by the    *)
(* first one's timer.                                                      *)
(***************************************************************************)
NoneIsForgotten == \A c \in Call : call[c] = "waiting" => c \in timed

(***************************************************************************)
(* A message that is sent again, by a handler that retries or by the       *)
(* broker, says what it said at first: no field gets lost on the way       *)
(* through the conversions and the clone.                                  *)
(***************************************************************************)
RetriesSayTheSame ==
    \A d \in Copy : fate[d] = "queued" =>
        /\ SameButRetry(Received(d), Received(cloneOf[d]))
        /\ cloneOf[d] = d => \E m \in Post : SameButRetry(Received(d), m)

(***************************************************************************)
(* messageReceiver.ts:108-112 says that no more messages are received than *)
(* maxConcurrentCalls until a handler has completed.                       *)
(***************************************************************************)
CallsAreLimited == Cardinality({d \in Copy : phase[d] = "handling"}) <= MaxCalls

=============================================================================
