---------------------------- MODULE MessageSender ----------------------------
(***************************************************************************)
(* Sending over one entity's context (atom-client/src: sender.ts and       *)
(* core/messageSender.ts, with core/linkEntity.ts, clientEntityContext.ts   *)
(* and connectionContext.ts under them): sends, retries and reconnections   *)
(* share the link of a MessageSender and open it under a lock.             *)
(***************************************************************************)
EXTENDS Naturals, FiniteSets

CONSTANTS
    Msg,            \* messages the application sends
    MSender,        \* MessageSender objects
    Api,            \* Sender objects, which wrap the MessageSender of the context
    None,           \* no sender, no opener
    ApiOf(_),       \* the Sender a message is sent with
    MaxAttempts,    \* attempts of retry(), of a send or a reconnection
    MaxFaults       \* bound: links and connections that are lost

\* Who may open the link of a sender: a send, the handler of its link's
\* detachment, and the handler of a lost connection.
Detacher == {"link", "context"}
Opener   == Msg \cup (Detacher \X MSender)

ASSUME SenderOK ==
    /\ None \notin Opener \cup MSender /\ Msg \cap (Detacher \X MSender) = {}
    /\ MaxAttempts \in Nat \ {0} /\ MaxFaults \in Nat

VARIABLES
    known,      \* context.sender
    apiClosed,  \* the Senders with _isClosed
    current,    \* current[s]: the number of the link in s._sender, 0 if undefined
    links,      \* links[s]: how many links s has created
    open,       \* the links <<s, n>> that are open
    lock,       \* lock[s]: who holds openLock
    connecting, \* the senders with isConnecting
    step,       \* step[x]: what an opener does
    tries,      \* tries[x]: its attempts so far
    owner,      \* owner[m]: the MessageSender a send goes to
    via,        \* via[m]: the link whose events the send listens to
    inFlight,   \* deliveries <<m, link>> the broker has not settled
    stored,     \* the messages the broker accepted
    lost,       \* the connection was lost, and the context not told yet
    faults

vars == <<known, apiClosed, current, links, open, lock, connecting, step, tries,
          owner, via, inFlight, stored, lost, faults>>
linkVars == <<known, apiClosed, current, links, open, lost, faults>>
wireVars == <<owner, via, inFlight, stored>>

Step == {"idle", "opening", "locked", "opened", "waiting", "sent", "resolved", "rejected"}

IsOpen(s)   == <<s, current[s]>> \in open
SenderOf(x) == IF x \in Msg THEN owner[x] ELSE x[2]
GoTo(x, p)  == step' = [step EXCEPT ![x] = p]
Fault       == faults < MaxFaults /\ faults' = faults + 1

Init ==
    /\ known = None /\ apiClosed = {} /\ open = {} /\ connecting = {}
    /\ current = [s \in MSender |-> 0] /\ links = [s \in MSender |-> 0]
    /\ lock = [s \in MSender |-> None]
    /\ step = [x \in Opener |-> "idle"] /\ tries = [x \in Opener |-> 0]
    /\ owner = [m \in Msg |-> None] /\ via = [m \in Msg |-> <<None, 0>>]
    /\ inFlight = {} /\ stored = {} /\ lost = FALSE /\ faults = 0

-----------------------------------------------------------------------------
\* send(): on the MessageSender of the context, which is created if there is none.
Send(m) == \E s \in MSender :
    /\ step[m] = "idle" /\ ApiOf(m) \notin apiClosed
    /\ IF known # None THEN s = known ELSE links[s] = 0 /\ \A n \in Msg : owner[n] # s
    /\ known' = s /\ owner' = [owner EXCEPT ![m] = s]
    /\ GoTo(m, "opening") /\ tries' = [tries EXCEPT ![m] = 1]
    /\ UNCHANGED <<apiClosed, current, links, open, lock, connecting, via, inFlight,
                   stored, lost, faults>>

\* What an opener does with an open link: a reconnection is over.
AfterOpen(x) == IF x \in Msg THEN "opened" ELSE "idle"

\* Mutant of MustOpen: whoever gets the lock opens a link, without a second look.
MustOpenAlways(s) == TRUE

\* The second look at isOpen(), under the lock.
MustOpen(s) == ~IsOpen(s)

\* open(): with an open link there is nothing to do, else it waits for the lock.
Open(x) ==
    LET s == SenderOf(x) IN
    /\ step[x] = "opening" /\ IsOpen(s)
    /\ GoTo(x, AfterOpen(x))
    /\ UNCHANGED <<linkVars, wireVars, lock, connecting, tries>>

\* ... and holds it while the claim is negotiated and the link created.  The
\* first look, at the isOpen() of before the wait, may be out of date.
Lock(x) ==
    LET s == SenderOf(x) IN
    /\ step[x] = "opening" /\ lock[s] = None
    /\ IF MustOpen(s)
       THEN /\ lock' = [lock EXCEPT ![s] = x] /\ connecting' = connecting \cup {s}
            /\ GoTo(x, "locked")
       ELSE GoTo(x, AfterOpen(x)) /\ UNCHANGED <<lock, connecting>>
    /\ UNCHANGED <<linkVars, wireVars, tries>>

\* Mutant of Connected: the flag of a connected sender stays set.
ConnectedStill(s) == connecting

\* isConnecting = false, once there is a link.
Connected(s) == connecting \ {s}

OpenSucceeds(x) ==
    LET s == SenderOf(x)  n == links[s] + 1 IN
    /\ step[x] = "locked"
    /\ links' = [links EXCEPT ![s] = n] /\ current' = [current EXCEPT ![s] = n]
    /\ open' = open \cup {<<s, n>>} /\ connecting' = Connected(s)
    /\ lock' = [lock EXCEPT ![s] = None] /\ GoTo(x, AfterOpen(x))
    /\ UNCHANGED <<known, apiClosed, tries, wireVars, lost, faults>>

\* retry(): after a retryable error there is another attempt, while there are any.
Again(x, retryable) ==
    LET more == retryable /\ tries[x] < MaxAttempts IN
    /\ tries' = IF more THEN [tries EXCEPT ![x] = @ + 1] ELSE tries
    /\ GoTo(x, IF more THEN "opening" ELSE IF x \in Msg THEN "rejected" ELSE "idle")

\* The lock is given back, isConnecting is not.
OpenFails(x) == \E retryable \in BOOLEAN :
    /\ step[x] = "locked"
    /\ lock' = [lock EXCEPT ![SenderOf(x)] = None]
    /\ Again(x, retryable)
    /\ UNCHANGED <<linkVars, wireVars, connecting>>

-----------------------------------------------------------------------------
\* The message goes out on the link, and the send listens to that link's events.
Transmit(m) ==
    LET s == owner[m]  l == <<s, current[s]>> IN
    /\ step[m] \in {"opened", "waiting"} /\ IsOpen(s)
    /\ GoTo(m, "sent") /\ via' = [via EXCEPT ![m] = l]
    /\ inFlight' = inFlight \cup {<<m, l>>}
    /\ UNCHANGED <<linkVars, lock, connecting, tries, owner, stored>>

\* Without credit the send waits a second.
Wait(m) ==
    /\ step[m] = "opened" /\ current[owner[m]] # 0 /\ GoTo(m, "waiting")
    /\ UNCHANGED <<linkVars, wireVars, lock, connecting, tries>>

\* Then it fails: the sender is busy or its link lost, which is retried, or it
\* was closed, and there is no link to ask.
CannotSend(m) ==
    /\ step[m] = "waiting" \/ (step[m] = "opened" /\ current[owner[m]] = 0)
    /\ Again(m, current[owner[m]] # 0)
    /\ UNCHANGED <<linkVars, wireVars, lock, connecting>>

\* The sends that hear an event of a link: all that listen to it.
Hearing(l) == {m \in Msg : step[m] = "sent" /\ via[m] = l}

\* The broker accepts a delivery.
Accepted(m, l) ==
    /\ <<m, l>> \in inFlight /\ l \in open
    /\ stored' = stored \cup {m} /\ inFlight' = inFlight \ {<<m, l>>}
    /\ step' = [x \in Opener |-> IF x \in Hearing(l) THEN "resolved" ELSE step[x]]
    /\ UNCHANGED <<linkVars, lock, connecting, tries, owner, via>>

\* The broker rejects, releases or modifies a delivery.
Refused(m, l) == \E retryable \in BOOLEAN :
    LET More(x) == retryable /\ tries[x] < MaxAttempts IN
    /\ <<m, l>> \in inFlight /\ l \in open
    /\ inFlight' = inFlight \ {<<m, l>>}
    /\ tries' = [x \in Opener |-> IF x \in Hearing(l) /\ More(x) THEN tries[x] + 1 ELSE tries[x]]
    /\ step' = [x \in Opener |-> IF x \notin Hearing(l) THEN step[x]
                               ELSE IF More(x) THEN "opening" ELSE "rejected"]
    /\ UNCHANGED <<linkVars, lock, connecting, owner, via, stored>>

\* Mutant of SendTimesOut: there is no timer.
SendTimesOutNever(m) == FALSE

\* No event in time: the link may be gone.
SendTimesOut(m) ==
    /\ step[m] = "sent" /\ Again(m, TRUE)
    /\ UNCHANGED <<linkVars, wireVars, lock, connecting>>

-----------------------------------------------------------------------------
\* onDetached(): the link is closed; unless the error is final, it is opened again.
Reopen(x) == \E retryable \in BOOLEAN :
    /\ step[x] = "idle"
    /\ GoTo(x, IF retryable THEN "opening" ELSE "idle")
    /\ tries' = [tries EXCEPT ![x] = 1]

\* The broker detaches the link; while the sender is connecting that is ignored.
Detached(s) ==
    /\ Fault /\ IsOpen(s) /\ open' = open \ {<<s, current[s]>>}
    /\ IF s \in connecting THEN UNCHANGED <<step, tries>> ELSE Reopen(<<"link", s>>)
    /\ UNCHANGED <<known, apiClosed, current, links, lock, connecting, wireVars, lost>>

Disconnected ==
    /\ Fault /\ ~lost /\ lost' = TRUE /\ open' = {}
    /\ UNCHANGED <<known, apiClosed, current, links, lock, connecting, step, tries, wireVars>>

\* The context hears of it after a delay.  It closes whatever link its sender
\* has by then, and opens another one.
ContextDetached ==
    /\ lost /\ lost' = FALSE
    /\ IF known = None \/ known \in connecting THEN UNCHANGED <<open, step, tries>>
       ELSE open' = open \ {<<known, current[known]>>} /\ Reopen(<<"context", known>>)
    /\ UNCHANGED <<known, apiClosed, current, links, lock, connecting, wireVars, faults>>

\* close() of a Sender, and of the context: the link goes if there is one, and
\* the context forgets its sender.
CloseSender(a) ==
    /\ a \notin apiClosed /\ apiClosed' = apiClosed \cup {a}
    /\ IF known = None \/ current[known] = 0 THEN UNCHANGED <<known, current, open>>
       ELSE /\ open' = open \ {<<known, current[known]>>}
            /\ current' = [current EXCEPT ![known] = 0] /\ known' = None
    /\ UNCHANGED <<links, lock, connecting, step, tries, wireVars, lost, faults>>

-----------------------------------------------------------------------------
OpenerStep(x) == Open(x) \/ Lock(x) \/ OpenSucceeds(x) \/ OpenFails(x)
SendStep(m)   == Transmit(m) \/ Wait(m) \/ CannotSend(m) \/ SendTimesOut(m)

Next ==
    \/ \E x \in Opener : OpenerStep(x)
    \/ \E m \in Msg : Send(m) \/ SendStep(m)
    \/ \E d \in inFlight : Accepted(d[1], d[2]) \/ Refused(d[1], d[2])
    \/ \E s \in MSender : Detached(s)
    \/ \E a \in Api : CloseSender(a)
    \/ Disconnected \/ ContextDetached

\* Timers fire, the lock goes round, and an attempt to open a link ends.
Fairness ==
    /\ \A x \in Opener : WF_vars(OpenerStep(x))
    /\ \A m \in Msg : WF_vars(SendStep(m))

Spec == Init /\ [][Next]_vars /\ Fairness

-----------------------------------------------------------------------------
TypeOK ==
    /\ known \in MSender \cup {None} /\ apiClosed \subseteq Api
    /\ current \in [MSender -> Nat] /\ links \in [MSender -> Nat]
    /\ open \subseteq MSender \X Nat /\ lock \in [MSender -> Opener \cup {None}]
    /\ connecting \subseteq MSender /\ step \in [Opener -> Step]
    /\ tries \in [Opener -> 0..MaxAttempts]
    /\ owner \in [Msg -> MSender \cup {None}]
    /\ via \in [Msg -> (MSender \cup {None}) \X Nat]
    /\ inFlight \subseteq Msg \X ((MSender \cup {None}) \X Nat)
    /\ stored \subseteq Msg /\ lost \in BOOLEAN /\ faults \in 0..MaxFaults

\* However many sends and reconnections open the link of a sender, and close it
\* and lose it meanwhile, the sender has one open link, the one in _sender: a
\* second one would stay open for ever.
OneLink == \A l \in open : l[2] = current[l[1]]

\* A sender that has an open link is not marked as connecting, so that the loss
\* of the link is not ignored.
OpenIsWatched == \A s \in MSender : IsOpen(s) => s \notin connecting

\* Every send settles, whatever happens to the links.
SendsSettle == \A m \in Msg : step[m] = "opening" ~> step[m] \in {"resolved", "rejected"}

\* A send resolves only if its message was accepted.
ResolvedIsStored == \A m \in Msg : step[m] = "resolved" => m \in stored

\* The context knows the sender whose link is open.
OpenIsKnown == \A l \in open : known = l[1]
=============================================================================
