--------------------------- MODULE BatchingReceiver ---------------------------
(***************************************************************************)
(* Receiver.receiveMessages() over one entity's context                     *)
(* (atom-client/src: receiver.ts, core/batchingReceiver.ts, with             *)
(* core/messageReceiver.ts and clientEntityContext.ts under them): a batch   *)
(* takes messages from a link until it is full or its time is over, drains   *)
(* the credit it has left, and resolves.  A BatchingReceiver has one link in *)
(* its life; the call that creates it gives it its name here.                *)
(***************************************************************************)
EXTENDS Naturals, FiniteSets

CONSTANTS
    Calls,      \* bound: how many calls of receiveMessages() there are
    Msgs,       \* bound: how many messages the entity has
    Max,        \* maxMessageCount
    MaxFaults   \* bound: links and connections lost

ASSUME BatchOK == {Calls, Msgs, MaxFaults} \subseteq Nat /\ Max \in Nat \ {0}

Call == 1..Calls     \* in the order in which they are made
Msg  == 1..Msgs      \* in the order in which the broker sends them
NoReceiver == 0      \* no receiver

VARIABLES
    mode,       \* receiveMode
    apiClosed,  \* Receiver._isClosed
    ctx,        \* context.batchingReceiver
    batchLink,  \* batchLink[o]: the link of a BatchingReceiver
    on,         \* on[c]: the BatchingReceiver of a call
    busy,       \* the BatchingReceivers with isReceivingMessages
    phase,      \* phase[o]: what its listeners and timers wait for
    user,       \* user[o]: the call they work for
    credit,     \* credit[o]: the link's credit
    batch,      \* batch[c]: what receiveMessages() returned
    got,        \* got[c]: the messages collected
    sent,       \* how many messages the broker has sent
    lost,       \* the loss of the connection the context is not told of yet
    batchFaults

batchVars == <<mode, apiClosed, ctx, batchLink, on, busy, phase, user, credit, batch,
               got, sent, lost, batchFaults>>
workVars == <<busy, phase, credit, batch>>

BatchInit ==
    /\ mode \in {"peekLock", "receiveAndDelete"}
    /\ apiClosed = FALSE /\ ctx = NoReceiver /\ busy = {} /\ sent = 0
    /\ batchLink = [o \in Call |-> "none"] /\ phase = [o \in Call |-> "idle"]
    /\ on = [c \in Call |-> NoReceiver] /\ user = [o \in Call |-> NoReceiver]
    /\ credit = [o \in Call |-> 0] /\ batch = [c \in Call |-> "none"]
    /\ got = [c \in Call |-> {}] /\ lost = "no" /\ batchFaults = 0

BatchFault == batchFaults < MaxFaults /\ batchFaults' = batchFaults + 1
IsOpen(o) == o # NoReceiver /\ batchLink[o] = "open"

\* isReceivingMessages() of the Receiver: a link that is still being opened does
\* not count.
IsReceivingMessages == IsOpen(ctx) /\ ctx \in busy

\* The promise of a call settles once.
Settle(c, v) == [batch EXCEPT ![c] = IF @ = "pending" THEN v ELSE @]

-----------------------------------------------------------------------------
\* receiveMessages(): on the link there is, which gets more credit, or on a new
\* BatchingReceiver.
Receive(c) ==
    /\ batch[c] = "none" /\ \A d \in 1..(c - 1) : batch[d] # "none"
    /\ ~apiClosed /\ ~IsReceivingMessages
    /\ batch' = [batch EXCEPT ![c] = "pending"]
    /\ LET o == IF IsOpen(ctx) THEN ctx ELSE c IN
       /\ ctx' = o /\ on' = [on EXCEPT ![c] = o] /\ user' = [user EXCEPT ![o] = c]
       /\ busy' = busy \cup {o}
       /\ IF IsOpen(ctx)
          THEN /\ phase' = [phase EXCEPT ![o] = "collecting"]
               /\ credit' = [credit EXCEPT ![o] = @ + Max] /\ UNCHANGED batchLink
          ELSE /\ phase' = [phase EXCEPT ![o] = "connecting"]
               /\ batchLink' = [batchLink EXCEPT ![o] = "connecting"] /\ UNCHANGED credit
    /\ UNCHANGED <<mode, apiClosed, got, sent, lost, batchFaults>>

\* _init(): the context gets the receiver if it has none meanwhile.
Connected(o) ==
    /\ batchLink[o] = "connecting" /\ batchLink' = [batchLink EXCEPT ![o] = "open"]
    /\ ctx' = IF ctx = NoReceiver THEN o ELSE ctx
    /\ phase' = [phase EXCEPT ![o] = "collecting"]
    /\ credit' = [credit EXCEPT ![o] = Max]
    /\ UNCHANGED <<mode, apiClosed, on, busy, user, batch, got, sent, lost, batchFaults>>

ConnectFails(o) ==
    /\ batchLink[o] = "connecting" /\ batchLink' = [batchLink EXCEPT ![o] = "none"]
    /\ phase' = [phase EXCEPT ![o] = "idle"] /\ batch' = Settle(user[o], "rejected")
    /\ UNCHANGED <<mode, apiClosed, ctx, on, busy, user, credit, got, sent, lost, batchFaults>>

\* Mutant of StillBusy: the receiver is free when it begins to drain its link.
StillBusyNever(o, draining) == busy \ {o}

StillBusy(o, draining) == IF draining THEN busy ELSE busy \ {o}

\* finalAction(), with the messages collected, the credit left, and whether the
\* link was lost with an error: drain the credit, or settle the promise.
Finish(o, msgs, left, detached) ==
    LET fails  == detached /\ (mode = "peekLock" \/ msgs = {})
        drains == ~detached /\ left > 0 /\ batchLink[o] \in {"open", "down"}
    IN  /\ phase' = [phase EXCEPT ![o] = IF drains THEN "draining" ELSE "idle"]
        /\ busy' = StillBusy(o, drains)
        /\ credit' = [credit EXCEPT ![o] = IF drains THEN left + 1 ELSE left]
        /\ batch' = IF drains THEN batch
                      ELSE Settle(user[o], IF fails THEN "rejected" ELSE "resolved")

\* A message arrives.  A batch that is draining listens no more, and a message
\* that cannot be read rejects the batch, which goes on all the same.
Deliver(o) ==
    LET c == user[o]  left == credit[o] - 1  msgs == got[c] \cup {sent + 1} IN
    /\ batchLink[o] = "open" /\ credit[o] > 0 /\ sent < Msgs
    /\ sent' = sent + 1
    /\ \/ /\ phase[o] = "collecting" /\ got' = [got EXCEPT ![c] = msgs]
          /\ IF Cardinality(msgs) = Max THEN Finish(o, msgs, left, FALSE)
             ELSE credit' = [credit EXCEPT ![o] = left] /\ UNCHANGED <<busy, phase, batch>>
       \/ /\ phase[o] = "collecting" /\ batch' = Settle(c, "rejected")
          /\ credit' = [credit EXCEPT ![o] = left] /\ UNCHANGED <<busy, phase, got>>
       \/ /\ phase[o] # "collecting"
          /\ credit' = [credit EXCEPT ![o] = left] /\ UNCHANGED <<busy, phase, batch, got>>
    /\ UNCHANGED <<mode, apiClosed, ctx, batchLink, on, user, lost, batchFaults>>

\* Mutant of WaitOver: the time is over only for a batch that has a message.
WaitOverSome(o) == phase[o] = "collecting" /\ got[user[o]] # {}

\* The total wait time is over, or in peekLock mode that for the next message.
WaitOver(o) == phase[o] = "collecting"

TimerFires(o) ==
    /\ WaitOver(o) /\ Finish(o, got[user[o]], credit[o], FALSE)
    /\ UNCHANGED <<mode, apiClosed, ctx, batchLink, on, user, got, sent, lost, batchFaults>>

\* The broker has taken back the credit.
Drained(o) ==
    /\ phase[o] = "draining" /\ batchLink[o] = "open"
    /\ phase' = [phase EXCEPT ![o] = "idle"] /\ busy' = busy \ {o}
    /\ credit' = [credit EXCEPT ![o] = 0] /\ batch' = Settle(user[o], "resolved")
    /\ UNCHANGED <<mode, apiClosed, ctx, batchLink, on, user, got, sent, lost, batchFaults>>

-----------------------------------------------------------------------------
\* The broker closes the link or its session.  An error rejects the batch that
\* collects; without one, and when it drains, it is only marked as not receiving.
BrokerDetaches(o) == \E error \in BOOLEAN :
    /\ BatchFault /\ batchLink[o] = "open"
    /\ batchLink' = [batchLink EXCEPT ![o] = "down"] /\ busy' = busy \ {o}
    /\ IF error /\ phase[o] = "collecting"
       THEN phase' = [phase EXCEPT ![o] = "idle"] /\ batch' = Settle(user[o], "rejected")
       ELSE UNCHANGED <<phase, batch>>
    /\ UNCHANGED <<mode, apiClosed, ctx, on, user, credit, got, sent, lost>>

\* The connection is lost, with an error or without.
ConnectionLost(e) ==
    /\ BatchFault /\ lost = "no" /\ lost' = e
    /\ batchLink' = [o \in Call |-> IF batchLink[o] = "open" THEN "down" ELSE batchLink[o]]
    /\ UNCHANGED <<mode, apiClosed, ctx, on, user, got, sent, workVars>>

\* The context hears of it after a delay, and with it the receiver it knows, which
\* closes its link, a new one too, and ends the batch that collects.
ContextTold ==
    /\ lost # "no" /\ lost' = "no"
    /\ IF ctx = NoReceiver \/ (ctx # NoReceiver /\ batchLink[ctx] \in {"connecting", "none"})
       THEN UNCHANGED <<batchLink, workVars>>
       ELSE /\ batchLink' = [batchLink EXCEPT ![ctx] = "down"]
            /\ IF ctx \in busy /\ phase[ctx] = "collecting"
               THEN Finish(ctx, got[user[ctx]], credit[ctx], lost = "error")
               ELSE UNCHANGED workVars
    /\ UNCHANGED <<mode, apiClosed, ctx, on, user, got, sent, batchFaults>>

\* close() of the Receiver: the link goes, and the batch is left to its timer.  On
\* a connection that is not open nothing is closed.
CloseReceiver ==
    /\ ~apiClosed /\ apiClosed' = TRUE
    /\ \/ /\ ctx # NoReceiver /\ batchLink[ctx] \in {"open", "down"}
          /\ batchLink' = [batchLink EXCEPT ![ctx] = "gone"] /\ ctx' = NoReceiver
       \/ /\ ctx = NoReceiver \/ (ctx # NoReceiver /\ batchLink[ctx] # "open")
          /\ UNCHANGED <<batchLink, ctx>>
    /\ UNCHANGED <<mode, on, user, got, sent, lost, batchFaults, workVars>>

\* A Receiver that is closed makes room for another one.
CreateReceiver ==
    /\ apiClosed /\ apiClosed' = FALSE
    /\ UNCHANGED <<mode, ctx, batchLink, on, user, got, sent, lost, batchFaults, workVars>>

-----------------------------------------------------------------------------
Answered(o) == Connected(o) \/ ConnectFails(o)

BatchNext ==
    \/ \E o \in Call :
          \/ Receive(o) \/ Answered(o) \/ TimerFires(o) \/ Drained(o) \/ BrokerDetaches(o)
          \/ Deliver(o)
    \/ \E e \in {"error", "silent"} : ConnectionLost(e)
    \/ ContextTold \/ CloseReceiver \/ CreateReceiver

\* Timers fire, a link that is asked for is opened or refused, and the broker
\* answers a request to drain.
BatchFairness ==
    /\ WF_batchVars(ContextTold)
    /\ \A o \in Call : /\ WF_batchVars(Answered(o))
                        /\ WF_batchVars(TimerFires(o)) /\ WF_batchVars(Drained(o))

BatchSpec == BatchInit /\ [][BatchNext]_batchVars /\ BatchFairness

-----------------------------------------------------------------------------
(* Properties *)

\* Every variable keeps its type; a batch never collects more than its maximum.
BatchTypeOK ==
    /\ mode \in {"peekLock", "receiveAndDelete"} /\ apiClosed \in BOOLEAN
    /\ ctx \in Call \cup {NoReceiver} /\ busy \subseteq Call /\ sent \in 0..Msgs
    /\ batchLink \in [Call -> {"none", "connecting", "open", "down", "gone"}]
    /\ phase \in [Call -> {"idle", "connecting", "collecting", "draining"}]
    /\ on \in [Call -> Call \cup {NoReceiver}] /\ user \in [Call -> Call \cup {NoReceiver}]
    /\ credit \in [Call -> 0..(Max + 1)]
    /\ batch \in [Call -> {"none", "pending", "resolved", "rejected"}]
    /\ got \in [Call -> SUBSET Msg] /\ \A c \in Call : Cardinality(got[c]) <= Max
    /\ lost \in {"no", "error", "silent"} /\ batchFaults \in 0..MaxFaults

\* Two calls never share a link: a batch that drains keeps its link until the
\* broker has answered, or the answer, and the messages that come before it,
\* would be taken for those of the next one (receiver.ts 341-353 with
\* batchingReceiver.ts 85-177 and 230-246).
BatchesApart ==
    \A c, d \in Call : c # d /\ batch[c] = "pending" /\ batch[d] = "pending" => on[c] # on[d]

\* The link of a batch was lost, or closed while it drains: nobody answers.
Severed(o) == batchLink[o] = "down" \/ (batchLink[o] = "gone" /\ phase[o] = "draining")

\* A batch whose link stays open returns, and so does one that is closed while it
\* collects, by the timer that close() leaves alone (lines 371-401 and 118-177).
BatchReturns ==
    \A c \in Call : batch[c] = "pending" ~> batch[c] # "pending" \/ Severed(on[c])

-----------------------------------------------------------------------------
(* Claims of the comments *)

\* "we should return those messages to the user because they have already been
\* removed from service bus": batchingReceiver.ts, line 135, of what was removed.
RemovedAreReturned ==
    mode = "receiveAndDelete" =>
        \A m \in 1..sent : \E c \in Call : m \in got[c] /\ batch[c] # "rejected"

\* "Throws an error if there is another receive operation in progress on the same
\* receiver": receiver.ts, line 157.
OneReceive ==
    \A c, d \in Call : c # d /\ batch[c] = "pending" /\ batch[d] = "pending" =>
        Severed(on[c]) \/ Severed(on[d])
=============================================================================
