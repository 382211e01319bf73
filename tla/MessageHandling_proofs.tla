------------------------ MODULE MessageHandling_proofs ------------------------
(* Proofs about MessageHandling, for any number of copies, messages, calls,
   renewals and faults: credit, renewals, and settlements that end. *)
EXTENDS MessageHandling, FiniteSetTheorems, TLAPS

\* What the proof needs to know of the state.  CopiesInv: a copy keeps its message
\* once it is in the queue, and is handled after that.  TimersInv: an entry of the
\* map stands for a handler that is running and has not settled its message over
\* the link; a timer without an entry has lost it to another message of its id.
CopiesInv ==
    /\ DOMAIN wire = Copy
    /\ fate \in [Copy -> {"none", "queued", "locked", "lost", "gone"} \cup Way]
    /\ phase \in [Copy -> {"none", "handling", "completing", "abandoning", "done"}]
    /\ pending \in [Copy -> Caller \cup {None}]
    /\ moving \subseteq Copy \X Way
    /\ asked \in [Call -> {"none"} \cup Way]
    /\ \A c \in Call : call[c] = "managed" => asked[c] \in Way
    /\ DOMAIN call = Call
    /\ \A d \in Copy : fate[d] = "none" => phase[d] = "none"
    /\ \A d \in Copy : fate[d] = "queued" => phase[d] = "none"

Stands(x) == \E e \in Copy :
    phase[e] = "handling" /\ Id(e) = x[1] /\ <<e, "handler">> \notin timed

TimersInv ==
    /\ \A t \in armed \cup renewing : t[1] \in Copy /\ phase[t[1]] # "none"
    /\ \A c \in timed : c[1] \in Copy /\ phase[c[1]] # "none"
    /\ \A x \in renewTimer : Stands(x)
    /\ \A t \in armed : SharesId(t[1]) \/ <<Id(t[1]), t[1]>> \in renewTimer

CreditInv ==
    /\ credit \in Nat /\ link \in Nat \ {0}
    /\ up => ~closed
    /\ CreditIsWhole

IInv == CopiesInv /\ TimersInv /\ CreditInv /\ NoneIsForgotten

-----------------------------------------------------------------------------
LEMMA WayIs == Way \subseteq {"complete", "abandon", "defer", "deadletter"}
  BY HandlingOK DEF Way

LEMMA InitHolds == Init => IInv
<1> SUFFICES ASSUME Init PROVE IInv
  OBVIOUS
<1> USE HandlingOK DEF Init
<1>1. CopiesInv
  BY DEF CopiesInv, Way, Caller
<1>2. TimersInv
  BY DEF TimersInv
<1>3. NoneIsForgotten
  BY DEF NoneIsForgotten
<1>4. Busy = {}
  BY DEF Busy
<1>5. CreditInv
  BY <1>4, FS_EmptySet DEF CreditInv, CreditIsWhole
<1> QED
  BY <1>1, <1>2, <1>3, <1>5 DEF IInv

\* Where settle() leaves the copies and the promises.
LEMMA SettleEnds ==
    ASSUME CopiesInv, NoneIsForgotten, NEW d \in Copy, NEW w \in Caller, NEW op \in Way,
           Settle(<<d, w>>, op)
    PROVE  /\ pending' \in [Copy -> Caller \cup {None}] /\ moving' \subseteq Copy \X Way
           /\ asked' \in [Call -> {"none"} \cup Way] /\ DOMAIN call' = Call
           /\ \A c \in Call : call'[c] = "managed" => asked'[c] \in Way
           /\ \A c \in Call : call'[c] = "waiting" => c \in timed'
           /\ timed' = timed \/ timed' = timed \cup {<<d, w>>}
           /\ timed' # timed => d \notin settled /\ peekLock /\ ByLink(d)
<1>1. <<d, w>> \in Call /\ <<d, w>>[1] = d /\ <<d, w>>[2] = w
  BY DEF Call
<1>2. CASE d \in settled \/ ~peekLock
  BY <1>1, <1>2 DEF Settle, CopiesInv, NoneIsForgotten
<1>3. CASE ~(d \in settled \/ ~peekLock) /\ ByLink(d)
  BY <1>1, <1>3 DEF Settle, CopiesInv, NoneIsForgotten
<1>4. CASE ~(d \in settled \/ ~peekLock) /\ ~ByLink(d)
  BY <1>1, <1>4 DEF Settle, CopiesInv, NoneIsForgotten
<1> QED
  BY <1>2, <1>3, <1>4

-----------------------------------------------------------------------------
\* A step that puts a copy into the queue.
LEMMA EnqueueEnds ==
    ASSUME CopiesInv, NEW d \in Copy, NEW w, NEW from \in Copy, Enqueue(d, w, from)
    PROVE  /\ DOMAIN wire' = Copy
           /\ fate[d] = "none" /\ phase[d] = "none"
           /\ \A e \in Copy : e # d => wire'[e] = wire[e]
  BY DEF Enqueue, CopiesInv

\* What a link that is lost leaves of the copies.
LEMMA LinkLostEnds ==
    ASSUME CopiesInv, LinkLost, NEW d \in Copy
    PROVE  \/ fate'[d] = fate[d]
           \/ fate[d] = "locked" /\ fate'[d] \in Way /\ <<d, fate'[d]>> \in moving
<1>1. PICK done \in SUBSET moving :
         /\ \A x \in done : fate[x[1]] = "locked"
         /\ fate' = [e \in Copy |-> IF \E x \in done : x[1] = e
                                  THEN (CHOOSE x \in done : x[1] = e)[2] ELSE fate[e]]
  BY DEF LinkLost
<1>2. CASE \E x \in done : x[1] = d
  <2> DEFINE y == CHOOSE x \in done : x[1] = d
  <2>1. y \in done /\ y[1] = d
    BY <1>2
  <2>2. y[2] \in Way /\ y = <<d, y[2]>>
    BY <1>1, <2>1 DEF CopiesInv
  <2>3. fate'[d] = y[2]
    BY <1>1, <1>2
  <2> HIDE DEF y
  <2> QED
    BY <1>1, <2>1, <2>2, <2>3
<1>3. CASE ~ \E x \in done : x[1] = d
  BY <1>1, <1>3
<1> QED
  BY <1>2, <1>3

LEMMA CopiesNext == IInv /\ [Next]_vars => CopiesInv'
<1> SUFFICES ASSUME IInv, [Next]_vars PROVE CopiesInv'
  OBVIOUS
<1> USE DEF IInv, options, broker, linkVars, locks, calls
<1>1. ASSUME NEW m \in Post, Send(m) PROVE CopiesInv'
  <2>1. PICK d \in Copy : /\ Enqueue(d, ToAmqp(m), d)
                          /\ fate' = [fate EXCEPT ![d] = "queued"]
    BY <1>1 DEF Send
  <2>2. DOMAIN wire' = Copy /\ phase[d] = "none"
    BY <2>1, EnqueueEnds
  <2> QED
    BY <1>1, <2>1, <2>2 DEF Send, CopiesInv
<1>2. ASSUME NEW d \in Copy, SendRetry(d) PROVE CopiesInv'
  <2>1. PICK e \in Copy : /\ Enqueue(e, ToAmqp(BackoffClone(Received(d))), d)
                          /\ fate' = [fate EXCEPT ![e] = "queued"]
    BY <1>2 DEF SendRetry
  <2>2. DOMAIN wire' = Copy /\ phase[e] = "none"
    BY <2>1, EnqueueEnds
  <2> QED
    BY <1>2, <2>1, <2>2 DEF SendRetry, CopiesInv
<1>3. ASSUME NEW d \in Copy, LockExpires(d) PROVE CopiesInv'
  BY <1>3 DEF LockExpires, CopiesInv
<1>4. ASSUME NEW d \in Copy, Requeue(d) PROVE CopiesInv'
  <2>1. PICK e \in Copy : /\ Enqueue(e, wire[d], d)
                          /\ fate' = [fate EXCEPT ![e] = "queued", ![d] = "gone"]
    BY <1>4 DEF Requeue
  <2>2. DOMAIN wire' = Copy /\ phase[e] = "none"
    BY <2>1, EnqueueEnds
  <2> QED
    BY <1>4, <2>1, <2>2 DEF Requeue, CopiesInv
<1>5. ASSUME NEW d \in Copy, Deliver(d) PROVE CopiesInv'
  <2>1. \/ fate' = [fate EXCEPT ![d] = "locked"]
        \/ fate' = [fate EXCEPT ![d] = "complete"]
    BY <1>5 DEF Deliver
  <2> QED
    BY <1>5, <2>1 DEF Deliver, CopiesInv, Way
<1>6. ASSUME NEW d \in Copy, RenewTimerFires(d) \/ Renewed(d) \/ RenewalFails(d) PROVE CopiesInv'
  BY <1>6 DEF RenewTimerFires, Renewed, RenewalFails, CopiesInv
<1>7. ASSUME NEW d \in Copy, HandlerSettles(d) PROVE CopiesInv'
  <2>1. PICK op \in Op : Settle(<<d, "handler">>, op)
    BY <1>7 DEF HandlerSettles
  <2>2. op \in Way /\ "handler" \in Caller
    BY DEF Way, Caller
  <2>3. /\ pending' \in [Copy -> Caller \cup {None}] /\ moving' \subseteq Copy \X Way
        /\ asked' \in [Call -> {"none"} \cup Way] /\ DOMAIN call' = Call
        /\ \A c \in Call : call'[c] = "managed" => asked'[c] \in Way
    BY <2>1, <2>2, SettleEnds
  <2> QED
    BY <1>7, <2>3 DEF HandlerSettles, CopiesInv
<1>8. ASSUME NEW d \in Copy, HandlerReturns(d) PROVE CopiesInv'
  <2>1. CASE autoComplete /\ peekLock /\ d \notin settled
    <3>1. /\ Settle(<<d, "receiver">>, "complete")
          /\ phase' = [phase EXCEPT ![d] = "completing"]
      BY <1>8, <2>1 DEF HandlerReturns
    <3>2. "complete" \in Way /\ "receiver" \in Caller
      BY DEF Way, Caller
    <3>3. /\ pending' \in [Copy -> Caller \cup {None}] /\ moving' \subseteq Copy \X Way
          /\ asked' \in [Call -> {"none"} \cup Way] /\ DOMAIN call' = Call
          /\ \A c \in Call : call'[c] = "managed" => asked'[c] \in Way
      BY <3>1, <3>2, SettleEnds
    <3> QED
      BY <1>8, <3>1, <3>3 DEF HandlerReturns, CopiesInv
  <2>2. CASE ~(autoComplete /\ peekLock /\ d \notin settled)
    BY <1>8, <2>2 DEF HandlerReturns, CopiesInv
  <2> QED
    BY <2>1, <2>2
<1>9. ASSUME NEW d \in Copy, HandlerThrows(d) PROVE CopiesInv'
  <2>1. CASE phase' = [phase EXCEPT ![d] = "abandoning"] /\ Settle(<<d, "receiver">>, "abandon")
    <3>2. "abandon" \in Way /\ "receiver" \in Caller
      BY DEF Way, Caller
    <3>3. /\ pending' \in [Copy -> Caller \cup {None}] /\ moving' \subseteq Copy \X Way
          /\ asked' \in [Call -> {"none"} \cup Way] /\ DOMAIN call' = Call
          /\ \A c \in Call : call'[c] = "managed" => asked'[c] \in Way
      BY <2>1, <3>2, SettleEnds
    <3> QED
      BY <1>9, <2>1, <3>3 DEF HandlerThrows, CopiesInv
  <2>2. CASE phase' = [phase EXCEPT ![d] = "done"] /\ UNCHANGED calls
    BY <1>9, <2>2 DEF HandlerThrows, CopiesInv
  <2> QED
    BY <1>9, <2>1, <2>2 DEF HandlerThrows
<1>10. ASSUME NEW d \in Copy, AfterSettlement(d) PROVE CopiesInv'
  BY <1>10 DEF AfterSettlement, CopiesInv
<1>11. ASSUME NEW d \in Copy, OnSettled(d) PROVE CopiesInv'
  <2>1. PICK op \in Way : fate' = CarriedOut(d, op) /\ moving' = moving \ {<<d, op>>}
    BY <1>11 DEF OnSettled
  <2>2. /\ fate' \in [Copy -> {"none", "queued", "locked", "lost", "gone"} \cup Way]
        /\ \A e \in Copy : fate'[e] \in {"none", "queued"} => fate'[e] = fate[e]
    BY <2>1, WayIs DEF CarriedOut, CopiesInv
  <2>3. /\ pending' \in [Copy -> Caller \cup {None}] /\ DOMAIN call' = Call
        /\ \A c \in Call : call'[c] = "managed" => call[c] = "managed"
    <3>1. CASE pending[d] = None
      BY <1>11, <3>1 DEF OnSettled, CopiesInv
    <3>2. CASE pending[d] # None
      BY <1>11, <3>2 DEF OnSettled, CopiesInv, Verdict
    <3> QED
      BY <3>1, <3>2
  <2> QED
    BY <1>11, <2>1, <2>2, <2>3 DEF OnSettled, CopiesInv
<1>12. ASSUME NEW c \in Call, SettlementTimesOut(c) PROVE CopiesInv'
  BY <1>12 DEF SettlementTimesOut, CopiesInv
<1>13. ASSUME NEW c \in Call, ManagedSettlement(c) PROVE CopiesInv'
  <2>1. c[1] \in Copy /\ asked[c] \in Way
    BY <1>13 DEF ManagedSettlement, CopiesInv, Call
  <2>2. /\ fate' \in [Copy -> {"none", "queued", "locked", "lost", "gone"} \cup Way]
        /\ \A e \in Copy : fate'[e] \in {"none", "queued"} => fate'[e] = fate[e]
    BY <1>13, <2>1, WayIs DEF ManagedSettlement, CopiesInv
  <2>3. DOMAIN call' = Call /\ \A x \in Call : call'[x] = "managed" => call[x] = "managed"
    BY <1>13 DEF ManagedSettlement, CopiesInv
  <2> QED
    BY <1>13, <2>2, <2>3 DEF ManagedSettlement, CopiesInv
<1>14. CASE LinkLost
  <2>2. ASSUME NEW d \in Copy
        PROVE  /\ fate'[d] \in {"none", "queued", "locked", "lost", "gone"} \cup Way
               /\ fate'[d] \in {"none", "queued"} => fate'[d] = fate[d]
    BY <1>14, LinkLostEnds, WayIs DEF CopiesInv
  <2>3. fate' \in [Copy -> {"none", "queued", "locked", "lost", "gone"} \cup Way]
    <3>1. fate' = [d \in Copy |-> fate'[d]]
      BY <1>14 DEF LinkLost
    <3> QED
      BY <2>2, <3>1
  <2> QED
    BY <1>14, <2>2, <2>3 DEF LinkLost, CopiesInv
<1>15. CASE Reattach \/ Close
  BY <1>15 DEF Reattach, Close, CopiesInv
<1>16. CASE UNCHANGED vars
  BY <1>16 DEF vars, CopiesInv
<1> QED
  BY <1>1, <1>2, <1>3, <1>4, <1>5, <1>6, <1>7, <1>8, <1>9, <1>10, <1>11, <1>12, <1>13, <1>14,
     <1>15, <1>16 DEF Next

-----------------------------------------------------------------------------
LEMMA ForgottenNext == IInv /\ [Next]_vars => NoneIsForgotten'
<1> SUFFICES ASSUME IInv, [Next]_vars PROVE NoneIsForgotten'
  OBVIOUS
<1> USE DEF IInv, options, broker, linkVars, locks, calls
<1>1. CASE UNCHANGED <<call, timed>>
  BY <1>1 DEF NoneIsForgotten
<1>2. ASSUME NEW d \in Copy, NEW w \in Caller, NEW op \in Way, Settle(<<d, w>>, op)
      PROVE  NoneIsForgotten'
  BY <1>2, SettleEnds DEF NoneIsForgotten
<1>3. ASSUME NEW d \in Copy, HandlerSettles(d) \/ HandlerReturns(d) \/ HandlerThrows(d)
      PROVE  NoneIsForgotten'
  BY <1>1, <1>2, <1>3 DEF HandlerSettles, HandlerReturns, HandlerThrows, Way, Caller
<1>4. ASSUME NEW d \in Copy, OnSettled(d) PROVE NoneIsForgotten'
  <2>1. CASE pending[d] = None
    BY <1>1, <1>4, <2>1 DEF OnSettled
  <2>2. CASE pending[d] # None
    <3>1. <<d, pending[d]>> \in Call
      BY <2>2 DEF CopiesInv, Call
    <3>2. PICK ok \in BOOLEAN : call' = [call EXCEPT ![<<d, pending[d]>>] = Verdict(ok)]
      BY <1>4, <2>2 DEF OnSettled
    <3>3. timed' = timed \ {<<d, pending[d]>>}
      BY <1>4, <2>2 DEF OnSettled, TimersOf
    <3> QED
      BY <3>1, <3>2, <3>3 DEF NoneIsForgotten, Verdict, CopiesInv
  <2> QED
    BY <2>1, <2>2
<1>5. ASSUME NEW c \in Call, SettlementTimesOut(c) PROVE NoneIsForgotten'
  BY <1>5 DEF SettlementTimesOut, NoneIsForgotten, CopiesInv
<1>6. ASSUME NEW c \in Call, ManagedSettlement(c) PROVE NoneIsForgotten'
  BY <1>6 DEF ManagedSettlement, NoneIsForgotten, CopiesInv
<1>7. ASSUME NEW d \in Copy,
             \/ SendRetry(d) \/ LockExpires(d) \/ Requeue(d) \/ Deliver(d)
             \/ RenewTimerFires(d) \/ Renewed(d) \/ RenewalFails(d) \/ AfterSettlement(d)
      PROVE  NoneIsForgotten'
  BY <1>1, <1>7 DEF SendRetry, LockExpires, Requeue, Deliver, RenewTimerFires, Renewed,
     RenewalFails, AfterSettlement
<1>8. CASE (\E m \in Post : Send(m)) \/ LinkLost \/ Reattach \/ Close \/ UNCHANGED vars
  BY <1>1, <1>8 DEF Send, LinkLost, Reattach, Close, vars
<1> QED
  BY <1>3, <1>4, <1>5, <1>6, <1>7, <1>8 DEF Next

-----------------------------------------------------------------------------
\* A copy that was delivered keeps its message, and stays delivered.
Kept == \A e \in Copy : phase[e] # "none" => phase'[e] # "none" /\ wire'[e] = wire[e]

LEMMA DeliveredStays == IInv /\ [Next]_vars => Kept
<1> SUFFICES ASSUME IInv, [Next]_vars PROVE Kept
  OBVIOUS
<1> USE DEF IInv, options, broker, linkVars, locks, calls
<1>1. ASSUME UNCHANGED phase,
             NEW d \in Copy, NEW w, NEW from \in Copy, Enqueue(d, w, from)
      PROVE  Kept
  BY <1>1, EnqueueEnds DEF Kept
<1>2. ASSUME NEW m \in Post, Send(m) PROVE Kept
  BY <1>1, <1>2 DEF Send
<1>3. ASSUME NEW d \in Copy, SendRetry(d) \/ Requeue(d) PROVE Kept
  BY <1>1, <1>3 DEF SendRetry, Requeue
<1>4. CASE UNCHANGED <<phase, wire>>
  BY <1>4 DEF Kept
<1>5. ASSUME NEW d \in Copy,
             Deliver(d) \/ HandlerReturns(d) \/ HandlerThrows(d) \/ AfterSettlement(d)
      PROVE  Kept
  BY <1>5 DEF Deliver, HandlerReturns, HandlerThrows, AfterSettlement, CopiesInv, Kept
<1>6. ASSUME NEW d \in Copy,
             \/ LockExpires(d) \/ RenewTimerFires(d) \/ Renewed(d) \/ RenewalFails(d)
             \/ HandlerSettles(d) \/ OnSettled(d)
      PROVE  Kept
  BY <1>4, <1>6 DEF LockExpires, RenewTimerFires, Renewed, RenewalFails, HandlerSettles,
     OnSettled
<1>7. ASSUME NEW c \in Call, SettlementTimesOut(c) \/ ManagedSettlement(c) PROVE Kept
  BY <1>4, <1>7 DEF SettlementTimesOut, ManagedSettlement
<1>8. CASE LinkLost \/ Reattach \/ Close \/ UNCHANGED vars
  BY <1>4, <1>8 DEF LinkLost, Reattach, Close, vars
<1> QED
  BY <1>2, <1>3, <1>5, <1>6, <1>7, <1>8 DEF Next

\* What _clearMessageLockRenewTimer leaves: no entry for the id, and no timer that had it.
LEMMA ClearedEnds ==
    ASSUME TimersInv, NEW d \in Copy, Cleared(d)
    PROVE  /\ armed' \subseteq armed /\ renewTimer' \subseteq renewTimer
           /\ \A x \in renewTimer' : x[1] # Id(d)
           /\ \A t \in armed' : SharesId(t[1]) \/ <<Id(t[1]), t[1]>> \in renewTimer'
<1>1. /\ renewTimer' = {x \in renewTimer : x[1] # Id(d)}
      /\ armed' = {t \in armed : <<Id(d), t[1]>> \notin renewTimer}
  BY DEF Cleared, Without
<1>2. ASSUME NEW t \in armed', ~SharesId(t[1]) PROVE <<Id(t[1]), t[1]>> \in renewTimer'
  <2>1. <<Id(t[1]), t[1]>> \in renewTimer /\ <<Id(d), t[1]>> \notin renewTimer
    BY <1>1, <1>2 DEF TimersInv
  <2>2. <<Id(t[1]), t[1]>>[1] = Id(t[1])
    OBVIOUS
  <2> QED
    BY <1>1, <2>1, <2>2
<1> QED
  BY <1>1, <1>2

\* _clearAllMessageLockRenewTimers leaves only timers that had lost their entry.
LEMMA ClearedAllEnds ==
    ASSUME TimersInv, ClearedAll
    PROVE  /\ armed' \subseteq armed /\ renewTimer' = {}
           /\ \A t \in armed' : SharesId(t[1])
<1>1. ASSUME NEW t \in armed' PROVE SharesId(t[1])
  <2>1. t \in armed /\ \A x \in renewTimer : t[1] # x[2]
    BY DEF ClearedAll
  <2>2. <<Id(t[1]), t[1]>>[2] = t[1]
    OBVIOUS
  <2> QED
    BY <2>1, <2>2 DEF TimersInv
<1> QED
  BY <1>1 DEF ClearedAll

\* A timer that is set takes the entry of its id, and leaves the others theirs.
LEMMA InsteadEnds ==
    ASSUME TimersInv, NEW d \in Copy, NEW n, phase'[d] # "none", Kept,
           renewTimer' = Instead(Id(d), d), armed' = armed \cup {<<d, n>>},
           wire'[d] = wire[d]
    PROVE  \A t \in armed' : SharesId(t[1])' \/ <<Id(t[1])', t[1]>> \in renewTimer'
<1> SUFFICES ASSUME NEW t \in armed'
             PROVE SharesId(t[1])' \/ <<Id(t[1])', t[1]>> \in renewTimer'
  OBVIOUS
<1>1. Id(d)' = Id(d) /\ <<Id(d), d>> \in renewTimer'
  BY DEF Id, Instead
<1>2. CASE t[1] = d
  BY <1>1, <1>2
<1>3. CASE t[1] # d
  <2>1. t \in armed
    BY <1>3
  <2>2. t[1] \in Copy /\ phase[t[1]] # "none"
    BY <2>1 DEF TimersInv
  <2>3. phase'[t[1]] # "none" /\ Id(t[1])' = Id(t[1])
    BY <2>2 DEF Kept, Id
  <2>4. CASE SharesId(t[1])
    BY <2>2, <2>3, <2>4 DEF SharesId, Kept, Id
  <2>5. CASE <<Id(t[1]), t[1]>> \in renewTimer /\ Id(t[1]) # Id(d)
    <3>1. <<Id(t[1]), t[1]>>[1] = Id(t[1])
      OBVIOUS
    <3> QED
      BY <2>3, <2>5, <3>1 DEF Instead, Without
  <2>6. CASE Id(t[1]) = Id(d)
    BY <1>1, <1>3, <2>2, <2>3, <2>6 DEF SharesId
  <2> QED
    BY <2>1, <2>4, <2>5, <2>6 DEF TimersInv
<1> QED
  BY <1>2, <1>3

\* A step that sets no timer, and leaves each entry a handler to stand for.
LEMMA NoneSet ==
    ASSUME TimersInv, Kept, armed' \cup renewing' \subseteq armed \cup renewing,
           armed' \subseteq armed,
           \A c \in timed' : c[1] \in Copy /\ phase'[c[1]] # "none",
           \A x \in renewTimer' : Stands(x)',
           \A t \in armed' : SharesId(t[1]) \/ <<Id(t[1]), t[1]>> \in renewTimer'
    PROVE  TimersInv' /\ SetForAHandler
<1>1. \A t \in armed' \cup renewing' : t[1] \in Copy /\ phase'[t[1]] # "none"
  BY DEF TimersInv, Kept
<1>2. \A d \in Copy : phase[d] # "none" /\ SharesId(d) => SharesId(d)'
  BY DEF SharesId, Kept, Id
<1>3. \A d \in Copy : phase[d] # "none" => Id(d)' = Id(d)
  BY DEF Kept, Id
<1>4. \A t \in armed' : t[1] \in Copy /\ phase[t[1]] # "none"
  BY DEF TimersInv
<1>5. \A t \in armed' : SharesId(t[1])' \/ <<Id(t[1])', t[1]>> \in renewTimer'
  BY <1>2, <1>3, <1>4
<1>6. \A t \in (armed \cup renewing)' : t[1] \in Copy /\ phase'[t[1]] # "none"
  BY <1>1
<1> QED
  BY <1>5, <1>6 DEF TimersInv, SetForAHandler

-----------------------------------------------------------------------------
\* An entry keeps its handler while no handler of its id ends or settles.
LEMMA StandsStays ==
    ASSUME Kept, NEW x, Stands(x),
           \A e \in Copy : /\ phase[e] = "handling" /\ Id(e) = x[1] /\ <<e, "handler">> \notin timed
                           => phase'[e] = "handling" /\ <<e, "handler">> \notin timed'
    PROVE  Stands(x)'
<1>1. PICK e \in Copy : phase[e] = "handling" /\ Id(e) = x[1] /\ <<e, "handler">> \notin timed
  BY DEF Stands
<1>2. Id(e)' = Id(e) /\ phase'[e] = "handling" /\ <<e, "handler">> \notin timed'
  BY <1>1 DEF Kept, Id
<1> QED
  BY <1>1, <1>2 DEF Stands

\* A handler that ends, or settles its message over the link, takes the entry of its
\* id along; no other handler changes.
LEMMA HandlerEnds ==
    ASSUME IInv, Kept, NEW d \in Copy, Cleared(d), UNCHANGED renewing, phase[d] # "none",
           \A e \in Copy : e # d => phase'[e] = phase[e],
           timed' \subseteq timed \cup {<<d, "handler">>, <<d, "receiver">>}
    PROVE  TimersInv' /\ SetForAHandler
<1> USE DEF IInv
<1>1. /\ armed' \subseteq armed /\ renewTimer' \subseteq renewTimer
      /\ \A x \in renewTimer' : x[1] # Id(d)
      /\ \A t \in armed' : SharesId(t[1]) \/ <<Id(t[1]), t[1]>> \in renewTimer'
  BY ClearedEnds
<1>2. ASSUME NEW x \in renewTimer' PROVE Stands(x)'
  <2>1. Stands(x) /\ x[1] # Id(d)
    BY <1>1 DEF TimersInv
  <2>2. \A e \in Copy : /\ phase[e] = "handling" /\ Id(e) = x[1] /\ <<e, "handler">> \notin timed
                        => phase'[e] = "handling" /\ <<e, "handler">> \notin timed'
    BY <2>1
  <2> QED
    BY <2>1, <2>2, StandsStays
<1>3. \A c \in timed' : c[1] \in Copy /\ phase'[c[1]] # "none"
  BY DEF TimersInv, Kept
<1> QED
  BY <1>1, <1>2, <1>3, NoneSet

\* A step that leaves map, handlers and timers alone, but for timers that stop.
LEMMA NothingSet ==
    ASSUME IInv, Kept, UNCHANGED renewTimer,
           armed' = armed, renewing' = renewing \/ renewing' \subseteq renewing,
           \A e \in Copy : phase[e] = "handling" => phase'[e] = "handling",
           timed' \subseteq timed
    PROVE  TimersInv' /\ SetForAHandler
<1> USE DEF IInv
<1>1. ASSUME NEW x \in renewTimer' PROVE Stands(x)'
  <2>1. Stands(x)
    BY <1>1 DEF TimersInv
  <2> QED
    BY <2>1, StandsStays
<1>2. \A c \in timed' : c[1] \in Copy /\ phase'[c[1]] # "none"
  BY DEF TimersInv, Kept
<1>3. \A t \in armed' : SharesId(t[1]) \/ <<Id(t[1]), t[1]>> \in renewTimer'
  BY DEF TimersInv
<1> QED
  BY <1>1, <1>2, <1>3, NoneSet

LEMMA TimersNext == IInv /\ [Next]_vars => TimersInv' /\ SetForAHandler
<1> SUFFICES ASSUME IInv, [Next]_vars PROVE TimersInv' /\ SetForAHandler
  OBVIOUS
<1> USE DEF IInv, options, broker, linkVars, locks, calls
<1>0. Kept
  BY DeliveredStays
<1>1. CASE UNCHANGED <<phase, locks>> /\ timed' \subseteq timed
  BY <1>0, <1>1, NothingSet
<1>2. ASSUME NEW d \in Copy,
             SendRetry(d) \/ LockExpires(d) \/ Requeue(d)
      PROVE  TimersInv' /\ SetForAHandler
  BY <1>1, <1>2 DEF SendRetry, LockExpires, Requeue
<1>3. ASSUME NEW d \in Copy, Deliver(d) PROVE TimersInv' /\ SetForAHandler
  <2>1. /\ phase[d] = "none" /\ phase' = [phase EXCEPT ![d] = "handling"]
        /\ UNCHANGED <<wire, renewing, timed>>
    BY <1>3 DEF Deliver, CopiesInv
  <2>2. \A c \in timed' : c[1] \in Copy /\ phase'[c[1]] # "none"
    BY <1>0, <2>1 DEF TimersInv, Kept
  <2>3. phase'[d] = "handling" /\ Id(d)' = Id(d) /\ <<d, "handler">> \notin timed'
    <3>1. <<d, "handler">>[1] = d
      OBVIOUS
    <3> QED
      BY <2>1, <3>1 DEF CopiesInv, TimersInv, Id
  <2>4. \A x \in renewTimer : Stands(x)'
    <3> SUFFICES ASSUME NEW x \in renewTimer PROVE Stands(x)'
      OBVIOUS
    <3>1. Stands(x)
      BY DEF TimersInv
    <3> QED
      BY <1>0, <2>1, <3>1, StandsStays DEF CopiesInv
  <2>5. CASE UNCHANGED <<renewTimer, armed>>
    <3>1. \A t \in armed' : SharesId(t[1]) \/ <<Id(t[1]), t[1]>> \in renewTimer'
      BY <2>5 DEF TimersInv
    <3> QED
      BY <1>0, <2>1, <2>2, <2>4, <2>5, <3>1, NoneSet
  <2>6. CASE renewTimer' = Instead(Id(d), d) /\ armed' = armed \cup {<<d, 0>>}
    <3>1. \A t \in armed' : SharesId(t[1])' \/ <<Id(t[1])', t[1]>> \in renewTimer'
      BY <1>0, <2>1, <2>3, <2>6, InsteadEnds
    <3>2. ASSUME NEW x \in renewTimer' PROVE Stands(x)'
      <4>1. CASE x \in renewTimer
        BY <2>4, <4>1
      <4>2. CASE x \notin renewTimer
        <5>1. x[1] = Id(d)
          BY <2>6, <4>2 DEF Instead, Without
        <5> QED
          BY <2>3, <5>1 DEF Stands
      <4> QED
        BY <4>1, <4>2
    <3>3. \A x \in renewTimer' : Stands(x)'
      BY <3>2
    <3>4. \A t \in (armed \cup renewing)' : t[1] \in Copy /\ phase'[t[1]] # "none"
      BY <1>0, <2>1, <2>3, <2>6 DEF TimersInv, Kept
    <3>5. SetForAHandler
      BY <2>3, <2>6 DEF SetForAHandler
    <3> QED
      BY <2>2, <3>1, <3>3, <3>4, <3>5 DEF TimersInv
  <2> QED
    BY <1>3, <2>5, <2>6 DEF Deliver
<1>4. ASSUME NEW d \in Copy, RenewTimerFires(d) PROVE TimersInv' /\ SetForAHandler
  <2>1. PICK t \in armed : armed' = armed \ {t} /\ renewing' = renewing \cup {t}
    BY <1>4 DEF RenewTimerFires
  <2>2. UNCHANGED <<renewTimer, phase, timed>>
    BY <1>4 DEF RenewTimerFires
  <2>3. \A x \in renewTimer' : Stands(x)'
    <3> SUFFICES ASSUME NEW x \in renewTimer PROVE Stands(x)'
      BY <2>2
    <3>1. Stands(x)
      BY DEF TimersInv
    <3> QED
      BY <1>0, <2>2, <3>1, StandsStays
  <2>4. \A e \in armed' : SharesId(e[1]) \/ <<Id(e[1]), e[1]>> \in renewTimer'
    BY <2>1, <2>2 DEF TimersInv
  <2>5. \A c \in timed' : c[1] \in Copy /\ phase'[c[1]] # "none"
    BY <2>2 DEF TimersInv
  <2> QED
    BY <1>0, <2>1, <2>3, <2>4, <2>5, NoneSet
<1>5. ASSUME NEW d \in Copy, Renewed(d) PROVE TimersInv' /\ SetForAHandler
  <2>1. PICK t \in renewing : /\ t[1] = d /\ renewing' = renewing \ {t}
                              /\ \/ RenewAgain(d, t[2] + 1)
                                 \/ Cleared(d)
    BY <1>5 DEF Renewed
  <2>2. phase[d] # "none" /\ UNCHANGED <<wire, phase, timed>>
    BY <1>5, <2>1 DEF Renewed, TimersInv
  <2>3. \A x : Stands(x) => Stands(x)'
    BY <1>0, <2>2, StandsStays
  <2>4. \A c \in timed' : c[1] \in Copy /\ phase'[c[1]] # "none"
    BY <2>2 DEF TimersInv
  <2>5. CASE Cleared(d)
    <3>1. /\ armed' \subseteq armed /\ renewTimer' \subseteq renewTimer
          /\ \A e \in armed' : SharesId(e[1]) \/ <<Id(e[1]), e[1]>> \in renewTimer'
      BY <2>5, ClearedEnds
    <3>2. \A x \in renewTimer' : Stands(x)'
      BY <2>3, <3>1 DEF TimersInv
    <3> QED
      BY <1>0, <2>1, <2>4, <3>1, <3>2, NoneSet
  <2>6. CASE UNCHANGED <<renewTimer, armed>>
    <3>1. \A x \in renewTimer' : Stands(x)'
      BY <2>3, <2>6 DEF TimersInv
    <3>2. \A e \in armed' : SharesId(e[1]) \/ <<Id(e[1]), e[1]>> \in renewTimer'
      BY <2>6 DEF TimersInv
    <3> QED
      BY <1>0, <2>1, <2>4, <2>6, <3>1, <3>2, NoneSet
  <2>7. ASSUME NEW x \in renewTimer, x[1] = Id(d),
               renewTimer' = Instead(Id(d), d), armed' = armed \cup {<<d, t[2] + 1>>}
        PROVE  TimersInv' /\ SetForAHandler
    <3>1. \A e \in armed' : SharesId(e[1])' \/ <<Id(e[1])', e[1]>> \in renewTimer'
      BY <1>0, <2>2, <2>7, InsteadEnds
    <3>2. PICK e \in Copy : /\ phase[e] = "handling" /\ Id(e) = Id(d)
                            /\ <<e, "handler">> \notin timed
      BY <2>7 DEF TimersInv, Stands
    <3>3. Stands(<<Id(d), d>>)
      <4>1. <<Id(d), d>>[1] = Id(d)
        OBVIOUS
      <4> QED
        BY <3>2, <4>1 DEF Stands
    <3>4. \A y \in renewTimer' : Stands(y)'
      BY <2>3, <2>7, <3>3 DEF Instead, Without, TimersInv
    <3>5. \A y \in (armed \cup renewing)' : y[1] \in Copy /\ phase'[y[1]] # "none"
      BY <2>1, <2>2, <2>7 DEF TimersInv
    <3>6. SetForAHandler
      <4>1. phase'[e] = "handling" /\ Id(e) = Id(d)
        BY <2>2, <3>2
      <4>2. \A y \in armed' \ armed : y[1] = d
        BY <2>7
      <4> QED
        BY <4>1, <4>2 DEF SetForAHandler
    <3> QED
      BY <2>4, <3>1, <3>4, <3>5, <3>6 DEF TimersInv
  <2> QED
    BY <2>1, <2>5, <2>6, <2>7 DEF RenewAgain
<1>6. ASSUME NEW d \in Copy, RenewalFails(d) PROVE TimersInv' /\ SetForAHandler
  <2>1. renewing' \subseteq renewing /\ UNCHANGED <<renewTimer, armed, phase, timed>>
    BY <1>6 DEF RenewalFails
  <2> QED
    BY <1>0, <2>1, NothingSet
<1>7. ASSUME NEW d \in Copy, HandlerSettles(d) PROVE TimersInv' /\ SetForAHandler
  <2>1. PICK op \in Op : Settle(<<d, "handler">>, op)
    BY <1>7 DEF HandlerSettles
  <2>2. op \in Way /\ "handler" \in Caller
    BY DEF Way, Caller
  <2>3. /\ timed' = timed \/ timed' = timed \cup {<<d, "handler">>}
        /\ timed' # timed => d \notin settled /\ peekLock /\ ByLink(d)
    BY <2>1, <2>2, SettleEnds
  <2>4. phase[d] # "none" /\ UNCHANGED <<phase, renewing>>
    BY <1>7 DEF HandlerSettles
  <2>5. CASE Cleared(d)
    BY <1>0, <2>3, <2>4, <2>5, HandlerEnds
  <2>6. CASE ~(d \notin settled /\ peekLock /\ ByLink(d)) /\ UNCHANGED <<renewTimer, armed>>
    BY <1>1, <2>3, <2>4, <2>6
  <2> QED
    BY <1>7, <2>5, <2>6 DEF HandlerSettles
<1>8. ASSUME NEW d \in Copy, HandlerReturns(d) \/ HandlerThrows(d)
      PROVE  TimersInv' /\ SetForAHandler
  <2>1. /\ Cleared(d) /\ UNCHANGED renewing /\ phase[d] # "none"
        /\ \A e \in Copy : e # d => phase'[e] = phase[e]
    BY <1>8 DEF HandlerReturns, HandlerThrows, CopiesInv
  <2>2. /\ "complete" \in Way /\ "abandon" \in Way /\ "receiver" \in Caller
    BY DEF Way, Caller
  <2>3. timed' \subseteq timed \cup {<<d, "receiver">>}
    <3>1. \/ UNCHANGED calls
          \/ Settle(<<d, "receiver">>, "complete") \/ Settle(<<d, "receiver">>, "abandon")
      BY <1>8 DEF HandlerReturns, HandlerThrows
    <3>2. CASE UNCHANGED calls
      BY <3>2
    <3>3. CASE Settle(<<d, "receiver">>, "complete")
      BY <2>2, <3>3, SettleEnds
    <3>4. CASE Settle(<<d, "receiver">>, "abandon")
      BY <2>2, <3>4, SettleEnds
    <3> QED
      BY <3>1, <3>2, <3>3, <3>4
  <2> QED
    BY <1>0, <2>1, <2>3, HandlerEnds
<1>9. ASSUME NEW d \in Copy, AfterSettlement(d) PROVE TimersInv' /\ SetForAHandler
  <2>1. /\ \A e \in Copy : phase[e] = "handling" => phase'[e] = "handling"
        /\ UNCHANGED <<locks, timed>>
    BY <1>9 DEF AfterSettlement, CopiesInv
  <2> QED
    BY <1>0, <2>1, NothingSet
<1>10. ASSUME NEW d \in Copy, OnSettled(d) PROVE TimersInv' /\ SetForAHandler
  BY <1>1, <1>10 DEF OnSettled
<1>11. ASSUME NEW c \in Call, SettlementTimesOut(c) \/ ManagedSettlement(c)
       PROVE  TimersInv' /\ SetForAHandler
  BY <1>1, <1>11 DEF SettlementTimesOut, ManagedSettlement
<1>12. CASE LinkLost \/ Close
  <2>1. UNCHANGED <<phase, renewing, timed>>
    BY <1>12 DEF LinkLost, Close
  <2>2. CASE UNCHANGED <<renewTimer, armed>>
    BY <1>1, <2>1, <2>2
  <2>3. CASE ClearedAll
    <3>1. /\ armed' \subseteq armed /\ renewTimer' = {}
          /\ \A t \in armed' : SharesId(t[1])
      BY <2>3, ClearedAllEnds
    <3>2. \A c \in timed' : c[1] \in Copy /\ phase'[c[1]] # "none"
      BY <2>1 DEF TimersInv
    <3> QED
      BY <1>0, <2>1, <3>1, <3>2, NoneSet
  <2> QED
    BY <1>12, <2>2, <2>3 DEF LinkLost, Close
<1>13. CASE (\E m \in Post : Send(m)) \/ Reattach \/ UNCHANGED vars
  BY <1>1, <1>13 DEF Send, Reattach, vars
<1> QED
  BY <1>2, <1>3, <1>4, <1>5, <1>6, <1>7, <1>8, <1>9, <1>10, <1>11, <1>12, <1>13 DEF Next

-----------------------------------------------------------------------------
LEMMA BusyIsFinite == IsFiniteSet(Busy) /\ Cardinality(Busy) \in Nat
  BY HandlingOK, FS_Subset, FS_CardinalityType DEF Busy

LEMMA CreditNext == IInv /\ [Next]_vars => CreditInv'
<1> SUFFICES ASSUME IInv, [Next]_vars PROVE CreditInv'
  OBVIOUS
<1> USE DEF IInv, options, broker, linkVars, locks, calls
<1>1. CASE UNCHANGED <<credit, link, up, closed, phase>>
  BY <1>1 DEF CreditInv, CreditIsWhole, Busy
<1>2. ASSUME NEW d \in Copy, d \in Busy, Busy' = Busy \ {d}, credit' = Refilled(d),
             UNCHANGED <<link, up, closed>>
      PROVE  CreditInv'
  <2>1. Cardinality(Busy') = Cardinality(Busy) - 1
    BY <1>2, BusyIsFinite, FS_RemoveElement
  <2>2. credit' \in Nat /\ (up => credit' = credit + 1)
    BY <1>2 DEF CreditInv, Refilled
  <2> QED
    BY <1>2, <2>1, <2>2, BusyIsFinite, HandlingOK DEF CreditInv, CreditIsWhole
<1>3. ASSUME NEW d \in Copy, Deliver(d) PROVE CreditInv'
  <2>1. d \notin Busy /\ Busy' = Busy \cup {d}
    BY <1>3 DEF Deliver, CopiesInv, Busy
  <2>2. Cardinality(Busy') = Cardinality(Busy) + 1
    BY <2>1, BusyIsFinite, FS_AddElement
  <2>3. credit' = credit - 1 /\ credit > 0 /\ UNCHANGED <<link, up, closed>>
    BY <1>3 DEF Deliver
  <2> QED
    BY <2>2, <2>3, BusyIsFinite, HandlingOK DEF CreditInv, CreditIsWhole
<1>4. ASSUME NEW d \in Copy, HandlerReturns(d) PROVE CreditInv'
  <2>1. d \in Busy /\ Busy' = Busy \ {d}
    BY <1>4 DEF HandlerReturns, CopiesInv, Busy
  <2>2. credit' = Refilled(d) /\ UNCHANGED <<link, up, closed>>
    BY <1>4 DEF HandlerReturns
  <2> QED
    BY <1>2, <2>1, <2>2
<1>5. ASSUME NEW d \in Copy, HandlerThrows(d) PROVE CreditInv'
  <2>1. UNCHANGED <<link, up, closed>> /\ d \in Busy
    BY <1>5 DEF HandlerThrows, Busy
  <2>2. CASE phase' = [phase EXCEPT ![d] = "abandoning"] /\ UNCHANGED credit
    <3>1. Busy' = Busy
      BY <2>1, <2>2 DEF CopiesInv, Busy
    <3> QED
      BY <2>1, <2>2, <3>1 DEF CreditInv, CreditIsWhole
  <2>3. CASE phase' = [phase EXCEPT ![d] = "done"] /\ credit' = Refilled(d)
    <3>1. Busy' = Busy \ {d}
      BY <2>3 DEF CopiesInv, Busy
    <3> QED
      BY <1>2, <2>1, <2>3, <3>1
  <2> QED
    BY <1>5, <2>2, <2>3 DEF HandlerThrows
<1>6. ASSUME NEW d \in Copy, AfterSettlement(d) PROVE CreditInv'
  <2>1. UNCHANGED <<link, up, closed>> /\ phase' = [phase EXCEPT ![d] = "done"]
    BY <1>6 DEF AfterSettlement
  <2>2. CASE phase[d] = "abandoning"
    <3>1. d \in Busy /\ Busy' = Busy \ {d} /\ credit' = Refilled(d)
      BY <1>6, <2>1, <2>2 DEF AfterSettlement, CopiesInv, Busy
    <3> QED
      BY <1>2, <2>1, <3>1
  <2>3. CASE phase[d] = "completing"
    <3>1. Busy' = Busy /\ UNCHANGED credit
      BY <1>6, <2>1, <2>3 DEF AfterSettlement, CopiesInv, Busy
    <3> QED
      BY <2>1, <3>1 DEF CreditInv, CreditIsWhole
  <2> QED
    BY <1>6, <2>2, <2>3 DEF AfterSettlement
<1>7. ASSUME NEW d \in Copy,
             \/ SendRetry(d) \/ LockExpires(d) \/ Requeue(d) \/ RenewTimerFires(d)
             \/ Renewed(d) \/ RenewalFails(d) \/ HandlerSettles(d) \/ OnSettled(d)
      PROVE  CreditInv'
  BY <1>1, <1>7 DEF SendRetry, LockExpires, Requeue, RenewTimerFires, Renewed, RenewalFails,
     HandlerSettles, OnSettled
<1>8. ASSUME NEW c \in Call, SettlementTimesOut(c) \/ ManagedSettlement(c) PROVE CreditInv'
  BY <1>1, <1>8 DEF SettlementTimesOut, ManagedSettlement
<1>9. CASE LinkLost \/ Close
  <2>1. ~up' /\ UNCHANGED <<credit, link>>
    BY <1>9 DEF LinkLost, Close
  <2> QED
    BY <2>1 DEF CreditInv, CreditIsWhole
<1>10. CASE Reattach
  <2>1. ~closed' /\ link' \in Nat \ {0} /\ link' # 1 /\ credit' = MaxCalls
    BY <1>10 DEF Reattach, CreditInv
  <2> QED
    BY <2>1, HandlingOK DEF CreditInv, CreditIsWhole
<1>11. CASE (\E m \in Post : Send(m)) \/ UNCHANGED vars
  BY <1>1, <1>11 DEF Send, vars
<1> QED
  BY <1>3, <1>4, <1>5, <1>6, <1>7, <1>8, <1>9, <1>10, <1>11 DEF Next

-----------------------------------------------------------------------------
LEMMA Invariance == Spec => []IInv
<1>1. Init => IInv
  BY InitHolds
<1>2. IInv /\ [Next]_vars => IInv'
  BY CopiesNext, TimersNext, CreditNext, ForgottenNext DEF IInv
<1> QED
  BY <1>1, <1>2, PTL DEF Spec

(* However a handler ends, and whatever becomes of its settlement, exactly its credit
   comes back: for any number of concurrent calls. *)
THEOREM NoCreditLost == Spec => []CreditIsWhole
<1>1. IInv => CreditIsWhole
  BY DEF IInv, CreditInv
<1> QED
  BY <1>1, Invariance, PTL

(* No renewal timer outlives the handler or the settlement of its message, unless another
   message with its id took its entry of the map. *)
THEOREM RenewalEnds == Spec => []RenewalStops
<1>1. IInv => RenewalStops
  <2> SUFFICES ASSUME IInv, NEW t \in armed, ~SharesId(t[1])
               PROVE  phase[t[1]] = "handling" /\ <<t[1], "handler">> \notin timed
    BY DEF RenewalStops
  <2>1. t[1] \in Copy /\ <<Id(t[1]), t[1]>> \in renewTimer
    BY DEF IInv, TimersInv
  <2>2. Stands(<<Id(t[1]), t[1]>>) /\ phase[t[1]] # "none"
    BY <2>1 DEF IInv, TimersInv
  <2>3. PICK e \in Copy : phase[e] = "handling" /\ Id(e) = Id(t[1]) /\ <<e, "handler">> \notin timed
    BY <2>2 DEF Stands
  <2>4. e = t[1]
    BY <2>1, <2>3 DEF SharesId
  <2> QED
    BY <2>3, <2>4
<1> QED
  BY <1>1, Invariance, PTL

(* Not even messages that share an id keep a renewal going by themselves: a timer is set
   only while some handler of that id runs. *)
THEOREM TimersNeedAHandler == Spec => RenewedForAHandler
<1>1. IInv /\ [Next]_vars => SetForAHandler
  BY TimersNext
<1> QED
  BY <1>1, Invariance, PTL DEF Spec, RenewedForAHandler

(* A settlement whose promise is open has a timer that will reject it, also when a second
   settlement of the message overwrote its entry of the map. *)
THEOREM SettlementsEnd == Spec => []NoneIsForgotten
<1>1. IInv => NoneIsForgotten
  BY DEF IInv
<1> QED
  BY <1>1, Invariance, PTL

-----------------------------------------------------------------------------
(* The fields of a message *)

\* Every field has a name of its own on the wire, and none that of a time.
FieldNamed(n) ==
    CASE n = "message_id"        -> "messageId"
      [] n = "content_type"      -> "contentType"
      [] n = "correlation_id"    -> "correlationId"
      [] n = "group_id"          -> "sessionId"
      [] n = "reply_to_group_id" -> "replyToSessionId"
      [] n = "ttl"               -> "timeToLive"
      [] n = "subject"           -> "label"
      [] n = "reply_to"          -> "replyTo"
      [] n = "application_properties"  -> "userProperties"
      [] n = "x-opt-partition-key"     -> "partitionKey"
      [] n = "x-opt-via-partition-key" -> "viaPartitionKey"
      [] n = "x-opt-scheduled-enqueue-time" -> "scheduledEnqueueTimeUtc"
      [] OTHER -> n

LEMMA NamesDiffer ==
    ASSUME NEW f \in Field
    PROVE  /\ FieldNamed(AmqpName[f]) = f
           /\ AmqpName[f] \notin {"creation_time", "absolute_expiry_time"}
           /\ f \in ReadFields /\ f \in CloneFields
  BY DEF Field, AmqpName, FieldNamed, ReadFields, CloneFields

\* What arrives of a message that was sent: the fields that were written.
LEMMA RoundTrip ==
    ASSUME NEW m, NEW f \in Field
    PROVE  FromAmqp(ToAmqp(m))[f] = IF f \in Written(m) THEN m[f] ELSE Absent
<1> DEFINE names == {AmqpName[g] : g \in Written(m)}
           times == IF "ttl" \in names THEN {"creation_time", "absolute_expiry_time"} ELSE {}
           w == [n \in names \cup times |->
                   IF n \in times THEN "now" ELSE m[CHOOSE g \in Written(m) : AmqpName[g] = n]]
<1>1. ToAmqp(m) = w
  BY DEF ToAmqp
<1>2. Written(m) \subseteq Field
  BY DEF Written
<1>3. AmqpName[f] \notin times
  BY NamesDiffer
<1>4. AmqpName[f] \in names <=> f \in Written(m)
  BY <1>2, NamesDiffer
<1>5. FromAmqp(w)[f] = IF AmqpName[f] \in DOMAIN w THEN w[AmqpName[f]] ELSE Absent
  BY NamesDiffer DEF FromAmqp
<1>6. DOMAIN w = names \cup times
  OBVIOUS
<1>7. CASE f \in Written(m)
  <2> DEFINE c == CHOOSE g \in Written(m) : AmqpName[g] = AmqpName[f]
  <2>1. c \in Written(m) /\ AmqpName[c] = AmqpName[f]
    BY <1>7
  <2>2. c = f
    BY <1>2, <2>1, NamesDiffer
  <2>3. w[AmqpName[f]] = m[c]
    BY <1>3, <1>4, <1>7
  <2> QED
    BY <1>1, <1>4, <1>5, <1>6, <1>7, <2>2, <2>3
<1>8. CASE f \notin Written(m)
  BY <1>1, <1>3, <1>4, <1>5, <1>6, <1>8
<1> QED
  BY <1>7, <1>8

\* A message that is sent and received says what it said.
LEMMA SentSaysTheSame ==
    ASSUME NEW m
    PROVE  /\ SameButRetry(FromAmqp(ToAmqp(m)), m)
           /\ Props(FromAmqp(ToAmqp(m))) = Props(m)
<1> DEFINE r == FromAmqp(ToAmqp(m))
<1>1. \A f \in Field : r[f] = IF f \in Written(m) THEN m[f] ELSE Absent
  BY RoundTrip
<1> HIDE DEF r
<1>2. \A f \in Field \ {"timeToLive"} : r[f] = m[f]
  BY <1>1 DEF Written
<1>3. "timeToLive" \in Field /\ "userProperties" \in Field
  BY DEF Field
<1>4. r["timeToLive"] = m["timeToLive"] \/ {r["timeToLive"], m["timeToLive"]} = {Forever, Absent}
  <2>1. CASE m["timeToLive"] \in {Absent, Forever}
    BY <1>1, <1>3, <2>1 DEF Written
  <2>2. CASE m["timeToLive"] \notin {Absent, Forever}
    BY <1>1, <1>3, <2>2 DEF Written
  <2> QED
    BY <2>1, <2>2
<1>5. Props(r) = Props(m)
  BY <1>2, <1>3 DEF Props
<1>6. SameButRetry(r, m)
  BY <1>2, <1>4, <1>5 DEF SameButRetry
<1> QED
  BY <1>5, <1>6 DEF r

\* The retry of a message that was received says what the message says.
LEMMA RetrySaysTheSame ==
    ASSUME NEW w, Props(FromAmqp(w)) \subseteq Keys \cup {"SB_BACKOFF_RETRY_COUNT"}
    PROVE  LET r == FromAmqp(w)
               again == FromAmqp(ToAmqp(BackoffClone(r)))
           IN  /\ SameButRetry(again, r)
               /\ Props(again) \subseteq Keys \cup {"SB_BACKOFF_RETRY_COUNT"}
<1> DEFINE r == FromAmqp(w)
           c == BackoffClone(r)
           again == FromAmqp(ToAmqp(c))
<1>1. /\ \A f \in Field \ {"scheduledEnqueueTimeUtc", "userProperties"} : c[f] = r[f]
      /\ c["userProperties"] = Props(r) \cup {"SB_BACKOFF_RETRY_COUNT"}
  BY NamesDiffer DEF BackoffClone, Clone, Field
<1>2. SameButRetry(again, c) /\ Props(again) = Props(c)
  BY SentSaysTheSame
<1>3. Props(r) \subseteq Keys \cup {"SB_BACKOFF_RETRY_COUNT"}
  OBVIOUS
<1> HIDE DEF r, c, again
<1>4. Props(c) = Props(r) \cup {"SB_BACKOFF_RETRY_COUNT"}
  <2>1. Props(r) \cup {"SB_BACKOFF_RETRY_COUNT"} = (Props(r) \cap Keys) \cup {"SB_BACKOFF_RETRY_COUNT"}
    BY <1>3
  <2>2. Props(r) \cup {"SB_BACKOFF_RETRY_COUNT"} # Absent
    BY <2>1, PostOK
  <2> QED
    BY <1>1, <2>2 DEF Props
<1>5. c["timeToLive"] = r["timeToLive"]
  BY <1>1 DEF Field
<1>6. SameButRetry(again, r)
  BY <1>1, <1>2, <1>4, <1>5 DEF SameButRetry
<1> QED
  BY <1>2, <1>3, <1>4, <1>6 DEF r, c, again

LEMMA SameIsReflexive == \A a : SameButRetry(a, a)
  BY DEF SameButRetry

\* What is in the queue is a copy of what was there before, or of what was sent.
SaysInv ==
    /\ cloneOf \in [Copy -> Copy]
    /\ \A d \in Copy : fate[d] # "none" =>
          /\ fate[cloneOf[d]] # "none"
          /\ Props(Received(d)) \subseteq Keys \cup {"SB_BACKOFF_RETRY_COUNT"}
    /\ RetriesSayTheSame

\* A copy that gets into the queue, saying what it should.
LEMMA QueuedSaysTheSame ==
    ASSUME CopiesInv, SaysInv, NEW e \in Copy, NEW w, NEW from \in Copy, Enqueue(e, w, from),
           \A x \in Copy : fate'[x] = "none" => fate[x] = "none",
           \A x \in Copy : fate'[x] = "queued" => x = e \/ fate[x] = "queued",
           fate'[e] # "none",
           \A x \in Copy : x # e /\ fate'[x] # "none" => fate[x] # "none",
           from = e \/ fate[from] # "none",
           Props(FromAmqp(w)) \subseteq Keys \cup {"SB_BACKOFF_RETRY_COUNT"},
           from # e => SameButRetry(FromAmqp(w), Received(from)),
           from = e => \E m \in Post : SameButRetry(FromAmqp(w), m)
    PROVE  SaysInv'
<1>1. /\ fate[e] = "none" /\ wire'[e] = w
      /\ \A x \in Copy : x # e => wire'[x] = wire[x]
      /\ cloneOf' = [cloneOf EXCEPT ![e] = from]
  BY DEF Enqueue, CopiesInv
<1>2. cloneOf' \in [Copy -> Copy]
  BY <1>1 DEF SaysInv
<1>3. Received(e)' = FromAmqp(w) /\ \A x \in Copy : x # e => Received(x)' = Received(x)
  BY <1>1 DEF Received
<1>4. ASSUME NEW d \in Copy, fate'[d] # "none"
      PROVE  /\ fate'[cloneOf'[d]] # "none"
             /\ Props(Received(d)') \subseteq Keys \cup {"SB_BACKOFF_RETRY_COUNT"}
  <2>1. CASE d = e
    BY <1>1, <1>3, <2>1 DEF SaysInv
  <2>2. CASE d # e
    <3>1. cloneOf'[d] = cloneOf[d] /\ cloneOf[d] \in Copy /\ fate[d] # "none"
      BY <1>1, <1>4, <2>2 DEF SaysInv
    <3> QED
      BY <1>3, <2>2, <3>1 DEF SaysInv
  <2> QED
    BY <2>1, <2>2
<1>5. ASSUME NEW d \in Copy, fate'[d] = "queued"
      PROVE  /\ SameButRetry(Received(d)', FromAmqp(wire'[cloneOf'[d]]))
             /\ cloneOf'[d] = d => \E m \in Post : SameButRetry(Received(d)', m)
  <2>1. CASE d = e
    <3>1. cloneOf'[d] = from
      BY <1>1, <2>1 DEF SaysInv
    <3>2. Received(d)' = FromAmqp(w) /\ FromAmqp(wire'[from]) = IF from = e THEN FromAmqp(w)
                                                              ELSE Received(from)
      BY <1>1, <1>3, <2>1 DEF Received
    <3> QED
      BY <2>1, <3>1, <3>2, SameIsReflexive
  <2>2. CASE d # e
    <3>1. fate[d] = "queued" /\ cloneOf'[d] = cloneOf[d] /\ cloneOf[d] \in Copy
      BY <1>1, <1>5, <2>2 DEF SaysInv
    <3>2. fate[cloneOf[d]] # "none"
      BY <3>1 DEF SaysInv
    <3>3. cloneOf[d] # e
      BY <1>1, <3>2
    <3>4. Received(d)' = Received(d) /\ FromAmqp(wire'[cloneOf[d]]) = Received(cloneOf[d])
      BY <1>1, <1>3, <2>2, <3>1, <3>3 DEF Received
    <3>5. /\ SameButRetry(Received(d), Received(cloneOf[d]))
          /\ cloneOf[d] = d => \E m \in Post : SameButRetry(Received(d), m)
      BY <3>1 DEF SaysInv, RetriesSayTheSame
    <3> QED
      BY <3>1, <3>4, <3>5
  <2> QED
    BY <2>1, <2>2
<1>6. RetriesSayTheSame'
  BY <1>5 DEF RetriesSayTheSame, Received
<1> QED
  BY <1>2, <1>4, <1>6 DEF SaysInv, Received

\* Steps that put no copy into the queue.
LEMMA NothingQueued ==
    ASSUME SaysInv, UNCHANGED <<wire, cloneOf>>,
           \A x \in Copy : fate'[x] \in {"none", "queued"} => fate'[x] = fate[x],
           \A x \in Copy : fate'[x] # "none" => fate[x] # "none",
           \A x \in Copy : fate[x] # "none" => fate'[x] # "none"
    PROVE  SaysInv'
<1>1. \A d \in Copy : cloneOf[d] \in Copy
  BY DEF SaysInv
<1>2. \A d \in Copy : Received(d)' = Received(d)
  BY DEF Received
<1>3. RetriesSayTheSame'
  BY <1>1, <1>2 DEF SaysInv, RetriesSayTheSame, Received
<1> QED
  BY <1>1, <1>2, <1>3 DEF SaysInv, Received

LEMMA SaysInit == Init => SaysInv
  BY DEF Init, SaysInv, RetriesSayTheSame

LEMMA SaysNext == IInv /\ SaysInv /\ [Next]_vars => SaysInv'
<1> SUFFICES ASSUME IInv, SaysInv, [Next]_vars PROVE SaysInv'
  OBVIOUS
<1> USE DEF IInv, options, broker, linkVars, locks, calls
<1>1. CASE UNCHANGED broker
  BY <1>1, NothingQueued
<1>2. ASSUME NEW m \in Post, Send(m) PROVE SaysInv'
  <2>1. PICK d \in Copy : /\ Enqueue(d, ToAmqp(m), d)
                          /\ fate' = [fate EXCEPT ![d] = "queued"]
    BY <1>2 DEF Send
  <2>2. SameButRetry(FromAmqp(ToAmqp(m)), m) /\ Props(FromAmqp(ToAmqp(m))) \subseteq Keys
    BY SentSaysTheSame DEF Keys
  <2>3. /\ fate'[d] = "queued" /\ \A x \in Copy : x # d => fate'[x] = fate[x]
    BY <2>1 DEF CopiesInv
  <2> QED
    BY <2>1, <2>2, <2>3, QueuedSaysTheSame
<1>3. ASSUME NEW d \in Copy, SendRetry(d) PROVE SaysInv'
  <2> DEFINE w == ToAmqp(BackoffClone(Received(d)))
  <2>1. PICK e \in Copy : Enqueue(e, w, d) /\ fate' = [fate EXCEPT ![e] = "queued"]
    BY <1>3 DEF SendRetry
  <2>2. fate[d] # "none"
    BY <1>3 DEF SendRetry, CopiesInv
  <2>3. /\ SameButRetry(FromAmqp(w), Received(d))
        /\ Props(FromAmqp(w)) \subseteq Keys \cup {"SB_BACKOFF_RETRY_COUNT"}
    BY <2>2, RetrySaysTheSame DEF SaysInv, Received
  <2>4. fate[e] = "none" /\ fate'[e] = "queued" /\ \A x \in Copy : x # e => fate'[x] = fate[x]
    BY <2>1 DEF CopiesInv, Enqueue
  <2> HIDE DEF w
  <2> QED
    BY <2>1, <2>2, <2>3, <2>4, QueuedSaysTheSame
<1>4. ASSUME NEW d \in Copy, Requeue(d) PROVE SaysInv'
  <2>1. PICK e \in Copy : /\ Enqueue(e, wire[d], d)
                          /\ fate' = [fate EXCEPT ![e] = "queued", ![d] = "gone"]
    BY <1>4 DEF Requeue
  <2>2. fate[d] # "none" /\ fate[e] = "none"
    BY <1>4, <2>1 DEF Requeue, Enqueue
  <2>3. /\ SameButRetry(FromAmqp(wire[d]), Received(d))
        /\ Props(FromAmqp(wire[d])) \subseteq Keys \cup {"SB_BACKOFF_RETRY_COUNT"}
    BY <2>2, SameIsReflexive DEF SaysInv, Received
  <2>4. /\ fate'[e] = "queued" /\ fate'[d] = "gone"
        /\ \A x \in Copy : x # e /\ x # d => fate'[x] = fate[x]
    BY <2>1, <2>2 DEF CopiesInv
  <2> QED
    BY <2>1, <2>2, <2>3, <2>4, QueuedSaysTheSame
<1>5. ASSUME NEW d \in Copy, LockExpires(d) \/ Deliver(d) PROVE SaysInv'
  <2>1. /\ UNCHANGED <<wire, cloneOf>> /\ fate[d] # "none" /\ fate'[d] \notin {"none", "queued"}
        /\ \A x \in Copy : x # d => fate'[x] = fate[x]
    BY <1>5 DEF LockExpires, Deliver, CopiesInv
  <2> QED
    BY <2>1, NothingQueued
<1>6. ASSUME NEW d \in Copy, OnSettled(d) PROVE SaysInv'
  <2>1. PICK op \in Way : UNCHANGED <<wire, cloneOf>> /\ fate' = CarriedOut(d, op)
    BY <1>6 DEF OnSettled
  <2> QED
    BY <2>1, NothingQueued, WayIs DEF CarriedOut, CopiesInv
<1>7. ASSUME NEW c \in Call, ManagedSettlement(c) PROVE SaysInv'
  <2>1. asked[c] \in Way /\ UNCHANGED <<wire, cloneOf>>
    BY <1>7 DEF ManagedSettlement, CopiesInv
  <2>2. \/ fate[c[1]] = "locked" /\ fate' = [fate EXCEPT ![c[1]] = asked[c]]
        \/ UNCHANGED fate
    BY <1>7 DEF ManagedSettlement
  <2> QED
    BY <2>1, <2>2, NothingQueued, WayIs DEF CopiesInv
<1>8. CASE LinkLost
  <2>1. ASSUME NEW x \in Copy
        PROVE  fate'[x] = fate[x] \/ (fate[x] = "locked" /\ fate'[x] \in Way)
    BY <1>8, LinkLostEnds
  <2>2. UNCHANGED <<wire, cloneOf>>
    BY <1>8 DEF LinkLost
  <2> QED
    BY <2>1, <2>2, NothingQueued, WayIs
<1>9. ASSUME NEW d \in Copy,
             \/ RenewTimerFires(d) \/ Renewed(d) \/ RenewalFails(d) \/ HandlerSettles(d)
             \/ HandlerReturns(d) \/ HandlerThrows(d) \/ AfterSettlement(d)
      PROVE  SaysInv'
  BY <1>1, <1>9 DEF RenewTimerFires, Renewed, RenewalFails, HandlerSettles, HandlerReturns,
     HandlerThrows, AfterSettlement
<1>10. ASSUME NEW c \in Call, SettlementTimesOut(c) PROVE SaysInv'
  BY <1>1, <1>10 DEF SettlementTimesOut
<1>11. CASE Reattach \/ Close \/ UNCHANGED vars
  BY <1>1, <1>11 DEF Reattach, Close, vars
<1> QED
  BY <1>2, <1>3, <1>4, <1>5, <1>6, <1>7, <1>8, <1>9, <1>10, <1>11 DEF Next

(* However often a message is sent again, by the task of the retries or by the broker, it
   says what it said at first, whatever fields and user properties it has. *)
THEOREM NothingIsLostOnTheWay == Spec => []RetriesSayTheSame
<1>1. Init => IInv /\ SaysInv
  BY InitHolds, SaysInit
<1>2. IInv /\ SaysInv /\ [Next]_vars => SaysInv'
  BY SaysNext
<1>3. SaysInv => RetriesSayTheSame
  BY DEF SaysInv
<1> QED
  BY <1>1, <1>2, <1>3, Invariance, PTL DEF Spec

-----------------------------------------------------------------------------
\* What is known of a settlement that was not asked for: its promise is not in the map, no
\* timer is for it, and no disposition is on the way because of it; nor does the receiver
\* settle a message before its handler has ended.
AskedInv ==
    /\ \A d \in Copy : phase[d] \in {"none", "handling"} => call[<<d, "receiver">>] = "none"
    /\ timed \subseteq Call /\ \A c \in timed : call[c] # "none"
    /\ \A d \in Copy : pending[d] # None => call[<<d, pending[d]>>] # "none"
    /\ \A m \in moving : \E x \in Caller :
          call[<<m[1], x>>] # "none" /\ asked[<<m[1], x>>] = m[2]

SettledInv == AskedInv /\ ResolvedIsSettled

LEMMA SettledInit == Init => SettledInv
  BY DEF Init, SettledInv, AskedInv, ResolvedIsSettled, Call, Caller

\* Steps that ask for no settlement.
LEMMA NothingAsked ==
    ASSUME CopiesInv, AskedInv, UNCHANGED asked,
           \A c \in Call : call'[c] = "none" <=> call[c] = "none",
           \A d \in Copy : phase'[d] \in {"none", "handling"} => phase[d] \in {"none", "handling"},
           timed' \subseteq timed, moving' \subseteq moving,
           \A d \in Copy : pending'[d] \in {pending[d], None}
    PROVE  AskedInv'
<1>1. "receiver" \in Caller /\ \A e \in Copy, x \in Caller : <<e, x>> \in Call
  BY DEF Call, Caller
<1>2. \A d \in Copy : phase'[d] \in {"none", "handling"} => call'[<<d, "receiver">>] = "none"
  BY <1>1 DEF AskedInv
<1>3. timed' \subseteq Call /\ \A c \in timed' : call'[c] # "none"
  BY DEF AskedInv
<1>4. \A d \in Copy : pending'[d] # None => call'[<<d, pending'[d]>>] # "none"
  BY <1>1 DEF AskedInv, CopiesInv
<1>5. ASSUME NEW m \in moving'
      PROVE  \E x \in Caller : call'[<<m[1], x>>] # "none" /\ asked'[<<m[1], x>>] = m[2]
  <2>1. PICK x \in Caller : call[<<m[1], x>>] # "none" /\ asked[<<m[1], x>>] = m[2]
    BY DEF AskedInv
  <2>2. m[1] \in Copy
    BY DEF CopiesInv
  <2> QED
    BY <1>1, <2>1, <2>2
<1> QED
  BY <1>2, <1>3, <1>4, <1>5 DEF AskedInv

\* A message is settled: the promise is new, and says what was asked for.
LEMMA SettleAsks ==
    ASSUME CopiesInv, AskedInv,
           NEW d \in Copy, NEW w \in Caller, NEW op \in Way,
           Settle(<<d, w>>, op), call[<<d, w>>] = "none",
           w = "receiver" => phase'[d] \notin {"none", "handling"},
           \A e \in Copy : phase'[e] \in {"none", "handling"} => phase'[e] = phase[e]
    PROVE  /\ AskedInv'
           /\ \A c \in Call : call'[c] = "resolved" => call[c] = "resolved"
           /\ \A c \in Call : call[c] # "none" => call'[c] # "none" /\ asked'[c] = asked[c]
<1>1. <<d, w>> \in Call /\ <<d, w>>[1] = d /\ \A e \in Copy, x \in Caller : <<e, x>> \in Call
  BY DEF Call
<1>2. /\ asked' = [asked EXCEPT ![<<d, w>>] = op]
      /\ \E v \in {"rejected", "waiting", "managed"} : call' = [call EXCEPT ![<<d, w>>] = v]
      /\ moving' \subseteq moving \cup {<<d, op>>}
      /\ timed' \subseteq timed \cup {<<d, w>>}
      /\ pending' = pending \/ pending' = [pending EXCEPT ![d] = w]
  BY <1>1 DEF Settle
<1>3. /\ asked'[<<d, w>>] = op /\ call'[<<d, w>>] \notin {"none", "resolved"}
      /\ \A c \in Call : c # <<d, w>> => asked'[c] = asked[c] /\ call'[c] = call[c]
  BY <1>1, <1>2 DEF CopiesInv
<1>4. \A c \in Call : call[c] # "none" => call'[c] # "none" /\ asked'[c] = asked[c]
  BY <1>3
<1>5. \A c \in Call : call'[c] = "resolved" => call[c] = "resolved"
  BY <1>1, <1>3
<1>6. ASSUME NEW m \in moving'
      PROVE  \E x \in Caller : call'[<<m[1], x>>] # "none" /\ asked'[<<m[1], x>>] = m[2]
  <2>1. CASE m = <<d, op>>
    <3>1. m[1] = d /\ m[2] = op
      BY <2>1
    <3> QED
      BY <1>3, <3>1
  <2>2. CASE m \in moving
    <3>1. PICK x \in Caller : call[<<m[1], x>>] # "none" /\ asked[<<m[1], x>>] = m[2]
      BY <2>2 DEF AskedInv
    <3>2. m[1] \in Copy
      BY <2>2 DEF CopiesInv
    <3> QED
      BY <1>1, <1>4, <3>1, <3>2
  <2> QED
    BY <1>2, <2>1, <2>2
<1>7. \A e \in Copy : phase'[e] \in {"none", "handling"} => call'[<<e, "receiver">>] = "none"
  <2>1. "receiver" \in Caller
    BY DEF Caller
  <2> QED
    BY <1>1, <1>3, <2>1 DEF AskedInv
<1>8. timed' \subseteq Call /\ \A c \in timed' : call'[c] # "none"
  BY <1>1, <1>2, <1>3, <1>4 DEF AskedInv
<1>9. ASSUME NEW e \in Copy, pending'[e] # None PROVE call'[<<e, pending'[e]>>] # "none"
  <2>1. CASE pending'[e] = pending[e]
    <3>1. <<e, pending[e]>> \in Call
      BY <1>9, <2>1 DEF CopiesInv, Call
    <3> QED
      BY <1>4, <1>9, <2>1, <3>1 DEF AskedInv
  <2>2. CASE e = d /\ pending'[e] = w
    BY <1>3, <2>2
  <2> QED
    BY <1>2, <2>1, <2>2 DEF CopiesInv
<1> QED
  BY <1>4, <1>5, <1>6, <1>7, <1>8, <1>9 DEF AskedInv

\* A step that resolves no promise.
LEMMA NothingResolved ==
    ASSUME ResolvedIsSettled,
           \A c \in Call : call'[c] = "resolved" => call[c] = "resolved",
           \A c \in Call : call[c] # "none" => call'[c] # "none" /\ asked'[c] = asked[c],
           \A d \in Copy : fate[d] \in Way \cup {"gone"} =>
               fate'[d] = fate[d] \/ (fate[d] = "abandon" /\ fate'[d] = "gone")
    PROVE  ResolvedIsSettled'
<1>1. ASSUME NEW d \in Copy, NEW w \in Caller, call'[<<d, w>>] = "resolved"
      PROVE  /\ fate'[d] \in Way \cup {"gone"}
             /\ \/ \E x \in Caller \ {w} : call'[<<d, x>>] # "none"
                \/ fate'[d] = asked'[<<d, w>>]
                \/ fate'[d] = "gone" /\ asked'[<<d, w>>] = "abandon"
  <2>1. \A x \in Caller : <<d, x>> \in Call
    BY DEF Call
  <2>2. call[<<d, w>>] = "resolved" /\ asked'[<<d, w>>] = asked[<<d, w>>]
    BY <1>1, <2>1
  <2>3. /\ fate[d] \in Way \cup {"gone"}
        /\ \/ \E x \in Caller \ {w} : call[<<d, x>>] # "none"
           \/ fate[d] = asked[<<d, w>>]
           \/ fate[d] = "gone" /\ asked[<<d, w>>] = "abandon"
    BY <2>2 DEF ResolvedIsSettled
  <2>4. fate'[d] = fate[d] \/ (fate[d] = "abandon" /\ fate'[d] = "gone")
    BY <2>3
  <2> QED
    BY <2>1, <2>2, <2>3, <2>4
<1> QED
  BY <1>1 DEF ResolvedIsSettled

\* A promise that resolves: the broker has carried out what it was for, or what the other
\* settlement of the message was for.
LEMMA OneResolved ==
    ASSUME CopiesInv, ResolvedIsSettled, NEW d \in Copy, NEW w \in Caller, NEW op \in Way,
           fate[d] = "locked", fate' = [fate EXCEPT ![d] = op],
           call' = [call EXCEPT ![<<d, w>>] = "resolved"], UNCHANGED asked,
           \E x \in Caller : call[<<d, x>>] # "none" /\ asked[<<d, x>>] = op
    PROVE  ResolvedIsSettled'
<1>1. <<d, w>> \in Call /\ \A e \in Copy, x \in Caller : <<e, x>> \in Call
  BY DEF Call
<1>2. /\ call'[<<d, w>>] = "resolved"
      /\ \A c \in Call : c # <<d, w>> => call'[c] = call[c]
      /\ \A c \in Call : call[c] # "none" => call'[c] # "none"
  BY <1>1 DEF CopiesInv
<1>3. /\ fate'[d] = op
      /\ \A e \in Copy : e # d => fate'[e] = fate[e]
  BY DEF CopiesInv
<1>4. ASSUME NEW e \in Copy, NEW v \in Caller, call'[<<e, v>>] = "resolved"
      PROVE  /\ fate'[e] \in Way \cup {"gone"}
             /\ \/ \E x \in Caller \ {v} : call'[<<e, x>>] # "none"
                \/ fate'[e] = asked'[<<e, v>>]
                \/ fate'[e] = "gone" /\ asked'[<<e, v>>] = "abandon"
  <2>1. CASE e # d
    <3>1. call[<<e, v>>] = "resolved"
      BY <1>1, <1>2, <1>4, <2>1
    <3>2. /\ fate[e] \in Way \cup {"gone"}
          /\ \/ \E x \in Caller \ {v} : call[<<e, x>>] # "none"
             \/ fate[e] = asked[<<e, v>>]
             \/ fate[e] = "gone" /\ asked[<<e, v>>] = "abandon"
      BY <3>1 DEF ResolvedIsSettled
    <3> QED
      BY <1>1, <1>2, <1>3, <2>1, <3>2
  <2>2. CASE e = d
    <3>1. v = w
      <4>1. call[<<d, v>>] # "resolved"
        BY WayIs DEF ResolvedIsSettled
      <4> QED
        BY <1>1, <1>2, <1>4, <2>2, <4>1
    <3>2. PICK x \in Caller : call[<<d, x>>] # "none" /\ asked[<<d, x>>] = op
      OBVIOUS
    <3>3. call'[<<d, x>>] # "none"
      BY <1>1, <1>2, <3>2
    <3> QED
      BY <1>3, <2>2, <3>1, <3>2, <3>3
  <2> QED
    BY <2>1, <2>2
<1> QED
  BY <1>4 DEF ResolvedIsSettled

LEMMA SettledNext == IInv /\ SettledInv /\ [Next]_vars => SettledInv'
<1> SUFFICES ASSUME IInv, SettledInv, [Next]_vars PROVE SettledInv'
  OBVIOUS
<1> USE DEF IInv, SettledInv, options, broker, linkVars, locks, calls
<1>0. \A d \in Copy, w \in Caller : <<d, w>> \in Call /\ <<d, w>>[1] = d /\ <<d, w>>[2] = w
  BY DEF Call
<1>1. ASSUME UNCHANGED calls,
             \A d \in Copy : phase'[d] \in {"none", "handling"} => phase[d] \in {"none", "handling"},
             \A d \in Copy : fate[d] \in Way \cup {"gone"} =>
                 fate'[d] = fate[d] \/ (fate[d] = "abandon" /\ fate'[d] = "gone")
      PROVE  SettledInv'
  BY <1>1, NothingAsked, NothingResolved
<1>2. ASSUME NEW m \in Post, Send(m) PROVE SettledInv'
  <2>1. PICK d \in Copy : /\ Enqueue(d, ToAmqp(m), d)
                          /\ fate' = [fate EXCEPT ![d] = "queued"]
    BY <1>2 DEF Send
  <2>2. \A e \in Copy : fate[e] \in Way \cup {"gone"} => fate'[e] = fate[e]
    BY <2>1, WayIs DEF CopiesInv, Enqueue
  <2> QED
    BY <1>1, <1>2, <2>2 DEF Send
<1>3. ASSUME NEW d \in Copy, SendRetry(d) PROVE SettledInv'
  <2>1. PICK e \in Copy : fate[e] = "none" /\ fate' = [fate EXCEPT ![e] = "queued"]
    BY <1>3 DEF SendRetry, Enqueue
  <2>2. \A x \in Copy : fate[x] \in Way \cup {"gone"} => fate'[x] = fate[x]
    BY <2>1, WayIs DEF CopiesInv
  <2> QED
    BY <1>1, <1>3, <2>2 DEF SendRetry
<1>4. ASSUME NEW d \in Copy, Requeue(d) PROVE SettledInv'
  <2>1. PICK e \in Copy : /\ fate[e] = "none"
                          /\ fate' = [fate EXCEPT ![e] = "queued", ![d] = "gone"]
    BY <1>4 DEF Requeue, Enqueue
  <2>2. fate[d] \in {"lost", "abandon"}
    BY <1>4 DEF Requeue
  <2>3. \A x \in Copy : fate[x] \in Way \cup {"gone"} =>
           fate'[x] = fate[x] \/ (fate[x] = "abandon" /\ fate'[x] = "gone")
    BY <2>1, <2>2, WayIs DEF CopiesInv
  <2> QED
    BY <1>1, <1>4, <2>3 DEF Requeue
<1>5. ASSUME NEW d \in Copy, LockExpires(d) \/ Deliver(d) PROVE SettledInv'
  <2>1. /\ UNCHANGED calls /\ fate[d] \in {"locked", "queued"}
        /\ \A x \in Copy : x # d => fate'[x] = fate[x] /\ phase'[x] = phase[x]
        /\ phase[d] \in {"none", "handling"} \/ phase'[d] = phase[d]
    BY <1>5 DEF LockExpires, Deliver, CopiesInv
  <2> QED
    BY <1>1, <2>1, WayIs
<1>6. ASSUME NEW d \in Copy, HandlerSettles(d) PROVE SettledInv'
  <2>1. PICK op \in Op : Settle(<<d, "handler">>, op)
    BY <1>6 DEF HandlerSettles
  <2>2. op \in Way /\ "handler" \in Caller
    BY DEF Way, Caller
  <2>3. call[<<d, "handler">>] = "none" /\ UNCHANGED <<phase, fate>>
    BY <1>6 DEF HandlerSettles
  <2> QED
    BY <2>1, <2>2, <2>3, SettleAsks, NothingResolved
<1>7. ASSUME NEW d \in Copy, HandlerReturns(d) \/ HandlerThrows(d) PROVE SettledInv'
  <2>1. /\ phase[d] = "handling" /\ UNCHANGED fate
        /\ \A e \in Copy : e # d => phase'[e] = phase[e]
        /\ phase'[d] \notin {"none", "handling"}
        /\ \/ Settle(<<d, "receiver">>, "complete") \/ Settle(<<d, "receiver">>, "abandon")
           \/ UNCHANGED calls
    BY <1>7 DEF HandlerReturns, HandlerThrows, CopiesInv
  <2>2. "complete" \in Way /\ "abandon" \in Way /\ "receiver" \in Caller
    BY DEF Way, Caller
  <2>3. call[<<d, "receiver">>] = "none"
    BY <2>1 DEF AskedInv
  <2>4. CASE UNCHANGED calls
    BY <1>1, <2>1, <2>4
  <2>5. ASSUME NEW op \in Way, Settle(<<d, "receiver">>, op) PROVE SettledInv'
    BY <2>1, <2>2, <2>3, <2>5, SettleAsks, NothingResolved
  <2> QED
    BY <2>1, <2>2, <2>4, <2>5
<1>8. ASSUME NEW d \in Copy, AfterSettlement(d) PROVE SettledInv'
  <2>1. /\ UNCHANGED <<fate, calls>>
        /\ \A e \in Copy : phase'[e] \in {phase[e], "done"}
    BY <1>8 DEF AfterSettlement, CopiesInv
  <2> QED
    BY <1>1, <2>1
<1>9. ASSUME NEW d \in Copy, OnSettled(d) PROVE SettledInv'
  <2>1. PICK op \in Way :
           /\ <<d, op>> \in moving /\ moving' = moving \ {<<d, op>>} /\ fate' = CarriedOut(d, op)
           /\ IF pending[d] = None
              THEN UNCHANGED <<call, pending, timed>>
              ELSE /\ call' = [call EXCEPT ![<<d, pending[d]>>] = Verdict(fate[d] = "locked")]
                   /\ timed' = timed \ TimersOf(d)
                   /\ pending' = [pending EXCEPT ![d] = None]
    BY <1>9 DEF OnSettled
  <2>2. UNCHANGED <<phase, asked>>
    BY <1>9 DEF OnSettled
  <2>3. \A x \in Copy : fate[x] \in Way \cup {"gone"} => fate'[x] = fate[x]
    BY <2>1, WayIs DEF CarriedOut, CopiesInv
  <2>4. CASE pending[d] = None
    <3>1. UNCHANGED <<call, pending, timed>>
      BY <2>1, <2>4
    <3>2. AskedInv'
      BY <2>1, <2>2, <3>1, NothingAsked
    <3> QED
      BY <2>2, <2>3, <3>1, <3>2, NothingResolved
  <2>5. CASE pending[d] # None
    <3>1. pending[d] \in Caller /\ <<d, pending[d]>> \in Call /\ call[<<d, pending[d]>>] # "none"
      BY <1>0, <2>5 DEF CopiesInv, AskedInv
    <3>2. /\ call' = [call EXCEPT ![<<d, pending[d]>>] = Verdict(fate[d] = "locked")]
          /\ timed' \subseteq timed /\ pending' = [pending EXCEPT ![d] = None]
      BY <2>1, <2>5
    <3>3. \A c \in Call : call'[c] = "none" <=> call[c] = "none"
      BY <3>1, <3>2 DEF CopiesInv, Verdict
    <3>4. \A e \in Copy : pending'[e] \in {pending[e], None}
      BY <3>2 DEF CopiesInv
    <3>5. AskedInv'
      BY <2>1, <2>2, <3>2, <3>3, <3>4, NothingAsked
    <3>6. CASE fate[d] = "locked"
      <4>1. PICK x \in Caller : call[<<d, x>>] # "none" /\ asked[<<d, x>>] = op
        BY <2>1 DEF AskedInv
      <4>2. fate' = [fate EXCEPT ![d] = op] /\ call' = [call EXCEPT ![<<d, pending[d]>>] = "resolved"]
        BY <2>1, <3>2, <3>6 DEF CarriedOut, Verdict
      <4>3. ResolvedIsSettled'
        BY <2>2, <3>1, <3>6, <4>1, <4>2, OneResolved
      <4> QED
        BY <3>5, <4>3
    <3>7. CASE fate[d] # "locked"
      <4>1. \A c \in Call : call'[c] = "resolved" => call[c] = "resolved"
        BY <3>1, <3>2, <3>7 DEF CopiesInv, Verdict
      <4> QED
        BY <2>2, <2>3, <3>3, <3>5, <4>1, NothingResolved
    <3> QED
      BY <3>6, <3>7
  <2> QED
    BY <2>4, <2>5
<1>10. ASSUME NEW c \in Call, SettlementTimesOut(c) PROVE SettledInv'
  <2>1. /\ UNCHANGED <<phase, fate, asked, moving>> /\ c \in timed /\ timed' \subseteq timed
        /\ call' = [call EXCEPT ![c] = "rejected"]
        /\ pending' = [pending EXCEPT ![c[1]] = None]
    BY <1>10 DEF SettlementTimesOut
  <2>2. \A x \in Call : /\ call'[x] = "none" <=> call[x] = "none"
                        /\ call'[x] = "resolved" => call[x] = "resolved"
    BY <2>1 DEF CopiesInv, AskedInv
  <2>3. \A e \in Copy : pending'[e] \in {pending[e], None}
    BY <2>1 DEF CopiesInv
  <2>4. AskedInv'
    BY <2>1, <2>2, <2>3, NothingAsked
  <2> QED
    BY <2>1, <2>2, <2>4, NothingResolved
<1>11. ASSUME NEW c \in Call, ManagedSettlement(c) PROVE SettledInv'
  <2>1. PICK d \in Copy, w \in Caller : c = <<d, w>>
    BY DEF Call
  <2>2. /\ call[c] = "managed" /\ asked[c] \in Way
        /\ UNCHANGED <<phase, asked, pending, timed, moving>>
    BY <1>11 DEF ManagedSettlement, CopiesInv
  <2>3. \/ /\ fate[d] = "locked" /\ fate' = [fate EXCEPT ![d] = asked[c]]
           /\ call' = [call EXCEPT ![c] = "resolved"]
        \/ UNCHANGED fate /\ call' = [call EXCEPT ![c] = "rejected"]
    BY <1>0, <1>11, <2>1 DEF ManagedSettlement
  <2>4. \A x \in Call : call'[x] = "none" <=> call[x] = "none"
    BY <2>2, <2>3 DEF CopiesInv
  <2>5. AskedInv'
    BY <2>2, <2>4, NothingAsked
  <2>6. CASE /\ fate[d] = "locked" /\ fate' = [fate EXCEPT ![d] = asked[c]]
             /\ call' = [call EXCEPT ![c] = "resolved"]
    <3>1. call[<<d, w>>] # "none"
      BY <2>1, <2>2
    <3>2. ResolvedIsSettled'
      BY <2>1, <2>2, <2>6, <3>1, OneResolved
    <3> QED
      BY <2>5, <3>2
  <2>7. CASE UNCHANGED fate /\ call' = [call EXCEPT ![c] = "rejected"]
    <3>1. \A x \in Call : call'[x] = "resolved" => call[x] = "resolved"
      BY <2>7 DEF CopiesInv
    <3> QED
      BY <2>2, <2>4, <2>5, <2>7, <3>1, NothingResolved
  <2> QED
    BY <2>3, <2>6, <2>7
<1>12. CASE LinkLost \/ Close
  <2>1. UNCHANGED <<phase, asked, call, pending, timed>> /\ moving' = {}
    BY <1>12 DEF LinkLost, Close
  <2>2. \A d \in Copy : fate[d] \in Way \cup {"gone"} => fate'[d] = fate[d]
    BY <1>12, LinkLostEnds, WayIs DEF Close
  <2>3. AskedInv'
    BY <2>1, NothingAsked
  <2> QED
    BY <2>1, <2>2, <2>3, NothingResolved
<1>13. ASSUME NEW d \in Copy, RenewTimerFires(d) \/ Renewed(d) \/ RenewalFails(d)
       PROVE  SettledInv'
  BY <1>1, <1>13 DEF RenewTimerFires, Renewed, RenewalFails
<1>14. CASE Reattach \/ UNCHANGED vars
  BY <1>1, <1>14 DEF Reattach, vars
<1> QED
  BY <1>2, <1>3, <1>4, <1>5, <1>6, <1>7, <1>8, <1>9, <1>10, <1>11, <1>12, <1>13, <1>14 DEF Next

(* No promise of a settlement resolves unless the broker has settled the message, in the
   way that was asked for or, when the handler and the receiver both settle it, in the way
   one of them asked for: over both links, whatever is lost or answered late. *)
THEOREM ResolvedSettlementsHold == Spec => []ResolvedIsSettled
<1>1. Init => IInv /\ SettledInv
  BY InitHolds, SettledInit
<1>2. IInv /\ SettledInv /\ [Next]_vars => SettledInv'
  BY SettledNext
<1>3. SettledInv => ResolvedIsSettled
  BY DEF SettledInv
<1> QED
  BY <1>1, <1>2, <1>3, Invariance, PTL DEF Spec

================================================================================
