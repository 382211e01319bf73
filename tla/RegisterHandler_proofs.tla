------------------------ MODULE RegisterHandler_proofs ------------------------
(* Proofs about the receivers.  StreamingReceiver, for any number of receivers,
   attempts and losses: the types, and the two safety properties of the
   reconnection.  RegisterHandler, for any number of routes: every step of it is a
   step of the former or leaves it alone, so the invariant of the reconnection holds
   there too.  BatchingReceiver, for any number of calls, messages and losses, and
   any maximum: no two batches share a link. *)
EXTENDS RegisterHandler, BatchingReceiver, FiniteSetTheorems, TLAPS

-----------------------------------------------------------------------------
(* StreamingReceiver *)

\* What the code relies on without saying so.  A link is open only while nothing
\* is under way and nobody closed its receiver, so no event of an open link is
\* ignored; the context never knows a receiver that was closed; and the error
\* handler has been told of a fatal link error, and not yet of the loss that a
\* reconnection is to repair.
ReconnectInv ==
    /\ \A r \in Receiver :
          /\ link[r] = "open" => op[r] = "idle"
          /\ closed[r] => link[r] = "none"
          /\ op[r] \in {"unused", "creating"} => ~closed[r] /\ link[r] = "none" /\ told[r] = 0
          /\ op[r] \in {"connecting", "waiting"} => told[r] < losses[r]
          /\ op[r] = "waiting" => attempts[r] < MaxAttempts
          /\ op[r] = "closing" =>
                IF cause[r] = "fatal" THEN told[r] > 0 ELSE told[r] < losses[r]
    /\ streaming # None => link[streaming] # "none" /\ ~closed[streaming]
    /\ ToldOnce
    /\ LossIsHandled

IInv == RecvTypeOK /\ ReconnectInv

-----------------------------------------------------------------------------
LEMMA InitHolds == RecvInit => IInv
  BY ReceiverOK DEF RecvInit, IInv, RecvTypeOK, ReconnectInv, ToldOnce, LossIsHandled,
     LinkState, OpState, Detaching, Error

LEMMA TypeNext == IInv /\ [RecvNext]_recvVars => RecvTypeOK'
<1> SUFFICES ASSUME IInv, [RecvNext]_recvVars PROVE RecvTypeOK'
  OBVIOUS
<1> USE ReceiverOK DEF IInv, RecvTypeOK, LinkState, OpState, Detaching, Error
<1>1. ASSUME NEW r \in Receiver, Create(r) PROVE RecvTypeOK'
  BY <1>1 DEF Create, GoTo
<1>2. ASSUME NEW r \in Receiver, Created(r) PROVE RecvTypeOK'
  <2>1. CASE IsClosed
    BY <1>2, <2>1 DEF Created, GoTo
  <2>2. CASE ~IsClosed
    BY <1>2, <2>2 DEF Created, GoTo, Attach
  <2> QED
    BY <2>1, <2>2
<1>3. ASSUME NEW r \in Receiver, CreateRejected(r) PROVE RecvTypeOK'
  BY <1>3 DEF CreateRejected, GoTo, Tell
<1>4. ASSUME NEW r \in Receiver, NEW e \in Error, LinkDetached(r, e) PROVE RecvTypeOK'
  BY <1>4 DEF LinkDetached, Fault, Tell, OnDetached, Ignored, GoTo
<1>5. ASSUME NEW e \in Error, Disconnected(e) PROVE RecvTypeOK'
  BY <1>5 DEF Disconnected, Fault
<1>6. CASE ContextDetached
  BY <1>6 DEF ContextDetached, OnDetached, Ignored, GoTo
<1>7. ASSUME NEW r \in Receiver, LinkClosed(r) PROVE RecvTypeOK'
  <2>1. CASE Swallowed(r)
    BY <1>7, <2>1 DEF LinkClosed, Swallowed, GoTo
  <2>2. CASE ~Swallowed(r) /\ cause[r] # "retryable"
    <3>1. GiveUp(r) /\ UNCHANGED <<attempts, closing, cause, dropped, faults, losses>>
      BY <1>7, <2>2 DEF LinkClosed
    <3> QED
      BY <3>1 DEF GiveUp, GoTo, Tell, Close
  <2>3. CASE cause[r] = "retryable"
    BY <1>7, <2>3 DEF LinkClosed, Swallowed, GoTo
  <2> QED
    BY <2>1, <2>2, <2>3
<1>8. ASSUME NEW r \in Receiver, Reattached(r) PROVE RecvTypeOK'
  BY <1>8 DEF Reattached, ClosedMeanwhile, GoTo, Attach
<1>9. ASSUME NEW r \in Receiver, ReattachFailed(r) PROVE RecvTypeOK'
  <2>1. CASE GoTo(r, "waiting") /\ UNCHANGED <<told, closed, link, streaming>>
    BY <1>9, <2>1 DEF ReattachFailed, GoTo
  <2>2. CASE GiveUp(r)
    BY <1>9, <2>2 DEF ReattachFailed, GiveUp, GoTo, Tell, Close
  <2> QED
    BY <1>9, <2>1, <2>2 DEF ReattachFailed
<1>10. ASSUME NEW r \in Receiver, RetryDelayed(r) PROVE RecvTypeOK'
  <2>1. attempts[r] \in 0..MaxAttempts /\ attempts[r] < MaxAttempts
    BY <1>10 DEF RetryDelayed, ReconnectInv
  <2>2. attempts[r] + 1 \in 0..MaxAttempts
    BY <2>1
  <2> QED
    BY <1>10, <2>2 DEF RetryDelayed, GoTo
<1>11. CASE CloseBegins
  BY <1>11 DEF CloseBegins, Close
<1>12. CASE CloseEnds
  BY <1>12 DEF CloseEnds
<1>13. CASE UNCHANGED recvVars
  BY <1>13 DEF recvVars
<1> QED
  BY <1>1, <1>2, <1>3, <1>4, <1>5, <1>6, <1>7, <1>8, <1>9, <1>10, <1>11, <1>12, <1>13
  DEF RecvNext, Continue, recvVars

LEMMA ReconnectNext == IInv /\ RecvTypeOK' /\ [RecvNext]_recvVars => ReconnectInv'
<1> SUFFICES ASSUME IInv, RecvTypeOK', [RecvNext]_recvVars PROVE ReconnectInv'
  OBVIOUS
<1> USE ReceiverOK DEF IInv, RecvTypeOK, ReconnectInv, ToldOnce, LossIsHandled,
    LinkState, OpState, Detaching, Error, IsClosed
<1>1. ASSUME NEW r \in Receiver, Create(r) PROVE ReconnectInv'
  BY <1>1 DEF Create, GoTo
<1>2. ASSUME NEW r \in Receiver, Created(r) PROVE ReconnectInv'
  BY <1>2 DEF Created, GoTo, Attach
<1>3. ASSUME NEW r \in Receiver, CreateRejected(r) PROVE ReconnectInv'
  BY <1>3 DEF CreateRejected, GoTo, Tell
<1>4. ASSUME NEW r \in Receiver, NEW e \in Error, LinkDetached(r, e) PROVE ReconnectInv'
  BY <1>4 DEF LinkDetached, Fault, Tell, OnDetached, Ignored, GoTo
<1>5. ASSUME NEW e \in Error, Disconnected(e) PROVE ReconnectInv'
  BY <1>5 DEF Disconnected, Fault
<1>6. CASE ContextDetached
  BY <1>6 DEF ContextDetached, OnDetached, Ignored, GoTo
<1>7. ASSUME NEW r \in Receiver, LinkClosed(r) PROVE ReconnectInv'
  BY <1>7 DEF LinkClosed, Swallowed, GoTo, GiveUp, Tell, Close
<1>8. ASSUME NEW r \in Receiver, Reattached(r) PROVE ReconnectInv'
  BY <1>8 DEF Reattached, ClosedMeanwhile, GoTo, Attach
<1>9. ASSUME NEW r \in Receiver, ReattachFailed(r) PROVE ReconnectInv'
  BY <1>9 DEF ReattachFailed, AttemptsLeft, GoTo, GiveUp, Tell, Close
<1>10. ASSUME NEW r \in Receiver, RetryDelayed(r) PROVE ReconnectInv'
  BY <1>10 DEF RetryDelayed, GoTo
<1>11. CASE CloseBegins
  BY <1>11 DEF CloseBegins, Close
<1>12. CASE CloseEnds
  BY <1>12 DEF CloseEnds
<1>13. CASE UNCHANGED recvVars
  BY <1>13 DEF recvVars
<1> QED
  BY <1>1, <1>2, <1>3, <1>4, <1>5, <1>6, <1>7, <1>8, <1>9, <1>10, <1>11, <1>12, <1>13
  DEF RecvNext, Continue, recvVars

-----------------------------------------------------------------------------
LEMMA Invariant == RecvSpec => []IInv
<1>1. RecvInit => IInv
  BY InitHolds
<1>2. IInv /\ [RecvNext]_recvVars => IInv'
  BY TypeNext, ReconnectNext DEF IInv
<1> QED
  BY <1>1, <1>2, PTL DEF RecvSpec

\* Every variable keeps its type.
THEOREM TypeCorrect == RecvSpec => []RecvTypeOK
<1>1. IInv => RecvTypeOK
  BY DEF IInv
<1> QED
  BY <1>1, Invariant, PTL

\* The receiver that the context knows is open, is being attached again, or its
\* route was told that it is not.
THEOREM LossesAreHandled == RecvSpec => []LossIsHandled
<1>1. IInv => LossIsHandled
  BY DEF IInv, ReconnectInv
<1> QED
  BY <1>1, Invariant, PTL

\* No loss is told to the error handler twice.
THEOREM LossesAreToldOnce == RecvSpec => []ToldOnce
<1>1. IInv => ToldOnce
  BY DEF IInv, ReconnectInv
<1> QED
  BY <1>1, Invariant, PTL

-----------------------------------------------------------------------------
(* RegisterHandler *)

LEMMA LibrarySteps == [Next]_vars => [RecvNext]_recvVars
<1> SUFFICES ASSUME [Next]_vars PROVE [RecvNext]_recvVars
  OBVIOUS
<1> USE DEF Route
<1>1. ASSUME NEW r \in Route, Register(r) PROVE [RecvNext]_recvVars
  BY <1>1 DEF Register, RecvNext
<1>2. ASSUME NEW r \in Route, Poll(r) PROVE [RecvNext]_recvVars
  BY <1>2 DEF Poll
<1>3. ASSUME NEW r \in Route, LinkStep(r) PROVE [RecvNext]_recvVars
  BY <1>3 DEF LinkStep, Heard, RecvNext
<1>4. ASSUME NEW r \in Route, LinkFails(r) PROVE [RecvNext]_recvVars
  BY <1>4 DEF LinkFails, Heard, RecvNext
<1>5. ASSUME NEW r \in Route, HandlerFails(r) PROVE [RecvNext]_recvVars
  BY <1>5 DEF HandlerFails
<1>6. CASE Silent
  BY <1>6 DEF Silent, RecvNext
<1>7. CASE UNCHANGED vars
  BY <1>7 DEF vars
<1> QED
  BY <1>1, <1>2, <1>3, <1>4, <1>5, <1>6, <1>7 DEF Next

\* The receivers keep their invariant, whatever the routes do with them.
LEMMA LibraryInvariant == Spec => []IInv
<1>1. Init => IInv
  BY InitHolds DEF Init
<1>2. IInv /\ [Next]_vars => IInv'
  BY LibrarySteps, TypeNext, ReconnectNext DEF IInv
<1> QED
  BY <1>1, <1>2, PTL DEF Spec

\* A receiver that was closed never has a link again.
LEMMA ClosedForGood ==
    ASSUME NEW r \in Receiver
    PROVE  IInv /\ closed[r] /\ [RecvNext]_recvVars => closed'[r]
<1> SUFFICES ASSUME IInv, closed[r], [RecvNext]_recvVars PROVE closed'[r]
  OBVIOUS
<1>1. closed \in [Receiver -> BOOLEAN]
  BY DEF IInv, RecvTypeOK
<1>2. closed' = closed \/ \E q \in Receiver : closed' = [closed EXCEPT ![q] = TRUE]
  <2>1. ASSUME NEW q \in Receiver, Create(q) \/ Continue(q)
        PROVE  closed' = closed \/ closed' = [closed EXCEPT ![q] = TRUE]
    BY <2>1 DEF Create, Continue, Created, CreateRejected, LinkClosed, Reattached,
       ReattachFailed, RetryDelayed, Attach, Close, GiveUp, GiveUpSilently
  <2>2. ASSUME NEW q \in Receiver, NEW e \in Error, LinkDetached(q, e)
        PROVE  closed' = closed
    BY <2>2 DEF LinkDetached
  <2>3. ASSUME NEW e \in Error, Disconnected(e) PROVE closed' = closed
    BY <2>3 DEF Disconnected
  <2>4. CASE ContextDetached
    BY <2>4 DEF ContextDetached
  <2>5. CASE CloseBegins
    BY <2>5 DEF CloseBegins, Close, IInv, RecvTypeOK
  <2>6. CASE CloseEnds
    BY <2>6 DEF CloseEnds
  <2>7. CASE UNCHANGED recvVars
    BY <2>7 DEF recvVars
  <2> QED
    BY <2>1, <2>2, <2>3, <2>4, <2>5, <2>6, <2>7 DEF RecvNext
<1> QED
  BY <1>1, <1>2

\* A receiver that was closed has no open link in the end, also when it was closed
\* while its link was being attached again: under no fairness, for it has none from
\* the moment it is closed.
THEOREM ClosedReceiversStaySo == Spec => ClosedStaysClosed
<1>1. ASSUME NEW r \in Receiver
      PROVE  Spec => [](closed[r] => <>[](link[r] # "open"))
  <2>1. IInv /\ closed[r] => link[r] # "open"
    BY DEF IInv, ReconnectInv
  <2>2. IInv /\ closed[r] /\ [Next]_vars => (closed[r])'
    BY LibrarySteps, ClosedForGood, Zenon
  <2> QED
    BY <2>1, <2>2, LibraryInvariant, PTL DEF Spec
<1> QED
  BY <1>1, Zenon DEF ClosedStaysClosed

\* What a route's promise, its `done` and its receiver have to do with one
\* another: nobody reports an error of a route that is not registered, and one
\* that was refused has no receiver to report one.
RouteInv ==
    \A r \in Route :
        /\ promise[r] = "none" => op[r] = "unused" /\ ~done[r] /\ ~timer[r]
        /\ promise[r] = "pending" => ~done[r]
        /\ promise[r] = "resolved" => done[r]
        /\ promise[r] = "rejected" /\ ~done[r] => op[r] = "unused" /\ ~timer[r]

-----------------------------------------------------------------------------
RouteType ==
    /\ done \in [Route -> BOOLEAN]
    /\ timer \in [Route -> BOOLEAN]
    /\ promise \in [Route -> {"none", "pending"} \cup Settled]
    /\ raised \in [Route -> Nat]
    /\ reports \in [Route -> [Phase -> Nat]]

\* What reporting an error of r does to the two counts.
LEMMA ReportEffect ==
    ASSUME RouteType, NEW r \in Route, NEW p \in Phase, Report(r, p),
           EveryErrorReportedOnce
    PROVE  /\ raised' \in [Route -> Nat] /\ reports' \in [Route -> [Phase -> Nat]]
           /\ EveryErrorReportedOnce'
           /\ \A q \in Route : q # r => reports'[q] = reports[q]
           /\ reports'[r]["register"] =
                IF p = "register" THEN reports[r]["register"] + 1 ELSE reports[r]["register"]
<1> USE DEF RouteType, Phase
<1>1. /\ raised' = [raised EXCEPT ![r] = @ + 1]
      /\ reports' = [reports EXCEPT ![r] = [reports[r] EXCEPT ![p] = @ + 1]]
  BY DEF Report
<1>2. /\ raised' \in [Route -> Nat] /\ reports' \in [Route -> [Phase -> Nat]]
      /\ \A q \in Route : q # r => reports'[q] = reports[q] /\ raised'[q] = raised[q]
      /\ raised'[r] = raised[r] + 1
      /\ reports'[r] = [reports[r] EXCEPT ![p] = @ + 1]
  BY <1>1
<1>3. reports[r] \in [Phase -> Nat]
  OBVIOUS
<1>4. reports'[r]["register"] + reports'[r]["listening"] + reports'[r]["message"]
        = reports[r]["register"] + reports[r]["listening"] + reports[r]["message"] + 1
  BY <1>2, <1>3
<1>5. EveryErrorReportedOnce'
  BY <1>2, <1>4 DEF EveryErrorReportedOnce
<1> QED
  BY <1>2, <1>3, <1>5

\* What an error of a route that is registered does.
LEMMA RouteErrorEffect ==
    ASSUME RouteType, RouteInv, EveryErrorReportedOnce, OneVerdict,
           NEW r \in Route, NEW p \in {"listening", "message"}, RouteError(r, p),
           op[r] # "unused", UNCHANGED timer,
           op' \in [Receiver -> OpState], \A q \in Route : q # r => op'[q] = op[q]
    PROVE  /\ RouteType' /\ RouteInv' /\ EveryErrorReportedOnce' /\ OneVerdict'
           /\ \A q \in Route : promise'[q] = "resolved" => promise[q] = "resolved"
<1> USE DEF RouteType, Settled, Phase
<1>1. CASE done[r]
  <2>1. Report(r, p) /\ UNCHANGED <<done, promise, timer>>
    BY <1>1 DEF RouteError
  <2>2. promise[r] \in {"resolved", "rejected"}
    BY <1>1 DEF RouteInv
  <2> QED
    BY <1>1, <2>1, <2>2, ReportEffect DEF RouteInv, OneVerdict
<1>2. CASE ~done[r]
  <2>1. /\ Report(r, "register") /\ UNCHANGED timer
        /\ done' = [done EXCEPT ![r] = TRUE]
        /\ promise' = [promise EXCEPT ![r] = "rejected"]
    BY <1>2 DEF RouteError
  <2>2. promise[r] = "pending"
    BY <1>2 DEF RouteInv
  <2>3. reports[r]["register"] = 0
    BY <2>2 DEF OneVerdict
  <2>4. /\ raised' \in [Route -> Nat] /\ reports' \in [Route -> [Phase -> Nat]]
        /\ EveryErrorReportedOnce'
        /\ \A q \in Route : q # r => reports'[q] = reports[q]
        /\ reports'[r]["register"] = 1
    BY <2>1, <2>3, ReportEffect
  <2>5. RouteInv'
    BY <2>1 DEF RouteInv
  <2>6. OneVerdict'
    BY <2>1, <2>4 DEF OneVerdict
  <2> QED
    BY <2>1, <2>4, <2>5, <2>6
<1> QED
  BY <1>1, <1>2

\* The steps of a receiver concern it alone, and one that was created stays
\* created; one that was attached stays attached.
LEMMA OpEffect ==
    ASSUME RecvTypeOK, ReconnectInv, NEW r \in Route,
           Continue(r) \/ \E e \in Error : LinkDetached(r, e)
    PROVE  /\ op[r] # "unused"
           /\ \A q \in Route : q # r => op'[q] = op[q]
           /\ op'[r] # "unused"
           /\ op[r] \in Attached => op'[r] \in Attached
<1> USE DEF RecvTypeOK, Route, Attached, Detaching, GoTo
<1>1. ASSUME NEW e \in Error, LinkDetached(r, e) PROVE op[r] = "idle"
  BY <1>1 DEF LinkDetached, ReconnectInv
<1>2. ASSUME NEW e \in Error, LinkDetached(r, e)
      PROVE  op' = op \/ op' = [op EXCEPT ![r] = "closing"]
  BY <1>2 DEF LinkDetached, OnDetached
<1>3. CASE Created(r)
  BY <1>3 DEF Created
<1>4. CASE CreateRejected(r)
  BY <1>4 DEF CreateRejected
<1>5. CASE LinkClosed(r)
  <2>1. op' = [op EXCEPT ![r] = "idle"] \/ op' = [op EXCEPT ![r] = "connecting"]
    BY <1>5 DEF LinkClosed, GiveUp
  <2> QED
    BY <1>5, <2>1 DEF LinkClosed
<1>6. CASE Reattached(r)
  BY <1>6 DEF Reattached
<1>7. CASE ReattachFailed(r)
  <2>1. op' = [op EXCEPT ![r] = "idle"] \/ op' = [op EXCEPT ![r] = "waiting"]
    BY <1>7 DEF ReattachFailed, GiveUp
  <2> QED
    BY <1>7, <2>1 DEF ReattachFailed
<1>8. CASE RetryDelayed(r)
  BY <1>8 DEF RetryDelayed
<1> QED
  BY <1>1, <1>2, <1>3, <1>4, <1>5, <1>6, <1>7, <1>8 DEF Continue

LEMMA SilentEffect ==
    ASSUME RecvTypeOK, ReconnectInv, Silent
    PROVE  \A q \in Route :
              /\ op'[q] = "unused" <=> op[q] = "unused"
              /\ op[q] \in Attached => op'[q] \in Attached
<1> USE DEF RecvTypeOK, Route, Attached, Detaching, GoTo, OpState
<1>1. CASE UNCHANGED op
  BY <1>1
<1>2. CASE ContextDetached /\ op' # op
  <2>1. streaming \in Route /\ op' = [op EXCEPT ![streaming] = "closing"]
    BY <1>2 DEF ContextDetached, OnDetached
  <2>2. op[streaming] # "unused"
    BY <2>1, ReceiverOK DEF ReconnectInv
  <2> QED
    BY <2>1, <2>2
<1> QED
  BY <1>1, <1>2 DEF Silent, Disconnected, CloseBegins, CloseEnds

-----------------------------------------------------------------------------
\* The safety properties of RegisterHandler are inductive with RouteInv, on top
\* of the invariant of the receivers.
VerdictInv ==
    /\ RouteType /\ RouteInv
    /\ EveryErrorReportedOnce /\ OneVerdict /\ ResolvedAfterAttach

LEMMA VerdictInit == Init => VerdictInv
<1> SUFFICES ASSUME Init PROVE VerdictInv
  OBVIOUS
<1> USE DEF Init, RecvInit, Route, Phase, Settled
<1>1. RouteType
  BY DEF RouteType
<1>2. RouteInv
  BY DEF RouteInv
<1>3. EveryErrorReportedOnce
  <2>1. \A r \in Route : /\ raised[r] = 0 /\ reports[r]["register"] = 0
                        /\ reports[r]["listening"] = 0 /\ reports[r]["message"] = 0
    OBVIOUS
  <2> HIDE DEF Init
  <2> QED
    BY <2>1, 0 + 0 + 0 = 0 DEF EveryErrorReportedOnce
<1>4. OneVerdict /\ ResolvedAfterAttach
  BY DEF OneVerdict, ResolvedAfterAttach
<1> QED
  BY <1>1, <1>2, <1>3, <1>4 DEF VerdictInv

LEMMA RegisterKeeps ==
    ASSUME IInv, VerdictInv, NEW r \in Route, Register(r)
    PROVE  VerdictInv'
<1> USE DEF VerdictInv, RouteType, Phase, Settled
<1>1. promise[r] = "none" /\ UNCHANGED done
  BY DEF Register
<1>2. op[r] = "unused" /\ ~done[r] /\ ~timer[r] /\ reports[r]["register"] = 0
  BY <1>1 DEF RouteInv, OneVerdict
<1>3. CASE IsClosed \/ IsReceiving
  <2>1. /\ promise' = [promise EXCEPT ![r] = "rejected"]
        /\ Report(r, "register")
        /\ UNCHANGED <<recvVars, timer>>
    BY <1>3 DEF Register
  <2>2. /\ raised' \in [Route -> Nat] /\ reports' \in [Route -> [Phase -> Nat]]
        /\ EveryErrorReportedOnce'
        /\ \A q \in Route : q # r => reports'[q] = reports[q]
        /\ reports'[r]["register"] = 1
    BY <1>2, <2>1, ReportEffect
  <2>3. RouteType'
    BY <1>1, <2>1, <2>2
  <2>4. RouteInv'
    BY <1>1, <1>2, <2>1 DEF RouteInv, recvVars
  <2>5. OneVerdict'
    BY <2>1, <2>2 DEF OneVerdict
  <2>6. ResolvedAfterAttach'
    BY <2>1 DEF ResolvedAfterAttach, recvVars
  <2> QED
    BY <2>2, <2>3, <2>4, <2>5, <2>6
<1>4. CASE ~(IsClosed \/ IsReceiving)
  <2>1. /\ op' = [op EXCEPT ![r] = "creating"]
        /\ promise' = [promise EXCEPT ![r] = "pending"]
        /\ timer' = [timer EXCEPT ![r] = TRUE]
        /\ UNCHANGED <<raised, reports>>
    BY <1>4 DEF Register, Create, GoTo
  <2>2. op \in [Receiver -> OpState]
    BY DEF IInv, RecvTypeOK
  <2>3. RouteType'
    BY <1>1, <2>1
  <2>4. RouteInv'
    BY <1>1, <1>2, <2>1, <2>2 DEF RouteInv, Route
  <2>5. EveryErrorReportedOnce'
    BY <2>1 DEF EveryErrorReportedOnce
  <2>6. OneVerdict'
    BY <1>2, <2>1 DEF OneVerdict
  <2>7. ResolvedAfterAttach'
    BY <1>2, <2>1, <2>2 DEF ResolvedAfterAttach, Attached, Detaching, Route
  <2> QED
    BY <2>3, <2>4, <2>5, <2>6, <2>7
<1> QED
  BY <1>3, <1>4

\* A poll that sees the context's receiver receiving sees a link that was
\* attached: this is where the invariant of the receivers is needed.
LEMMA PollKeeps ==
    ASSUME IInv, VerdictInv, NEW r \in Route, Poll(r)
    PROVE  VerdictInv'
<1> USE DEF VerdictInv, RouteType, Settled
<1>1. timer[r] /\ UNCHANGED <<op, raised, reports>>
  BY DEF Poll, recvVars
<1>2. promise[r] # "none"
  BY <1>1 DEF RouteInv
<1>3. CASE Seen
  <2>1. /\ done' = [done EXCEPT ![r] = TRUE]
        /\ promise' = [promise EXCEPT ![r] = IF @ = "pending" THEN "resolved" ELSE @]
        /\ timer' = [timer EXCEPT ![r] = FALSE]
    BY <1>3 DEF Poll
  <2>2. \E q \in Route : op[q] \in Attached
    <3>1. streaming \in Receiver /\ link[streaming] = "open"
      BY <1>3 DEF Seen, IsReceiving, IInv, RecvTypeOK
    <3>2. op[streaming] = "idle"
      BY <3>1 DEF IInv, ReconnectInv
    <3> QED
      BY <3>1, <3>2 DEF Attached, Route
  <2>3. RouteType'
    BY <1>1, <2>1
  <2>4. RouteInv'
    BY <1>1, <1>2, <2>1 DEF RouteInv
  <2>5. EveryErrorReportedOnce'
    BY <1>1 DEF EveryErrorReportedOnce
  <2>6. OneVerdict'
    BY <1>1, <2>1 DEF OneVerdict
  <2>7. ResolvedAfterAttach'
    BY <1>1, <2>2 DEF ResolvedAfterAttach
  <2> QED
    BY <2>3, <2>4, <2>5, <2>6, <2>7
<1>4. CASE ~Seen
  <2>1. timer' = [timer EXCEPT ![r] = ~done[r]] /\ UNCHANGED <<done, promise>>
    BY <1>4 DEF Poll, PollAgain
  <2>2. RouteType'
    BY <1>1, <2>1
  <2>3. RouteInv'
    BY <1>1, <1>2, <2>1 DEF RouteInv
  <2>4. EveryErrorReportedOnce' /\ OneVerdict' /\ ResolvedAfterAttach'
    BY <1>1, <2>1 DEF EveryErrorReportedOnce, OneVerdict, ResolvedAfterAttach
  <2> QED
    BY <2>2, <2>3, <2>4
<1> QED
  BY <1>3, <1>4

LEMMA HeardKeeps ==
    ASSUME IInv, IInv', VerdictInv, NEW r \in Route, LinkStep(r) \/ LinkFails(r)
    PROVE  VerdictInv'
<1> USE DEF VerdictInv
<1>1. Continue(r) \/ \E e \in Error : LinkDetached(r, e)
  BY DEF LinkStep, LinkFails, Heard
<1>2. /\ op[r] # "unused" /\ op'[r] # "unused"
      /\ \A q \in Route : q # r => op'[q] = op[q]
      /\ op[r] \in Attached => op'[r] \in Attached
  BY <1>1, OpEffect DEF IInv
<1>3. op' \in [Receiver -> OpState]
  BY DEF IInv, RecvTypeOK
<1>4. CASE RouteError(r, "listening") /\ UNCHANGED timer
  <2>1. /\ RouteType' /\ RouteInv' /\ EveryErrorReportedOnce' /\ OneVerdict'
        /\ \A q \in Route : promise'[q] = "resolved" => promise[q] = "resolved"
    BY <1>2, <1>3, <1>4, RouteErrorEffect
  <2>2. ResolvedAfterAttach'
    BY <1>2, <2>1 DEF ResolvedAfterAttach
  <2> QED
    BY <2>1, <2>2
<1>5. CASE UNCHANGED routeVars
  <2>1. UNCHANGED <<done, timer, promise, raised, reports>>
    BY <1>5 DEF routeVars
  <2>2. RouteType' /\ EveryErrorReportedOnce' /\ OneVerdict'
    BY <2>1 DEF RouteType, EveryErrorReportedOnce, OneVerdict
  <2>3. RouteInv'
    BY <1>2, <2>1 DEF RouteInv
  <2>4. ResolvedAfterAttach'
    BY <1>2, <2>1 DEF ResolvedAfterAttach
  <2> QED
    BY <2>2, <2>3, <2>4
<1> QED
  BY <1>4, <1>5 DEF LinkStep, LinkFails, Heard

LEMMA HandlerFailsKeeps ==
    ASSUME IInv, VerdictInv, NEW r \in Route, HandlerFails(r)
    PROVE  VerdictInv'
<1> USE DEF VerdictInv
<1>1. /\ RouteError(r, "message") /\ UNCHANGED <<timer, op>>
      /\ op[r] # "unused"
  BY DEF HandlerFails, Detaching, recvVars
<1>2. op' \in [Receiver -> OpState]
  BY <1>1 DEF IInv, RecvTypeOK
<1>3. /\ RouteType' /\ RouteInv' /\ EveryErrorReportedOnce' /\ OneVerdict'
      /\ \A q \in Route : promise'[q] = "resolved" => promise[q] = "resolved"
  BY <1>1, <1>2, RouteErrorEffect
<1>4. ResolvedAfterAttach'
  BY <1>1, <1>3 DEF ResolvedAfterAttach
<1> QED
  BY <1>3, <1>4

LEMMA SilentKeeps ==
    ASSUME IInv, VerdictInv, Silent, UNCHANGED routeVars
    PROVE  VerdictInv'
<1> USE DEF VerdictInv
<1>1. UNCHANGED <<done, timer, promise, raised, reports>>
  BY DEF routeVars
<1>2. \A q \in Route :
         /\ op'[q] = "unused" <=> op[q] = "unused"
         /\ op[q] \in Attached => op'[q] \in Attached
  BY SilentEffect DEF IInv
<1>3. RouteType' /\ EveryErrorReportedOnce' /\ OneVerdict'
  BY <1>1 DEF RouteType, EveryErrorReportedOnce, OneVerdict
<1>4. RouteInv'
  BY <1>1, <1>2 DEF RouteInv
<1>5. ResolvedAfterAttach'
  BY <1>1, <1>2 DEF ResolvedAfterAttach
<1> QED
  BY <1>3, <1>4, <1>5

LEMMA VerdictNext == IInv /\ IInv' /\ VerdictInv /\ [Next]_vars => VerdictInv'
<1> SUFFICES ASSUME IInv, IInv', VerdictInv, [Next]_vars PROVE VerdictInv'
  OBVIOUS
<1>1. CASE UNCHANGED vars
  BY <1>1 DEF vars, recvVars, routeVars, VerdictInv, RouteType, RouteInv,
     EveryErrorReportedOnce, OneVerdict, ResolvedAfterAttach
<1>2. CASE Next
  BY <1>2, RegisterKeeps, PollKeeps, HeardKeeps, HandlerFailsKeeps, SilentKeeps DEF Next
<1> QED
  BY <1>1, <1>2

LEMMA VerdictInvariant == Spec => []VerdictInv
  BY VerdictInit, VerdictNext, LibraryInvariant, PTL DEF Spec

-----------------------------------------------------------------------------
\* Every variable keeps its type, those of the receivers included.
THEOREM HandlerTypeCorrect == Spec => []TypeOK
<1>1. IInv /\ VerdictInv => TypeOK
  BY DEF IInv, VerdictInv, RouteType, TypeOK
<1> QED
  BY <1>1, LibraryInvariant, VerdictInvariant, PTL

\* The error handler is told of every error once, whichever of the promise and
\* the error callback takes it (register-message-handler.ts 11-19).
THEOREM ErrorsReportedOnce == Spec => []EveryErrorReportedOnce
<1>1. VerdictInv => EveryErrorReportedOnce
  BY DEF VerdictInv
<1> QED
  BY <1>1, VerdictInvariant, PTL

\* A route hears of one failure to register at most, and of none once its
\* promise resolved.
THEOREM VerdictsAreFinal == Spec => []OneVerdict
<1>1. VerdictInv => OneVerdict
  BY DEF VerdictInv
<1> QED
  BY <1>1, VerdictInvariant, PTL

\* A promise resolves only after some link of the receiver was attached
\* (register-message-handler.ts 21-30), whatever was detached or closed since.
THEOREM ResolvedMeansAttached == Spec => []ResolvedAfterAttach
<1>1. VerdictInv => ResolvedAfterAttach
  BY DEF VerdictInv
<1> QED
  BY <1>1, VerdictInvariant, PTL

-----------------------------------------------------------------------------
(* BatchingReceiver *)

\* A receiver works for the call that was given it last, and for no other that
\* waits: receiveMessages() asks whether the receiver is busy only while its link is
\* open, so one that is open for a call that waits has to be busy.  A receiver has
\* the name of the call that created it, so a call not made yet has none.
WorksForOne ==
    /\ \A c \in Call :
          /\ batch[c] = "pending" =>
                /\ on[c] \in Call /\ user[on[c]] = c
                /\ batchLink[on[c]] = "open" => on[c] \in busy
          /\ batch[c] = "none" => batchLink[c] = "none" /\ on[c] = NoReceiver /\ got[c] = {}
          /\ on[c] # NoReceiver => batch[on[c]] # "none"
          /\ user[c] # NoReceiver => on[user[c]] = c
    /\ ctx # NoReceiver => batch[ctx] # "none"

\* A link that is open and not busy has no credit left, which is why the next call
\* may add its own; and a batch that collects has room.
RoomInv ==
    \A o \in Call :
        /\ batchLink[o] = "open" /\ o \notin busy => credit[o] = 0
        /\ batchLink[o] = "connecting" =>
              /\ o \in busy /\ phase[o] = "connecting"
              /\ user[o] \in Call /\ got[user[o]] = {}
        /\ phase[o] = "collecting" =>
              /\ user[o] \in Call /\ credit[o] <= Max
              /\ Cardinality(got[user[o]]) < Max

BatchInv == BatchTypeOK /\ WorksForOne /\ RoomInv

LEMMA BatchInitHolds == BatchInit => BatchInv
<1> SUFFICES ASSUME BatchInit PROVE BatchInv
  OBVIOUS
<1>1. Cardinality({}) = 0
  BY FS_EmptySet
<1>2. BatchTypeOK
  <2>1. Msgs \in Nat /\ MaxFaults \in Nat /\ Max \in Nat
    BY BatchOK
  <2>2. 0 \in 0..Msgs /\ 0 \in 0..MaxFaults /\ 0 \in 0..(Max + 1)
    BY <2>1
  <2>3. got \in [Call -> SUBSET Msg] /\ \A c \in Call : Cardinality(got[c]) <= Max
    <3>1. got \in [Call -> SUBSET Msg] /\ \A c \in Call : got[c] = {}
      BY DEF BatchInit
    <3> QED
      BY <1>1, <2>1, <3>1
  <2> QED
    BY <2>2, <2>3 DEF BatchInit, BatchTypeOK
<1>3. /\ ctx = NoReceiver /\ \A c \in Call : batch[c] = "none" /\ batchLink[c] = "none"
      /\ \A c \in Call : /\ on[c] = NoReceiver /\ user[c] = NoReceiver /\ got[c] = {}
                        /\ phase[c] = "idle"
  BY DEF BatchInit
<1>4. WorksForOne
  BY <1>3 DEF WorksForOne
<1>5. RoomInv
  BY <1>3 DEF RoomInv
<1> QED
  BY <1>2, <1>4, <1>5 DEF BatchInv

\* The promise of a call settles once: one that has settled keeps its answer.
LEMMA SettleEffect ==
    ASSUME BatchTypeOK, NEW c, NEW v \in {"resolved", "rejected"}, batch' = Settle(c, v)
    PROVE  /\ batch' \in [Call -> {"none", "pending", "resolved", "rejected"}]
           /\ \A d \in Call : batch'[d] = IF d = c /\ batch[d] = "pending" THEN v ELSE batch[d]
  BY DEF Settle, BatchTypeOK

\* What finalAction() does to the receiver: it keeps it busy and the promise open
\* while it drains, and otherwise frees the one and settles the other; it ends with
\* credit only to drain it, or on a link that is lost.
Ended(o, left, lose) ==
    /\ phase' \in [Call -> {"idle", "connecting", "collecting", "draining"}]
    /\ phase'[o] # "collecting" /\ \A p \in Call \ {o} : phase'[p] = phase[p]
    /\ credit' \in [Call -> 0..(Max + 1)]
    /\ \A p \in Call \ {o} : credit'[p] = credit[p]
    /\ batch' \in [Call -> {"none", "pending", "resolved", "rejected"}]
    /\ \A d \in Call : batch'[d] # batch[d] =>
          d = user[o] /\ batch[d] = "pending" /\ batch'[d] \in {"resolved", "rejected"}
    /\ \/ busy' = busy /\ left > 0
       \/ /\ busy' = busy \ {o} /\ \A d \in Call : d = user[o] => batch'[d] # "pending"
          /\ batchLink[o] = "open" /\ ~lose => credit'[o] = 0

LEMMA FinishEffect ==
    ASSUME BatchTypeOK, NEW o \in Call, NEW msgs, NEW left \in 0..Max, NEW lose \in BOOLEAN,
           Finish(o, msgs, left, lose)
    PROVE  Ended(o, left, lose)
<1> USE DEF Ended
<1> DEFINE drains == ~lose /\ left > 0 /\ batchLink[o] \in {"open", "down"}
           v == IF lose /\ (mode = "peekLock" \/ msgs = {}) THEN "rejected" ELSE "resolved"
<1>1. /\ phase' = [phase EXCEPT ![o] = IF drains THEN "draining" ELSE "idle"]
      /\ busy' = IF drains THEN busy ELSE busy \ {o}
      /\ credit' = [credit EXCEPT ![o] = IF drains THEN left + 1 ELSE left]
      /\ batch' = IF drains THEN batch ELSE Settle(user[o], v)
  BY DEF Finish, StillBusy
<1>2. v \in {"resolved", "rejected"}
  OBVIOUS
<1>3. Max \in Nat /\ left \in Nat /\ left <= Max
  BY BatchOK
<1> HIDE DEF v
<1>4. phase' \in [Call -> {"idle", "connecting", "collecting", "draining"}]
      /\ phase'[o] # "collecting" /\ \A p \in Call \ {o} : phase'[p] = phase[p]
  BY <1>1 DEF BatchTypeOK
<1>5. credit' \in [Call -> 0..(Max + 1)] /\ \A p \in Call \ {o} : credit'[p] = credit[p]
  BY <1>1, <1>3 DEF BatchTypeOK
<1>6. CASE drains
  BY <1>1, <1>4, <1>5, <1>6 DEF BatchTypeOK
<1>7. CASE ~drains
  <2>1. batch' = Settle(user[o], v)
    BY <1>1, <1>7
  <2>2. /\ batch' \in [Call -> {"none", "pending", "resolved", "rejected"}]
        /\ \A d \in Call : batch'[d] =
              IF d = user[o] /\ batch[d] = "pending" THEN v ELSE batch[d]
    BY <2>1, <1>2, SettleEffect
  <2>3. \A d \in Call : d = user[o] => batch'[d] # "pending"
    BY <2>2, <1>2
  <2>4. batchLink[o] = "open" /\ ~lose => credit'[o] = 0
    BY <1>1, <1>3, <1>7 DEF BatchTypeOK
  <2> QED
    BY <1>1, <1>2, <1>4, <1>5, <1>7, <2>2, <2>3, <2>4
<1> QED
  BY <1>6, <1>7

\* One message more is at most one more in the batch.
LEMMA OneMore ==
    ASSUME BatchTypeOK, NEW c \in Call, sent < Msgs, Cardinality(got[c]) < Max
    PROVE  /\ got[c] \cup {sent + 1} \in SUBSET Msg
           /\ Cardinality(got[c] \cup {sent + 1}) <= Max
<1>1. IsFiniteSet(got[c]) /\ got[c] \subseteq Msg
  <2>1. IsFiniteSet(Msg)
    BY BatchOK, FS_Interval DEF Msg
  <2> QED
    BY <2>1, FS_Subset DEF BatchTypeOK
<1>2. sent + 1 \in Msg
  BY BatchOK DEF BatchTypeOK, Msg
<1>3. Cardinality(got[c]) \in Nat /\ Max \in Nat
  BY <1>1, FS_CardinalityType, BatchOK
<1>4. Cardinality(got[c] \cup {sent + 1}) \in {Cardinality(got[c]), Cardinality(got[c]) + 1}
  BY <1>1, FS_AddElement
<1> QED
  BY <1>1, <1>2, <1>3, <1>4

\* receiveMessages() on the receiver that the context knows and that is open, which
\* no call uses any more.
LEMMA ReusesKeeps ==
    ASSUME BatchInv, NEW c \in Call, Receive(c), IsOpen(ctx)
    PROVE  BatchInv'
<1> DEFINE o == ctx
<1>1. /\ batch[c] = "none" /\ o \in Call /\ batchLink[o] = "open" /\ o \notin busy
      /\ batch' = [batch EXCEPT ![c] = "pending"]
      /\ ctx' = o /\ on' = [on EXCEPT ![c] = o] /\ user' = [user EXCEPT ![o] = c]
      /\ busy' = busy \cup {o} /\ phase' = [phase EXCEPT ![o] = "collecting"]
      /\ credit' = [credit EXCEPT ![o] = @ + Max] /\ batchLink' = batchLink
      /\ UNCHANGED <<mode, apiClosed, got, sent, lost, batchFaults>>
  BY DEF Receive, IsOpen, IsReceivingMessages, BatchInv, BatchTypeOK, Call, NoReceiver
<1>2. /\ c # o /\ credit[o] = 0 /\ got[c] = {} /\ on[c] = NoReceiver
      /\ \A d \in Call : batch[d] = "pending" => on[d] # o
      /\ \A p \in Call : user[p] # c
  BY <1>1 DEF BatchInv, BatchTypeOK, WorksForOne, RoomInv, Call, NoReceiver
<1>3. Cardinality({}) = 0 /\ Max \in Nat /\ Max > 0
  BY FS_EmptySet, BatchOK
<1> HIDE DEF o
<1>4. BatchTypeOK'
  BY <1>1, <1>2, <1>3 DEF BatchInv, BatchTypeOK
<1>5. WorksForOne'
  BY <1>1, <1>2 DEF BatchInv, BatchTypeOK, WorksForOne, Call, NoReceiver
<1>6. RoomInv'
  <2> SUFFICES ASSUME NEW p \in Call
               PROVE /\ batchLink'[p] = "open" /\ p \notin busy' => credit'[p] = 0
                     /\ batchLink'[p] = "connecting" =>
                           /\ p \in busy' /\ phase'[p] = "connecting"
                           /\ user'[p] \in Call /\ got'[user'[p]] = {}
                     /\ phase'[p] = "collecting" =>
                           /\ user'[p] \in Call /\ credit'[p] <= Max
                           /\ Cardinality(got'[user'[p]]) < Max
    BY DEF RoomInv
  <2>1. CASE p = o
    <3>1. user'[p] = c /\ got'[c] = {} /\ credit'[p] = Max
      BY <1>1, <1>2, <1>3, <2>1 DEF BatchInv, BatchTypeOK
    <3>2. Cardinality(got'[user'[p]]) = 0
      BY <1>3, <3>1
    <3> QED
      BY <1>1, <1>3, <2>1, <3>1, <3>2 DEF BatchInv, BatchTypeOK
  <2>2. CASE p # o
    BY <1>1, <1>2, <2>2 DEF BatchInv, BatchTypeOK, RoomInv
  <2> QED
    BY <2>1, <2>2
<1> QED
  BY <1>4, <1>5, <1>6 DEF BatchInv

\* receiveMessages() on a receiver of its own.
LEMMA CreatesKeeps ==
    ASSUME BatchInv, NEW c \in Call, Receive(c), ~IsOpen(ctx)
    PROVE  BatchInv'
<1>1. /\ batch[c] = "none"
      /\ batch' = [batch EXCEPT ![c] = "pending"]
      /\ ctx' = c /\ on' = [on EXCEPT ![c] = c] /\ user' = [user EXCEPT ![c] = c]
      /\ busy' = busy \cup {c} /\ phase' = [phase EXCEPT ![c] = "connecting"]
      /\ credit' = credit /\ batchLink' = [batchLink EXCEPT ![c] = "connecting"]
      /\ UNCHANGED <<mode, apiClosed, got, sent, lost, batchFaults>>
  BY DEF Receive
<1>2. /\ got[c] = {} /\ on[c] = NoReceiver /\ c # NoReceiver
      /\ \A d \in Call : on[d] # c
      /\ \A p \in Call : user[p] # c
  BY <1>1 DEF BatchInv, BatchTypeOK, WorksForOne, Call, NoReceiver
<1>3. BatchTypeOK'
  BY <1>1, <1>2 DEF BatchInv, BatchTypeOK
<1>4. WorksForOne'
  BY <1>1, <1>2 DEF BatchInv, BatchTypeOK, WorksForOne
<1>5. RoomInv'
  BY <1>1, <1>2 DEF BatchInv, BatchTypeOK, RoomInv
<1> QED
  BY <1>3, <1>4, <1>5 DEF BatchInv

\* The link of a receiver is there, or refused.
LEMMA AnsweredKeeps ==
    ASSUME BatchInv, NEW o \in Call, Answered(o)
    PROVE  BatchInv'
<1>1. Cardinality({}) = 0 /\ Max \in Nat /\ Max > 0
  BY FS_EmptySet, BatchOK
<1>2. batchLink[o] = "connecting" => user[o] \in Call /\ got[user[o]] = {} /\ o \in busy
  BY DEF BatchInv, RoomInv
<1>3. CASE Connected(o)
  <2>1. /\ batchLink[o] = "connecting" /\ batchLink' = [batchLink EXCEPT ![o] = "open"]
        /\ ctx' = (IF ctx = NoReceiver THEN o ELSE ctx)
        /\ phase' = [phase EXCEPT ![o] = "collecting"]
        /\ credit' = [credit EXCEPT ![o] = Max]
        /\ UNCHANGED <<mode, apiClosed, on, busy, user, batch, got, sent, lost, batchFaults>>
    BY <1>3 DEF Connected
  <2>2. BatchTypeOK'
    BY <1>1, <2>1 DEF BatchInv, BatchTypeOK
  <2>3. WorksForOne'
    BY <1>2, <2>1 DEF BatchInv, BatchTypeOK, WorksForOne
  <2>4. o \in busy /\ user[o] \in Call /\ Cardinality(got[user[o]]) = 0
    BY <1>1, <1>2, <2>1
  <2>5. RoomInv'
    BY <1>1, <2>1, <2>4 DEF BatchInv, BatchTypeOK, RoomInv
  <2> QED
    BY <2>2, <2>3, <2>5 DEF BatchInv
<1>4. CASE ConnectFails(o)
  <2>1. /\ batchLink[o] = "connecting" /\ batchLink' = [batchLink EXCEPT ![o] = "none"]
        /\ phase' = [phase EXCEPT ![o] = "idle"] /\ batch' = Settle(user[o], "rejected")
        /\ UNCHANGED <<mode, apiClosed, ctx, on, busy, user, credit, got, sent, lost,
                       batchFaults>>
    BY <1>4 DEF ConnectFails
  <2>2. /\ batch' \in [Call -> {"none", "pending", "resolved", "rejected"}]
        /\ \A d \in Call : batch'[d] =
              IF d = user[o] /\ batch[d] = "pending" THEN "rejected" ELSE batch[d]
    BY <2>1, SettleEffect DEF BatchInv
  <2>3. BatchTypeOK'
    BY <2>1, <2>2 DEF BatchInv, BatchTypeOK
  <2>4. WorksForOne'
    BY <2>1, <2>2 DEF BatchInv, BatchTypeOK, WorksForOne
  <2>5. RoomInv'
    BY <2>1 DEF BatchInv, BatchTypeOK, RoomInv
  <2> QED
    BY <2>3, <2>4, <2>5 DEF BatchInv
<1> QED
  BY <1>3, <1>4 DEF Answered

\* A batch ends, whatever ended it: the receiver works for no call any more unless it
\* has credit to drain.
LEMMA EndsKeeps ==
    ASSUME BatchInv, NEW o \in Call, user[o] \in Call, batchLink[o] # "connecting",
           NEW msgs, NEW left \in 0..Max, NEW lose \in BOOLEAN,
           left > 0 /\ batchLink[o] = "open" => o \in busy,
           Finish(o, msgs, left, lose), UNCHANGED <<mode, apiClosed, ctx, on, user>>,
           \/ ~lose /\ batchLink' = batchLink
           \/ batchLink' = [batchLink EXCEPT ![o] = "down"],
           got' \in [Call -> SUBSET Msg], \A c \in Call : Cardinality(got'[c]) <= Max,
           \A c \in Call : c # user[o] => got'[c] = got[c],
           sent' \in 0..Msgs, lost' \in {"no", "error", "silent"},
           batchFaults' \in 0..MaxFaults
    PROVE  BatchInv'
<1>1. Ended(o, left, lose)
  <2>1. BatchTypeOK
    BY DEF BatchInv
  <2> QED
    BY <2>1, FinishEffect
<1> USE DEF Ended
<1>2. /\ batchLink' \in [Call -> {"none", "connecting", "open", "down", "gone"}]
      /\ \A p \in Call \ {o} : batchLink'[p] = batchLink[p]
      /\ batchLink'[o] = "down" \/ (~lose /\ batchLink'[o] = batchLink[o])
  BY DEF BatchInv, BatchTypeOK
<1>3. /\ on[user[o]] = o /\ o # NoReceiver /\ batch[user[o]] # "none"
      /\ \A p \in Call \ {o} : user[p] # user[o]
  <2>1. o # NoReceiver /\ user[o] # NoReceiver
    BY DEF Call, NoReceiver
  <2> QED
    BY <2>1 DEF BatchInv, WorksForOne
<1>4. busy' \subseteq busy
  BY <1>1
<1>5. BatchTypeOK'
  BY <1>1, <1>2, <1>4 DEF BatchInv, BatchTypeOK
<1>6. WorksForOne'
  <2> SUFFICES ASSUME NEW c \in Call
               PROVE  /\ batch'[c] = "pending" =>
                            /\ on[c] \in Call /\ user[on[c]] = c
                            /\ batchLink'[on[c]] = "open" => on[c] \in busy'
                      /\ batch'[c] = "none" =>
                            batchLink'[c] = "none" /\ on[c] = NoReceiver /\ got'[c] = {}
                      /\ on[c] # NoReceiver => batch'[on[c]] # "none"
                      /\ user[c] # NoReceiver => on[user[c]] = c
                      /\ ctx # NoReceiver => batch'[ctx] # "none"
    BY DEF WorksForOne
  <2>1. \A d \in Call : batch'[d] = "pending" => batch[d] = "pending"
    BY <1>1
  <2>2. \A d \in Call : batch'[d] = "none" <=> batch[d] = "none"
    BY <1>1
  <2>3. batch[o] # "none"
    BY <1>3 DEF BatchInv, WorksForOne
  <2>4. \A p \in Call \ {o} : p \in busy => p \in busy'
    BY <1>1
  <2>5. batch'[c] = "pending" => on[c] \in Call /\ user[on[c]] = c
    BY <2>1 DEF BatchInv, WorksForOne
  <2>6. batch'[c] = "pending" /\ batchLink'[on[c]] = "open" => on[c] \in busy'
    <3> SUFFICES ASSUME batch'[c] = "pending", batchLink'[on[c]] = "open"
                 PROVE  on[c] \in busy'
      OBVIOUS
    <3>1. batchLink[on[c]] = "open" /\ on[c] \in busy
      BY <1>2, <2>1, <2>5 DEF BatchInv, WorksForOne
    <3>2. CASE on[c] = o
      BY <1>1, <2>5, <3>1, <3>2
    <3>3. CASE on[c] # o
      BY <2>4, <2>5, <3>1, <3>3
    <3> QED
      BY <3>2, <3>3
  <2>7. batch'[c] = "none" => batchLink'[c] = "none" /\ on[c] = NoReceiver /\ got'[c] = {}
    BY <1>2, <1>3, <2>2, <2>3 DEF BatchInv, WorksForOne
  <2>8. /\ on[c] # NoReceiver => batch'[on[c]] # "none"
        /\ user[c] # NoReceiver => on[user[c]] = c
        /\ ctx # NoReceiver => batch'[ctx] # "none"
    BY <2>2 DEF BatchInv, BatchTypeOK, WorksForOne
  <2> QED
    BY <2>5, <2>6, <2>7, <2>8
<1>7. RoomInv'
  <2> SUFFICES ASSUME NEW p \in Call
               PROVE /\ batchLink'[p] = "open" /\ p \notin busy' => credit'[p] = 0
                     /\ batchLink'[p] = "connecting" =>
                           /\ p \in busy' /\ phase'[p] = "connecting"
                           /\ user'[p] \in Call /\ got'[user'[p]] = {}
                     /\ phase'[p] = "collecting" =>
                           /\ user'[p] \in Call /\ credit'[p] <= Max
                           /\ Cardinality(got'[user'[p]]) < Max
    BY DEF RoomInv
  <2>1. CASE p = o
    BY <1>1, <1>2, <2>1 DEF BatchInv, RoomInv
  <2>2. CASE p # o
    <3>1. user[p] \in Call => got'[user[p]] = got[user[p]]
      BY <1>3, <2>2
    <3>2. /\ batchLink'[p] = batchLink[p] /\ phase'[p] = phase[p] /\ credit'[p] = credit[p]
          /\ p \in busy' <=> p \in busy
      BY <1>1, <1>2, <2>2
    <3> QED
      BY <3>1, <3>2 DEF BatchInv, RoomInv
  <2> QED
    BY <2>1, <2>2
<1> QED
  BY <1>5, <1>6, <1>7 DEF BatchInv

LEMMA TimerKeeps ==
    ASSUME BatchInv, NEW o \in Call, TimerFires(o)
    PROVE  BatchInv'
<1>1. /\ phase[o] = "collecting" /\ Finish(o, got[user[o]], credit[o], FALSE)
      /\ UNCHANGED <<mode, apiClosed, ctx, batchLink, on, user, got, sent, lost, batchFaults>>
  BY DEF TimerFires, WaitOver
<1>2. /\ user[o] \in Call /\ credit[o] \in 0..Max /\ batchLink[o] # "connecting"
      /\ credit[o] > 0 /\ batchLink[o] = "open" => o \in busy
  BY <1>1, BatchOK DEF BatchInv, BatchTypeOK, RoomInv
<1>3. /\ got' \in [Call -> SUBSET Msg] /\ \A c \in Call : Cardinality(got'[c]) <= Max
      /\ sent' \in 0..Msgs /\ lost' \in {"no", "error", "silent"}
      /\ batchFaults' \in 0..MaxFaults
  BY <1>1 DEF BatchInv, BatchTypeOK
<1>4. UNCHANGED <<mode, apiClosed, ctx, on, user>> /\ batchLink' = batchLink
      /\ \A c \in Call : c # user[o] => got'[c] = got[c]
  BY <1>1
<1> QED
  BY <1>1, <1>2, <1>3, <1>4, EndsKeeps

LEMMA DeliverKeeps ==
    ASSUME BatchInv, NEW o \in Call, Deliver(o)
    PROVE  BatchInv'
<1> DEFINE msgs == got[user[o]] \cup {sent + 1}
<1>1. /\ batchLink[o] = "open" /\ credit[o] > 0 /\ sent < Msgs /\ sent' = sent + 1
      /\ UNCHANGED <<mode, apiClosed, ctx, batchLink, on, user, lost, batchFaults>>
  BY DEF Deliver
<1>2. /\ credit[o] - 1 \in 0..(Max + 1) /\ sent' \in 0..Msgs /\ o \in busy
      /\ phase[o] = "collecting" => /\ user[o] \in Call /\ credit[o] - 1 \in 0..Max
                                    /\ Cardinality(got[user[o]]) < Max
  BY <1>1, BatchOK DEF BatchInv, BatchTypeOK, RoomInv
<1>3. phase[o] = "collecting" =>
         msgs \in SUBSET Msg /\ Cardinality(msgs) <= Max /\ Cardinality(msgs) \in Nat
  <2> SUFFICES ASSUME phase[o] = "collecting"
               PROVE  msgs \in SUBSET Msg /\ Cardinality(msgs) <= Max /\ Cardinality(msgs) \in Nat
    OBVIOUS
  <2>1. msgs \in SUBSET Msg /\ Cardinality(msgs) <= Max
    BY <1>1, <1>2, OneMore DEF BatchInv
  <2>2. IsFiniteSet(msgs)
    <3>1. IsFiniteSet(Msg)
      BY BatchOK, FS_Interval DEF Msg
    <3> HIDE DEF msgs
    <3> QED
      BY <2>1, <3>1, FS_Subset
  <2> QED
    BY <2>1, <2>2, FS_CardinalityType
<1>4. CASE /\ phase[o] = "collecting" /\ got' = [got EXCEPT ![user[o]] = msgs]
           /\ Cardinality(msgs) = Max /\ Finish(o, msgs, credit[o] - 1, FALSE)
  <2>1. /\ got' \in [Call -> SUBSET Msg] /\ \A c \in Call : Cardinality(got'[c]) <= Max
        /\ \A c \in Call : c # user[o] => got'[c] = got[c]
    BY <1>2, <1>3, <1>4 DEF BatchInv, BatchTypeOK
  <2>2. lost' \in {"no", "error", "silent"} /\ batchFaults' \in 0..MaxFaults
    BY <1>1 DEF BatchInv, BatchTypeOK
  <2>3. UNCHANGED <<mode, apiClosed, ctx, on, user>> /\ batchLink' = batchLink
        /\ batchLink[o] # "connecting"
    BY <1>1
  <2> HIDE DEF msgs
  <2> QED
    BY <1>2, <1>4, <2>1, <2>2, <2>3, EndsKeeps
<1>5. CASE /\ phase[o] = "collecting" /\ got' = [got EXCEPT ![user[o]] = msgs]
           /\ Cardinality(msgs) # Max
           /\ credit' = [credit EXCEPT ![o] = credit[o] - 1] /\ UNCHANGED <<busy, phase, batch>>
  <2>1. got' \in [Call -> SUBSET Msg] /\ \A c \in Call : Cardinality(got'[c]) <= Max
    BY <1>2, <1>3, <1>5 DEF BatchInv, BatchTypeOK
  <2>2. got'[user[o]] = msgs /\ \A c \in Call : c # user[o] => got'[c] = got[c]
    BY <1>2, <1>5 DEF BatchInv, BatchTypeOK
  <2>3. Cardinality(msgs) < Max
    BY <1>3, <1>5, BatchOK
  <2> HIDE DEF msgs
  <2>4. BatchTypeOK'
    BY <1>1, <1>2, <1>5, <2>1 DEF BatchInv, BatchTypeOK
  <2>5. /\ on[user[o]] = o /\ batch[user[o]] # "none"
        /\ \A p \in Call \ {o} : user[p] # user[o]
    <3>1. o # NoReceiver /\ user[o] # NoReceiver
      BY <1>2, <1>5 DEF Call, NoReceiver
    <3> QED
      BY <1>2, <1>5, <3>1 DEF BatchInv, WorksForOne
  <2>6. WorksForOne'
    BY <1>1, <1>5, <2>2, <2>5 DEF BatchInv, WorksForOne
  <2>7. RoomInv'
    <3> SUFFICES ASSUME NEW p \in Call
                 PROVE /\ batchLink'[p] = "open" /\ p \notin busy' => credit'[p] = 0
                       /\ batchLink'[p] = "connecting" =>
                             /\ p \in busy' /\ phase'[p] = "connecting"
                             /\ user'[p] \in Call /\ got'[user'[p]] = {}
                       /\ phase'[p] = "collecting" =>
                             /\ user'[p] \in Call /\ credit'[p] <= Max
                             /\ Cardinality(got'[user'[p]]) < Max
      BY DEF RoomInv
    <3>1. CASE p = o
      <4>1. user'[p] = user[o] /\ got'[user'[p]] = msgs /\ credit'[p] = credit[o] - 1
        BY <1>1, <1>5, <2>2, <3>1 DEF BatchInv, BatchTypeOK
      <4>2. Cardinality(got'[user'[p]]) < Max
        BY <2>3, <4>1
      <4> QED
        BY <1>1, <1>2, <1>5, <3>1, <4>1, <4>2
    <3>2. CASE p # o
      <4>1. /\ user'[p] = user[p] /\ credit'[p] = credit[p]
            /\ user[p] \in Call => got'[user[p]] = got[user[p]]
        BY <1>1, <1>5, <2>2, <2>5, <3>2 DEF BatchInv, BatchTypeOK
      <4> QED
        BY <1>1, <1>5, <4>1 DEF BatchInv, RoomInv
    <3> QED
      BY <3>1, <3>2
  <2> QED
    BY <2>4, <2>6, <2>7 DEF BatchInv
<1>6. CASE /\ phase[o] = "collecting" /\ batch' = Settle(user[o], "rejected")
           /\ credit' = [credit EXCEPT ![o] = credit[o] - 1] /\ UNCHANGED <<busy, phase, got>>
  <2>1. /\ batch' \in [Call -> {"none", "pending", "resolved", "rejected"}]
        /\ \A d \in Call : batch'[d] =
              IF d = user[o] /\ batch[d] = "pending" THEN "rejected" ELSE batch[d]
    BY <1>6, SettleEffect DEF BatchInv
  <2>2. BatchTypeOK'
    BY <1>1, <1>2, <1>6, <2>1 DEF BatchInv, BatchTypeOK
  <2>3. WorksForOne'
    BY <1>1, <1>6, <2>1 DEF BatchInv, BatchTypeOK, WorksForOne
  <2>4. RoomInv'
    BY <1>1, <1>2, <1>6, BatchOK DEF BatchInv, BatchTypeOK, RoomInv
  <2> QED
    BY <2>2, <2>3, <2>4 DEF BatchInv
<1>7. CASE /\ phase[o] # "collecting"
           /\ credit' = [credit EXCEPT ![o] = credit[o] - 1]
           /\ UNCHANGED <<busy, phase, batch, got>>
  <2>1. BatchTypeOK'
    BY <1>1, <1>2, <1>7 DEF BatchInv, BatchTypeOK
  <2>2. WorksForOne'
    BY <1>1, <1>7 DEF BatchInv, WorksForOne
  <2>3. RoomInv'
    BY <1>1, <1>2, <1>7 DEF BatchInv, BatchTypeOK, RoomInv
  <2> QED
    BY <2>1, <2>2, <2>3 DEF BatchInv
<1> QED
  BY <1>4, <1>5, <1>6, <1>7 DEF Deliver

LEMMA DrainedKeeps ==
    ASSUME BatchInv, NEW o \in Call, Drained(o)
    PROVE  BatchInv'
<1>1. /\ phase[o] = "draining" /\ batchLink[o] = "open"
      /\ phase' = [phase EXCEPT ![o] = "idle"] /\ busy' = busy \ {o}
      /\ credit' = [credit EXCEPT ![o] = 0] /\ batch' = Settle(user[o], "resolved")
      /\ UNCHANGED <<mode, apiClosed, ctx, batchLink, on, user, got, sent, lost, batchFaults>>
  BY DEF Drained
<1>2. /\ batch' \in [Call -> {"none", "pending", "resolved", "rejected"}]
      /\ \A d \in Call : batch'[d] =
            IF d = user[o] /\ batch[d] = "pending" THEN "resolved" ELSE batch[d]
  BY <1>1, SettleEffect DEF BatchInv
<1>3. 0 \in 0..(Max + 1)
  BY BatchOK
<1>4. BatchTypeOK'
  BY <1>1, <1>2, <1>3 DEF BatchInv, BatchTypeOK
<1>5. WorksForOne'
  BY <1>1, <1>2 DEF BatchInv, BatchTypeOK, WorksForOne
<1>6. RoomInv'
  BY <1>1 DEF BatchInv, BatchTypeOK, RoomInv
<1> QED
  BY <1>4, <1>5, <1>6 DEF BatchInv

\* The broker takes the link away, for good: a call that waits is left with a
\* receiver that will not be used again.
LEMMA BrokerDetachesKeeps ==
    ASSUME BatchInv, NEW o \in Call, BrokerDetaches(o)
    PROVE  BatchInv'
<1>1. /\ BatchFault /\ batchLink[o] = "open"
      /\ batchLink' = [batchLink EXCEPT ![o] = "down"] /\ busy' = busy \ {o}
      /\ UNCHANGED <<mode, apiClosed, ctx, on, user, credit, got, sent, lost>>
      /\ \/ phase' = [phase EXCEPT ![o] = "idle"] /\ batch' = Settle(user[o], "rejected")
         \/ UNCHANGED <<phase, batch>>
  BY DEF BrokerDetaches
<1>2. batchFaults' \in 0..MaxFaults
  BY <1>1, BatchOK DEF BatchFault, BatchInv, BatchTypeOK
<1>3. /\ batch' \in [Call -> {"none", "pending", "resolved", "rejected"}]
      /\ \A d \in Call : batch'[d] = batch[d]
            \/ (d = user[o] /\ batch[d] = "pending" /\ batch'[d] = "rejected")
  <2>1. CASE batch' = Settle(user[o], "rejected")
    BY <2>1, SettleEffect DEF BatchInv
  <2>2. CASE UNCHANGED batch
    BY <2>2 DEF BatchInv, BatchTypeOK
  <2> QED
    BY <1>1, <2>1, <2>2
<1>4. /\ phase' \in [Call -> {"idle", "connecting", "collecting", "draining"}]
      /\ \A p \in Call : phase'[p] = phase[p] \/ (p = o /\ phase'[p] = "idle")
  BY <1>1 DEF BatchInv, BatchTypeOK
<1>5. /\ batchLink' \in [Call -> {"none", "connecting", "open", "down", "gone"}]
      /\ batchLink'[o] = "down" /\ \A p \in Call \ {o} : batchLink'[p] = batchLink[p]
  BY <1>1 DEF BatchInv, BatchTypeOK
<1>6. BatchTypeOK'
  BY <1>1, <1>2, <1>3, <1>4, <1>5 DEF BatchInv, BatchTypeOK
<1>7. WorksForOne'
  BY <1>1, <1>3, <1>5 DEF BatchInv, BatchTypeOK, WorksForOne
<1>8. RoomInv'
  BY <1>1, <1>4, <1>5 DEF BatchInv, RoomInv
<1> QED
  BY <1>6, <1>7, <1>8 DEF BatchInv

LEMMA ConnectionLostKeeps ==
    ASSUME BatchInv, NEW e \in {"error", "silent"}, ConnectionLost(e)
    PROVE  BatchInv'
<1>1. /\ BatchFault /\ lost' = e
      /\ batchLink' = [o \in Call |-> IF batchLink[o] = "open" THEN "down" ELSE batchLink[o]]
      /\ UNCHANGED <<mode, apiClosed, ctx, on, user, got, sent, busy, phase, credit, batch>>
  BY DEF ConnectionLost, workVars
<1>2. batchFaults' \in 0..MaxFaults
  BY <1>1, BatchOK DEF BatchFault, BatchInv, BatchTypeOK
<1>3. BatchTypeOK'
  BY <1>1, <1>2 DEF BatchInv, BatchTypeOK
<1>4. WorksForOne'
  BY <1>1 DEF BatchInv, BatchTypeOK, WorksForOne
<1>5. RoomInv'
  BY <1>1 DEF BatchInv, RoomInv
<1> QED
  BY <1>3, <1>4, <1>5 DEF BatchInv

LEMMA ContextToldKeeps ==
    ASSUME BatchInv, ContextTold
    PROVE  BatchInv'
<1>1. lost' = "no" /\ UNCHANGED <<mode, apiClosed, ctx, on, user, got, sent, batchFaults>>
  BY DEF ContextTold
<1>2. CASE UNCHANGED <<batchLink, workVars>>
  <2>1. UNCHANGED <<batchLink, busy, phase, credit, batch>>
    BY <1>2 DEF workVars
  <2>2. BatchTypeOK'
    BY <1>1, <2>1 DEF BatchInv, BatchTypeOK
  <2>3. WorksForOne' /\ RoomInv'
    BY <1>1, <2>1 DEF BatchInv, WorksForOne, RoomInv
  <2> QED
    BY <2>2, <2>3 DEF BatchInv
<1>3. CASE /\ ctx # NoReceiver /\ batchLink[ctx] # "connecting"
           /\ batchLink' = [batchLink EXCEPT ![ctx] = "down"]
           /\ phase[ctx] = "collecting"
           /\ Finish(ctx, got[user[ctx]], credit[ctx], lost = "error")
  <2> DEFINE o == ctx
  <2>1. /\ o \in Call /\ user[o] \in Call /\ credit[o] \in 0..Max
        /\ credit[o] > 0 /\ batchLink[o] = "open" => o \in busy
    BY <1>3, BatchOK DEF BatchInv, BatchTypeOK, RoomInv
  <2>2. /\ got' \in [Call -> SUBSET Msg] /\ \A c \in Call : Cardinality(got'[c]) <= Max
        /\ sent' \in 0..Msgs /\ lost' \in {"no", "error", "silent"}
        /\ batchFaults' \in 0..MaxFaults
    BY <1>1 DEF BatchInv, BatchTypeOK
  <2>3. /\ UNCHANGED <<mode, apiClosed, ctx, on, user>>
        /\ \A c \in Call : c # user[o] => got'[c] = got[c]
    BY <1>1
  <2>4. (lost = "error") \in BOOLEAN
    OBVIOUS
  <2> QED
    BY <1>3, <2>1, <2>2, <2>3, <2>4, EndsKeeps
<1>4. CASE /\ ctx # NoReceiver /\ batchLink[ctx] # "connecting"
           /\ batchLink' = [batchLink EXCEPT ![ctx] = "down"] /\ UNCHANGED workVars
  <2>1. /\ UNCHANGED <<busy, phase, credit, batch>> /\ ctx \in Call
        /\ batchLink' \in [Call -> {"none", "connecting", "open", "down", "gone"}]
        /\ batchLink'[ctx] = "down" /\ \A p \in Call \ {ctx} : batchLink'[p] = batchLink[p]
    BY <1>4 DEF workVars, BatchInv, BatchTypeOK
  <2>2. BatchTypeOK'
    BY <1>1, <2>1 DEF BatchInv, BatchTypeOK
  <2>3. WorksForOne'
    BY <1>1, <1>4, <2>1 DEF BatchInv, BatchTypeOK, WorksForOne
  <2>4. RoomInv'
    BY <1>1, <2>1 DEF BatchInv, RoomInv
  <2> QED
    BY <2>2, <2>3, <2>4 DEF BatchInv
<1> QED
  BY <1>2, <1>3, <1>4 DEF ContextTold

\* A Receiver that is closed lets go of the receiver the context knows, and the next
\* one may be made on the same context.
LEMMA CloseKeeps ==
    ASSUME BatchInv, CloseReceiver \/ CreateReceiver
    PROVE  BatchInv'
<1>1. /\ UNCHANGED <<mode, on, user, got, sent, lost, batchFaults, busy, phase, credit, batch>>
      /\ apiClosed' \in BOOLEAN
      /\ \/ UNCHANGED <<batchLink, ctx>>
         \/ /\ ctx # NoReceiver /\ batchLink[ctx] \in {"open", "down"}
            /\ batchLink' = [batchLink EXCEPT ![ctx] = "gone"] /\ ctx' = NoReceiver
  BY DEF CloseReceiver, CreateReceiver, workVars
<1>2. CASE UNCHANGED <<batchLink, ctx>>
  <2>1. BatchTypeOK'
    BY <1>1, <1>2 DEF BatchInv, BatchTypeOK
  <2>2. WorksForOne' /\ RoomInv'
    BY <1>1, <1>2 DEF BatchInv, WorksForOne, RoomInv
  <2> QED
    BY <2>1, <2>2 DEF BatchInv
<1>3. CASE /\ ctx # NoReceiver /\ batchLink[ctx] \in {"open", "down"}
           /\ batchLink' = [batchLink EXCEPT ![ctx] = "gone"] /\ ctx' = NoReceiver
  <2>1. /\ ctx \in Call
        /\ batchLink' \in [Call -> {"none", "connecting", "open", "down", "gone"}]
        /\ batchLink'[ctx] = "gone" /\ \A p \in Call \ {ctx} : batchLink'[p] = batchLink[p]
    BY <1>3 DEF BatchInv, BatchTypeOK
  <2>2. BatchTypeOK'
    BY <1>1, <1>3, <2>1 DEF BatchInv, BatchTypeOK
  <2>3. WorksForOne'
    BY <1>1, <1>3, <2>1 DEF BatchInv, BatchTypeOK, WorksForOne
  <2>4. RoomInv'
    BY <1>1, <2>1 DEF BatchInv, RoomInv
  <2> QED
    BY <2>2, <2>3, <2>4 DEF BatchInv
<1> QED
  BY <1>1, <1>2, <1>3

LEMMA BatchNextKeeps == BatchInv /\ [BatchNext]_batchVars => BatchInv'
<1> SUFFICES ASSUME BatchInv, [BatchNext]_batchVars PROVE BatchInv'
  OBVIOUS
<1>1. CASE UNCHANGED batchVars
  <2>1. BatchTypeOK'
    BY <1>1 DEF batchVars, BatchInv, BatchTypeOK
  <2>2. WorksForOne' /\ RoomInv'
    BY <1>1 DEF batchVars, BatchInv, WorksForOne, RoomInv
  <2> QED
    BY <2>1, <2>2 DEF BatchInv
<1>2. ASSUME NEW o \in Call, Receive(o) PROVE BatchInv'
  BY <1>2, ReusesKeeps, CreatesKeeps
<1>3. ASSUME NEW o \in Call, Answered(o) PROVE BatchInv'
  BY <1>3, AnsweredKeeps
<1>4. ASSUME NEW o \in Call, TimerFires(o) PROVE BatchInv'
  BY <1>4, TimerKeeps
<1>5. ASSUME NEW o \in Call, Drained(o) PROVE BatchInv'
  BY <1>5, DrainedKeeps
<1>6. ASSUME NEW o \in Call, BrokerDetaches(o) PROVE BatchInv'
  BY <1>6, BrokerDetachesKeeps
<1>7. ASSUME NEW o \in Call, Deliver(o) PROVE BatchInv'
  BY <1>7, DeliverKeeps
<1>8. ASSUME NEW e \in {"error", "silent"}, ConnectionLost(e) PROVE BatchInv'
  BY <1>8, ConnectionLostKeeps
<1>9. CASE ContextTold
  BY <1>9, ContextToldKeeps
<1>10. CASE CloseReceiver \/ CreateReceiver
  BY <1>10, CloseKeeps
<1> QED
  BY <1>1, <1>2, <1>3, <1>4, <1>5, <1>6, <1>7, <1>8, <1>9, <1>10 DEF BatchNext

LEMMA BatchInvariant == BatchSpec => []BatchInv
  BY BatchInitHolds, BatchNextKeeps, PTL DEF BatchSpec

\* Every variable keeps its type, and a batch never collects more than the caller
\* asked for: messages come only for credit, a link that is free has none left, and
\* one that is taken again gets as much as the batch has room for.
THEOREM BatchTypeCorrect == BatchSpec => []BatchTypeOK
<1>1. BatchInv => BatchTypeOK
  BY DEF BatchInv
<1> QED
  BY <1>1, BatchInvariant, PTL

\* Two calls of receiveMessages() that wait never share a link, however links and
\* connections are lost, closed and made again: the answer to a request to drain, and
\* the messages before it, belong to one batch.
THEOREM BatchesStayApart == BatchSpec => []BatchesApart
<1>1. BatchInv => BatchesApart
  BY DEF BatchInv, WorksForOne, BatchesApart
<1> QED
  BY <1>1, BatchInvariant, PTL
=============================================================================
