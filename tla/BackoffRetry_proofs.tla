------------------------ MODULE BackoffRetry_proofs ------------------------
(***************************************************************************)
(* Theorems of BackoffRetry.  The type invariant and the retry bound are    *)
(* inductive with what they need to know of a worker; that no message is    *)
(* lost follows from a chain: every copy that was completed without being   *)
(* handled has a successor, a submission with one more retry, and the       *)
(* submission with the most retries has none.                              *)
(***************************************************************************)
EXTENDS BackoffRetry, TLAPS

-----------------------------------------------------------------------------
(* What the actions with several outcomes do, whichever outcome it is *)

LEMMA SendEffect ==
  ASSUME NEW w \in Worker, Send(w)
  PROVE  /\ pc[w] = "sending"
         /\ \/ Accept(w) /\ pc' = [pc EXCEPT ![w] = "settling"]
            \/ /\ Accept(w) \/ UNCHANGED <<sent, try, copy>>
               /\ pc' = [pc EXCEPT ![w] = "releasing"]
         /\ faults' = faults \/ faults' = faults + 1
         /\ UNCHANGED <<deliveries, holder, at, handled>>
  BY DEF Send, AfterSend, AfterSendFails, GoTo, Fault

LEMMA CompleteEffect ==
  ASSUME NEW w \in Worker, Complete(w)
  PROVE  /\ pc[w] \in {"autoComplete", "settling"}
         /\ UNCHANGED <<copy, holder>> \/ (Holds(w) /\ CompletedFor(w))
         /\ pc' = [pc EXCEPT ![w] = "idle"] \/ pc' = [pc EXCEPT ![w] = "releasing"]
         /\ faults' = faults \/ faults' = faults + 1
         /\ UNCHANGED <<sent, try, deliveries, at, handled>>
  BY DEF Complete, GoTo, Fault

LEMMA AbandonEffect ==
  ASSUME NEW w \in Worker, Abandon(w)
  PROVE  /\ pc[w] \in {"exceeded", "releasing"}
         /\ UNCHANGED <<copy, holder>> \/ (Holds(w) /\ Release(at[w], SubOf[w]))
         /\ pc' = [pc EXCEPT ![w] = "idle"] \/ pc' = [pc EXCEPT ![w] = "releasing"]
         /\ faults' = faults \/ faults' = faults + 1
         /\ UNCHANGED <<sent, try, deliveries, at, handled>>
  BY DEF Abandon, GoTo, Fault

LEMMA LockExpiresEffect ==
  ASSUME NEW k \in Submission, NEW s \in Sub, LockExpires(k, s)
  PROVE  /\ copy[k][s] = "locked" /\ Release(k, s)
         /\ faults' = faults \/ faults' = faults + 1
         /\ UNCHANGED <<sent, try, deliveries, pc, at, handled>>
  BY DEF LockExpires, Fault

-----------------------------------------------------------------------------
(* Type correctness *)

LEMMA TypeInit == Init => TypeOK
  BY BackoffOK DEF Init, NoRetries, TypeOK, Submission, CopyState, WorkerPc

LEMMA ReleaseType ==
  ASSUME TypeOK, NEW k \in Submission, NEW s \in Sub, Release(k, s)
  PROVE  /\ copy' \in [Submission -> [Sub -> CopyState]]
         /\ holder' \in [Submission -> [Sub -> Worker \cup {Nobody}]]
<1>1. PICK v \in {"dead", "ready"} : copy' = [copy EXCEPT ![k][s] = v]
  BY DEF Release
<1>2. copy' \in [Submission -> [Sub -> CopyState]]
  BY <1>1 DEF TypeOK, CopyState
<1>3. holder' \in [Submission -> [Sub -> Worker \cup {Nobody}]]
  BY DEF Release, TypeOK
<1>4. QED  BY <1>2, <1>3

\* A clone that is accepted is a new submission with one more retry; one that
\* is dropped changes nothing.
LEMMA AcceptEffect ==
  ASSUME NEW w \in Worker, Accept(w)
  PROVE  \/ /\ sent < MaxSends /\ sent' = sent + 1
            /\ try' = [try EXCEPT ![sent + 1] = try[at[w]] + 1]
            /\ \E v \in {"ready", "scheduled"} :
                  copy' = [copy EXCEPT ![sent + 1] = [s \in Sub |-> v]]
         \/ DuplicateDetection /\ UNCHANGED <<sent, try, copy>>
<1>1. CASE try[at[w]] = RetryCount
  BY <1>1 DEF Accept
<1>2. CASE try[at[w]] # RetryCount
  BY <1>2 DEF Accept
<1>3. QED  BY <1>1, <1>2

LEMMA AcceptType ==
  ASSUME TypeOK, NEW w \in Worker, Accept(w)
  PROVE  /\ sent' \in Submission /\ try' \in [Submission -> Nat]
         /\ copy' \in [Submission -> [Sub -> CopyState]]
<1> USE BackoffOK DEF TypeOK
<1>1. CASE DuplicateDetection /\ UNCHANGED <<sent, try, copy>>
  BY <1>1
<1>2. CASE ~(DuplicateDetection /\ UNCHANGED <<sent, try, copy>>)
  <2>1. /\ sent < MaxSends /\ sent' = sent + 1
        /\ try' = [try EXCEPT ![sent + 1] = try[at[w]] + 1]
    BY <1>2, AcceptEffect
  <2>2. PICK v \in {"ready", "scheduled"} :
           copy' = [copy EXCEPT ![sent + 1] = [s \in Sub |-> v]]
    BY <1>2, AcceptEffect
  <2>3. sent + 1 \in Submission /\ at[w] \in Submission
    BY <2>1 DEF Submission
  <2>4. sent' \in Submission /\ try' \in [Submission -> Nat]
    BY <2>1, <2>3
  <2>5. [s \in Sub |-> v] \in [Sub -> CopyState]
    BY DEF CopyState
  <2>6. copy' \in [Submission -> [Sub -> CopyState]]
    BY <2>2, <2>5
  <2>7. QED  BY <2>4, <2>6
<1>3. QED  BY <1>1, <1>2

LEMMA TypeNext == TypeOK /\ [Next]_vars => TypeOK'
<1> SUFFICES ASSUME TypeOK, [Next]_vars PROVE TypeOK'
  OBVIOUS
<1> USE BackoffOK DEF TypeOK
<1>1. ASSUME NEW k \in Submission, NEW s \in Sub, Enqueue(k, s) PROVE TypeOK'
  BY <1>1 DEF Enqueue, CopyState
<1>2. ASSUME NEW k \in Submission, NEW s \in Sub, LockExpires(k, s) PROVE TypeOK'
  <2>1. /\ Release(k, s)
        /\ faults' = faults \/ faults' = faults + 1
        /\ UNCHANGED <<sent, try, deliveries, pc, at, handled>>
    BY <1>2, LockExpiresEffect
  <2>2. copy' \in [Submission -> [Sub -> CopyState]]
        /\ holder' \in [Submission -> [Sub -> Worker \cup {Nobody}]]
    BY <2>1, ReleaseType
  <2>3. QED  BY <2>1, <2>2
<1>3. ASSUME NEW w \in Worker, NEW k \in Submission, Deliver(w, k) PROVE TypeOK'
  BY <1>3 DEF Deliver, Exceeded, CopyState, WorkerPc, GoTo
<1>4. ASSUME NEW w \in Worker, HandlerSucceeds(w) PROVE TypeOK'
  BY <1>4 DEF HandlerSucceeds, WorkerPc, GoTo
<1>5. ASSUME NEW w \in Worker, HandlerFails(w) PROVE TypeOK'
  BY <1>5 DEF HandlerFails, WorkerPc, GoTo
<1>6. ASSUME NEW w \in Worker, Send(w) PROVE TypeOK'
  <2>1. /\ Accept(w) \/ UNCHANGED <<sent, try, copy>>
        /\ pc' = [pc EXCEPT ![w] = "settling"] \/ pc' = [pc EXCEPT ![w] = "releasing"]
        /\ faults' = faults \/ faults' = faults + 1
        /\ UNCHANGED <<deliveries, holder, at, handled>>
    BY <1>6, SendEffect
  <2>2. sent' \in Submission /\ try' \in [Submission -> Nat]
        /\ copy' \in [Submission -> [Sub -> CopyState]]
    BY <2>1, AcceptType
  <2>3. pc' \in [Worker -> WorkerPc]
    <3>1. PICK p \in WorkerPc : pc' = [pc EXCEPT ![w] = p]
      BY <2>1 DEF WorkerPc
    <3>2. QED  BY <3>1
  <2>4. faults' \in Nat
    BY <2>1
  <2>5. QED  BY <2>1, <2>2, <2>3, <2>4
<1>7. ASSUME NEW w \in Worker, Complete(w) PROVE TypeOK'
  <2>1. /\ UNCHANGED <<copy, holder>> \/ CompletedFor(w)
        /\ pc' = [pc EXCEPT ![w] = "idle"] \/ pc' = [pc EXCEPT ![w] = "releasing"]
        /\ faults' = faults \/ faults' = faults + 1
        /\ UNCHANGED <<sent, try, deliveries, at, handled>>
    BY <1>7, CompleteEffect
  <2>2. copy' \in [Submission -> [Sub -> CopyState]]
        /\ holder' \in [Submission -> [Sub -> Worker \cup {Nobody}]]
    <3>1. CASE UNCHANGED <<copy, holder>>
      BY <3>1
    <3>2. CASE CompletedFor(w)
      BY <3>2 DEF CompletedFor, CopyState
    <3>3. QED  BY <2>1, <3>1, <3>2
  <2>3. pc' \in [Worker -> WorkerPc]
    <3>1. PICK p \in WorkerPc : pc' = [pc EXCEPT ![w] = p]
      BY <2>1 DEF WorkerPc
    <3>2. QED  BY <3>1
  <2>4. faults' \in Nat
    BY <2>1
  <2>5. QED  BY <2>1, <2>2, <2>3, <2>4
<1>8. ASSUME NEW w \in Worker, Abandon(w) PROVE TypeOK'
  <2>1. /\ UNCHANGED <<copy, holder>> \/ Release(at[w], SubOf[w])
        /\ pc' = [pc EXCEPT ![w] = "idle"] \/ pc' = [pc EXCEPT ![w] = "releasing"]
        /\ faults' = faults \/ faults' = faults + 1
        /\ UNCHANGED <<sent, try, deliveries, at, handled>>
    BY <1>8, AbandonEffect
  <2>2. copy' \in [Submission -> [Sub -> CopyState]]
        /\ holder' \in [Submission -> [Sub -> Worker \cup {Nobody}]]
    <3>1. at[w] \in Submission /\ SubOf[w] \in Sub
      OBVIOUS
    <3>2. QED  BY <2>1, <3>1, ReleaseType
  <2>3. pc' \in [Worker -> WorkerPc]
    <3>1. PICK p \in WorkerPc : pc' = [pc EXCEPT ![w] = p]
      BY <2>1 DEF WorkerPc
    <3>2. QED  BY <3>1
  <2>4. faults' \in Nat
    BY <2>1
  <2>5. QED  BY <2>1, <2>2, <2>3, <2>4
<1>9. ASSUME NEW w \in Worker, Crash(w) PROVE TypeOK'
  BY <1>9 DEF Crash, Fault, WorkerPc, GoTo
<1>10. CASE UNCHANGED vars
  BY <1>10 DEF vars
<1>11. QED
  BY <1>1, <1>2, <1>3, <1>4, <1>5, <1>6, <1>7, <1>8, <1>9, <1>10 DEF Next, WorkerStep

\* Every variable keeps its type, for every set of subscriptions and workers.
THEOREM TypeCorrect == Spec => []TypeOK
  BY TypeInit, TypeNext, PTL DEF Spec
-----------------------------------------------------------------------------
(* The retry bound *)

\* A worker works on a message that was submitted; only one within the limit
\* gets as far as the handler or a retry, and what the library completes on its
\* own account was handled.
WorkerInv ==
  \A w \in Worker :
     /\ at[w] <= sent
     /\ pc[w] \in {"handling", "autoComplete", "sending", "settling"}
          => try[at[w]] <= RetryCount
     /\ pc[w] = "autoComplete" => handled[at[w]][SubOf[w]] > 0

\* What was not submitted has no copies and was never handled.
PresentInv ==
  \A k \in Submission, s \in Sub :
     IF k <= sent THEN copy[k][s] # "none"
                  ELSE copy[k][s] = "none" /\ handled[k][s] = 0

RetryInv == TypeOK /\ WorkerInv /\ PresentInv /\ RetryBound

LEMMA RetryInit == Init => RetryInv
<1> SUFFICES ASSUME Init PROVE RetryInv
  OBVIOUS
<1> USE BackoffOK DEF Init, NoRetries
<1>1. TypeOK
  BY TypeInit
<1>2. WorkerInv
  BY DEF WorkerInv
<1>3. PresentInv
  BY DEF PresentInv, Submission
<1>4. RetryBound
  BY DEF RetryBound
<1>5. QED  BY <1>1, <1>2, <1>3, <1>4 DEF RetryInv

\* The copy of a submitted message that is not there any more stays away, and a
\* copy that is there stays: one copy takes a new state that is not "none".
LEMMA PresentKept ==
  ASSUME RetryInv, NEW k \in Submission, NEW s \in Sub, k <= sent,
         NEW v \in CopyState \ {"none"}, copy' = [copy EXCEPT ![k][s] = v],
         UNCHANGED <<sent, handled>>
  PROVE  PresentInv'
  BY DEF RetryInv, TypeOK, PresentInv, CopyState, Submission

\* A lock that is released leaves a copy that is there.
LEMMA ReleaseKeeps ==
  ASSUME RetryInv, NEW k \in Submission, NEW s \in Sub, k <= sent, Release(k, s),
         UNCHANGED <<sent, handled>>
  PROVE  PresentInv'
<1>1. PICK v \in {"dead", "ready"} : copy' = [copy EXCEPT ![k][s] = v]
  BY DEF Release
<1>2. v \in CopyState \ {"none"}
  BY DEF CopyState
<1>3. QED  BY <1>1, <1>2, PresentKept

LEMMA RetryNext == RetryInv /\ [Next]_vars => RetryInv'
<1> SUFFICES ASSUME RetryInv, [Next]_vars PROVE RetryInv'
  OBVIOUS
<1> USE BackoffOK
<1>0. TypeOK /\ TypeOK'
  BY TypeNext DEF RetryInv
<1>1. ASSUME NEW k \in Submission, NEW s \in Sub, Enqueue(k, s) PROVE RetryInv'
  <2>1. PresentInv'
    <3>1. k <= sent
      BY <1>0, <1>1 DEF Enqueue, RetryInv, PresentInv, TypeOK, Submission
    <3>2. "ready" \in CopyState \ {"none"}
      BY DEF CopyState
    <3>3. QED  BY <1>1, <3>1, <3>2, PresentKept DEF Enqueue
  <2>2. WorkerInv' /\ RetryBound'
    BY <1>1 DEF Enqueue, RetryInv, WorkerInv, RetryBound
  <2>3. QED  BY <1>0, <2>1, <2>2 DEF RetryInv
<1>2. ASSUME NEW k \in Submission, NEW s \in Sub, LockExpires(k, s) PROVE RetryInv'
  <2>1. copy[k][s] = "locked" /\ Release(k, s)
        /\ UNCHANGED <<sent, try, deliveries, pc, at, handled>>
    BY <1>2, LockExpiresEffect
  <2>2. k <= sent
    BY <1>0, <2>1 DEF RetryInv, PresentInv, TypeOK, Submission
  <2>3. PresentInv'
    BY <2>1, <2>2, ReleaseKeeps
  <2>4. WorkerInv' /\ RetryBound'
    BY <2>1 DEF RetryInv, WorkerInv, RetryBound
  <2>5. QED  BY <1>0, <2>3, <2>4 DEF RetryInv
<1>3. ASSUME NEW w \in Worker, NEW k \in Submission, Deliver(w, k) PROVE RetryInv'
  <2>1. k <= sent /\ SubOf[w] \in Sub
    BY <1>0, <1>3 DEF Deliver, RetryInv, PresentInv, TypeOK, Submission
  <2>2. PresentInv'
    <3>1. "locked" \in CopyState \ {"none"}
      BY DEF CopyState
    <3>2. QED  BY <1>3, <2>1, <3>1, PresentKept DEF Deliver
  <2>3. WorkerInv'
    <3> SUFFICES ASSUME NEW u \in Worker
                 PROVE  /\ at'[u] <= sent'
                        /\ pc'[u] \in {"handling", "autoComplete", "sending", "settling"}
                             => try'[at'[u]] <= RetryCount
                        /\ pc'[u] = "autoComplete" => handled'[at'[u]][SubOf[u]] > 0
      BY DEF WorkerInv
    <3>1. UNCHANGED <<sent, try, handled>> /\ at' = [at EXCEPT ![w] = k]
          /\ pc' = [pc EXCEPT ![w] = IF try[k] > RetryCount THEN "exceeded" ELSE "handling"]
      BY <1>3 DEF Deliver, Exceeded, GoTo
    <3>2. CASE u = w
      BY <1>0, <2>1, <3>1, <3>2 DEF TypeOK
    <3>3. CASE u # w
      BY <1>0, <3>1, <3>3 DEF TypeOK, RetryInv, WorkerInv
    <3>4. QED  BY <3>2, <3>3
  <2>4. RetryBound'
    BY <1>3 DEF Deliver, Exceeded, RetryInv, RetryBound
  <2>5. QED  BY <1>0, <2>2, <2>3, <2>4 DEF RetryInv
<1>4. ASSUME NEW w \in Worker, HandlerSucceeds(w) PROVE RetryInv'
  <2>1. /\ pc[w] = "handling" /\ pc' = [pc EXCEPT ![w] = "autoComplete"]
        /\ handled' = [handled EXCEPT ![at[w]][SubOf[w]] = @ + 1]
        /\ UNCHANGED <<sent, try, copy, at>>
        /\ at[w] \in Submission /\ SubOf[w] \in Sub
    BY <1>0, <1>4 DEF HandlerSucceeds, GoTo, TypeOK
  <2>2. try[at[w]] <= RetryCount /\ at[w] <= sent
    BY <2>1 DEF RetryInv, WorkerInv
  <2>3. \A k \in Submission, s \in Sub :
           handled'[k][s] = IF k = at[w] /\ s = SubOf[w] THEN handled[k][s] + 1 ELSE handled[k][s]
    BY <1>0, <2>1 DEF TypeOK
  <2>4. PresentInv'
    BY <1>0, <2>1, <2>2, <2>3 DEF RetryInv, PresentInv
  <2>5. RetryBound'
    BY <1>0, <2>1, <2>2, <2>3 DEF RetryInv, RetryBound, TypeOK
  <2>6. WorkerInv'
    <3>1. \A u \in Worker : at[u] \in Submission /\ SubOf[u] \in Sub
      BY <1>0 DEF TypeOK
    <3>2. \A u \in Worker : handled[at[u]][SubOf[u]] > 0 => handled'[at[u]][SubOf[u]] > 0
      <4> SUFFICES ASSUME NEW u \in Worker, handled[at[u]][SubOf[u]] > 0
                   PROVE  handled'[at[u]][SubOf[u]] > 0
        OBVIOUS
      <4>1. at[u] \in Submission /\ SubOf[u] \in Sub
        BY <3>1
      <4>2. handled[at[u]][SubOf[u]] \in Nat
        BY <1>0, <4>1 DEF TypeOK
      <4>3. \/ handled'[at[u]][SubOf[u]] = handled[at[u]][SubOf[u]] + 1
            \/ handled'[at[u]][SubOf[u]] = handled[at[u]][SubOf[u]]
        BY <2>3, <4>1
      <4>4. QED  BY <4>2, <4>3
    <3>3. handled'[at[w]][SubOf[w]] > 0
      BY <1>0, <2>1, <2>3 DEF TypeOK
    <3>4. QED  BY <1>0, <2>1, <2>2, <3>2, <3>3 DEF RetryInv, WorkerInv, TypeOK
  <2>7. QED  BY <1>0, <2>4, <2>5, <2>6 DEF RetryInv
<1>5. ASSUME NEW w \in Worker, HandlerFails(w) PROVE RetryInv'
  <2>1. /\ pc[w] = "handling" /\ UNCHANGED <<sent, try, copy, at, handled>>
        /\ \E p \in {"sending", "releasing"} : pc' = [pc EXCEPT ![w] = p]
    BY <1>5 DEF HandlerFails, GoTo
  <2>2. WorkerInv'
    BY <1>0, <2>1 DEF RetryInv, WorkerInv, TypeOK
  <2>3. PresentInv' /\ RetryBound'
    BY <2>1 DEF RetryInv, PresentInv, RetryBound
  <2>4. QED  BY <1>0, <2>2, <2>3 DEF RetryInv
<1>6. ASSUME NEW w \in Worker, Send(w) PROVE RetryInv'
  <2>1. /\ pc[w] = "sending" /\ UNCHANGED <<at, handled>>
        /\ Accept(w) \/ UNCHANGED <<sent, try, copy>>
        /\ \E p \in {"settling", "releasing"} : pc' = [pc EXCEPT ![w] = p]
    BY <1>6, SendEffect
  <2>2. at[w] \in Submission /\ at[w] <= sent /\ try[at[w]] <= RetryCount
    BY <1>0, <2>1 DEF RetryInv, WorkerInv, TypeOK
  <2>3. CASE UNCHANGED <<sent, try, copy>>
    <3>1. WorkerInv'
      BY <1>0, <2>1, <2>2, <2>3 DEF RetryInv, WorkerInv, TypeOK
    <3>2. PresentInv' /\ RetryBound'
      BY <2>1, <2>3 DEF RetryInv, PresentInv, RetryBound
    <3>3. QED  BY <1>0, <3>1, <3>2 DEF RetryInv
  <2>4. CASE Accept(w) /\ ~(UNCHANGED <<sent, try, copy>>)
    <3>1. /\ sent < MaxSends /\ sent' = sent + 1
          /\ try' = [try EXCEPT ![sent + 1] = try[at[w]] + 1]
          /\ \E v \in {"ready", "scheduled"} :
                copy' = [copy EXCEPT ![sent + 1] = [s \in Sub |-> v]]
      BY <2>4, AcceptEffect
    <3>2. sent + 1 \in Submission /\ sent \in Nat
      BY <1>0, <3>1 DEF Submission, TypeOK
    <3>3. /\ try'[sent + 1] = try[at[w]] + 1
          /\ \A k \in Submission : k # sent + 1 => try'[k] = try[k]
      BY <1>0, <3>1, <3>2 DEF TypeOK
    <3>4. /\ \A s \in Sub : copy'[sent + 1][s] # "none"
          /\ \A k \in Submission : k # sent + 1 => copy'[k] = copy[k]
      BY <1>0, <3>1, <3>2 DEF TypeOK
    <3>5. PresentInv'
      BY <1>0, <2>1, <3>1, <3>2, <3>4 DEF RetryInv, PresentInv, Submission
    <3>6. RetryBound'
      <4>1. \A k \in Submission : try'[k] <= RetryCount + 1
        <5>1. try[at[w]] \in Nat /\ RetryCount \in Nat
          BY <1>0, <2>2 DEF TypeOK
        <5>2. try'[sent + 1] <= RetryCount + 1
          BY <2>2, <3>3, <5>1
        <5>3. \A k \in Submission : try[k] <= RetryCount + 1
          BY DEF RetryInv, RetryBound
        <5>4. QED  BY <3>3, <5>2, <5>3
      <4>2. \A s \in Sub : handled'[sent + 1][s] = 0
        BY <2>1, <3>2 DEF RetryInv, PresentInv
      <4>3. \A k \in Submission, s \in Sub : handled'[k][s] > 0 => try'[k] <= RetryCount
        BY <2>1, <3>3, <4>2 DEF RetryInv, RetryBound
      <4>4. QED  BY <4>1, <4>3 DEF RetryBound
    <3>7. WorkerInv'
      <4>1. \A u \in Worker : at[u] \in Submission /\ at[u] <= sent
        BY <1>0 DEF RetryInv, WorkerInv, TypeOK
      <4>2. \A u \in Worker : try'[at'[u]] = try[at[u]] /\ at'[u] <= sent'
        BY <2>1, <3>1, <3>2, <3>3, <4>1 DEF Submission
      <4>3. QED  BY <1>0, <2>1, <2>2, <4>2 DEF RetryInv, WorkerInv, TypeOK
    <3>8. QED  BY <1>0, <3>5, <3>6, <3>7 DEF RetryInv
  <2>5. QED  BY <2>1, <2>3, <2>4
<1>7. ASSUME NEW w \in Worker, Complete(w) PROVE RetryInv'
  <2>1. /\ UNCHANGED <<copy, holder>> \/ CompletedFor(w)
        /\ \E p \in {"idle", "releasing"} : pc' = [pc EXCEPT ![w] = p]
        /\ UNCHANGED <<sent, try, deliveries, at, handled>>
    BY <1>7, CompleteEffect
  <2>2. at[w] \in Submission /\ SubOf[w] \in Sub /\ at[w] <= sent
    BY <1>0 DEF RetryInv, WorkerInv, TypeOK
  <2>3. PresentInv'
    <3>1. CASE UNCHANGED <<copy, holder>>
      BY <2>1, <3>1 DEF RetryInv, PresentInv
    <3>2. CASE CompletedFor(w)
      <4>1. "completed" \in CopyState \ {"none"}
        BY DEF CopyState
      <4>2. QED  BY <2>1, <2>2, <3>2, <4>1, PresentKept DEF CompletedFor
    <3>3. QED  BY <2>1, <3>1, <3>2
  <2>4. WorkerInv' /\ RetryBound'
    BY <1>0, <2>1 DEF RetryInv, WorkerInv, RetryBound, TypeOK
  <2>5. QED  BY <1>0, <2>3, <2>4 DEF RetryInv
<1>8. ASSUME NEW w \in Worker, Abandon(w) PROVE RetryInv'
  <2>1. /\ UNCHANGED <<copy, holder>> \/ Release(at[w], SubOf[w])
        /\ \E p \in {"idle", "releasing"} : pc' = [pc EXCEPT ![w] = p]
        /\ UNCHANGED <<sent, try, deliveries, at, handled>>
    BY <1>8, AbandonEffect
  <2>2. at[w] \in Submission /\ SubOf[w] \in Sub /\ at[w] <= sent
    BY <1>0 DEF RetryInv, WorkerInv, TypeOK
  <2>3. PresentInv'
    <3>1. CASE UNCHANGED <<copy, holder>>
      BY <2>1, <3>1 DEF RetryInv, PresentInv
    <3>2. CASE Release(at[w], SubOf[w])
      BY <2>1, <2>2, <3>2, ReleaseKeeps
    <3>3. QED  BY <2>1, <3>1, <3>2
  <2>4. WorkerInv' /\ RetryBound'
    BY <1>0, <2>1 DEF RetryInv, WorkerInv, RetryBound, TypeOK
  <2>5. QED  BY <1>0, <2>3, <2>4 DEF RetryInv
<1>9. ASSUME NEW w \in Worker, Crash(w) PROVE RetryInv'
  <2>1. WorkerInv'
    BY <1>0, <1>9 DEF Crash, GoTo, RetryInv, WorkerInv, TypeOK
  <2>2. PresentInv' /\ RetryBound'
    BY <1>9 DEF Crash, RetryInv, PresentInv, RetryBound
  <2>3. QED  BY <1>0, <2>1, <2>2 DEF RetryInv
<1>10. CASE UNCHANGED vars
  BY <1>0, <1>10 DEF vars, RetryInv, WorkerInv, PresentInv, RetryBound
<1>11. QED
  BY <1>1, <1>2, <1>3, <1>4, <1>5, <1>6, <1>7, <1>8, <1>9, <1>10 DEF Next, WorkerStep

\* No clone carries more than RetryCount + 1 retries and no handler runs beyond
\* RetryCount, whatever fails, expires or crashes.
THEOREM RetriesAreBounded == Spec => []RetryBound
<1>1. RetryInv => RetryBound
  BY DEF RetryInv
<1>2. QED  BY RetryInit, RetryNext, <1>1, PTL DEF Spec
-----------------------------------------------------------------------------
(* No loss *)

Resubmitted(k) == \E j \in Submission : j <= sent /\ try[j] = try[k] + 1

\* A worker completes a message it did not handle only after a successor was
\* accepted, and what was completed was handled or has one.  The submissions
\* have a last one in this chain: one that no other exceeds in retries.
ChainInv ==
  /\ \A w \in Worker : pc[w] = "settling" => Resubmitted(at[w])
  /\ \A k \in Submission, s \in Sub :
        copy[k][s] = "completed" => handled[k][s] > 0 \/ Resubmitted(k)
  /\ \E k \in Submission : k <= sent /\ \A j \in Submission : j <= sent => try[j] <= try[k]

\* The end of the chain is a copy that was handled or was not completed.
LEMMA ChainHolds == RetryInv /\ ChainInv => NoLoss
<1> SUFFICES ASSUME RetryInv, ChainInv, NEW s \in Sub
             PROVE  \E k \in Submission :
                       handled[k][s] > 0 \/ copy[k][s] \in Live \cup {"dead"}
  BY DEF NoLoss
<1>1. PICK k \in Submission :
         k <= sent /\ \A j \in Submission : j <= sent => try[j] <= try[k]
  BY DEF ChainInv
<1>2. ~Resubmitted(k)
  <2> SUFFICES ASSUME NEW j \in Submission, j <= sent, try[j] = try[k] + 1 PROVE FALSE
    BY DEF Resubmitted
  <2>1. try[j] \in Nat /\ try[k] \in Nat /\ try[j] <= try[k]
    BY <1>1 DEF RetryInv, TypeOK
  <2>2. QED  BY <2>1
<1>3. copy[k][s] \in CopyState /\ copy[k][s] # "none"
  BY <1>1 DEF RetryInv, TypeOK, PresentInv
<1>4. copy[k][s] = "completed" => handled[k][s] > 0
  BY <1>2 DEF ChainInv
<1>5. QED  BY <1>3, <1>4 DEF CopyState, Live

LEMMA ChainInit == Init => ChainInv
<1> SUFFICES ASSUME Init PROVE ChainInv
  OBVIOUS
<1>1. \A w \in Worker : pc[w] # "settling"
  BY DEF Init
<1>2. \A k \in Submission, s \in Sub : copy[k][s] # "completed"
  BY DEF Init
<1>3. 1 \in Submission /\ 1 <= sent /\ \A j \in Submission : j <= sent => try[j] <= try[1]
  BY BackoffOK DEF Init, NoRetries, Submission
<1>4. QED  BY <1>1, <1>2, <1>3 DEF ChainInv

\* A step that neither submits, completes, nor begins to complete.
LEMMA ChainKept ==
  ASSUME RetryInv, ChainInv, UNCHANGED <<sent, try>>,
         \A k \in Submission, s \in Sub :
            /\ copy'[k][s] = "completed" => copy[k][s] = "completed"
            /\ handled[k][s] > 0 => handled'[k][s] > 0,
         \A w \in Worker : pc'[w] = "settling" => pc[w] = "settling" /\ at'[w] = at[w]
  PROVE  ChainInv'
<1>1. \A k : Resubmitted(k)' <=> Resubmitted(k)
  BY DEF Resubmitted
<1>2. \A w \in Worker : pc'[w] = "settling" => Resubmitted(at[w])' /\ at'[w] = at[w]
  BY <1>1 DEF ChainInv
<1>3. \A k \in Submission, s \in Sub :
         copy'[k][s] = "completed" => handled'[k][s] > 0 \/ Resubmitted(k)'
  BY <1>1 DEF ChainInv
<1>4. \E k \in Submission : k <= sent' /\ \A j \in Submission : j <= sent' => try'[j] <= try'[k]
  BY DEF ChainInv
<1>5. QED  BY <1>2, <1>3, <1>4 DEF ChainInv, Resubmitted

\* A copy of k that takes the state v, other than "completed".
LEMMA ChainMoved ==
  ASSUME RetryInv, ChainInv, UNCHANGED <<sent, try, pc, at, handled>>,
         NEW k \in Submission, NEW s \in Sub, NEW v \in CopyState \ {"completed"},
         copy' = [copy EXCEPT ![k][s] = v]
  PROVE  ChainInv'
<1>1. \A j \in Submission, t \in Sub : copy'[j][t] = "completed" => copy[j][t] = "completed"
  BY DEF RetryInv, TypeOK
<1>2. QED  BY <1>1, ChainKept

LEMMA ChainNext ==
  ASSUME DuplicateDetection = FALSE
  PROVE  RetryInv /\ ChainInv /\ [Next]_vars => ChainInv'
<1> SUFFICES ASSUME RetryInv, ChainInv, [Next]_vars PROVE ChainInv'
  OBVIOUS
<1> USE BackoffOK
<1>0. TypeOK
  BY DEF RetryInv
<1>1. ASSUME NEW k \in Submission, NEW s \in Sub, Enqueue(k, s) PROVE ChainInv'
  BY <1>1, ChainMoved DEF Enqueue, CopyState
<1>2. ASSUME NEW k \in Submission, NEW s \in Sub, LockExpires(k, s) PROVE ChainInv'
  <2>1. Release(k, s) /\ UNCHANGED <<sent, try, pc, at, handled>>
    BY <1>2, LockExpiresEffect
  <2>2. PICK v \in {"dead", "ready"} : copy' = [copy EXCEPT ![k][s] = v]
    BY <2>1 DEF Release
  <2>3. v \in CopyState \ {"completed"}
    BY DEF CopyState
  <2>4. QED  BY <2>1, <2>2, <2>3, ChainMoved
<1>3. ASSUME NEW w \in Worker, NEW k \in Submission, Deliver(w, k) PROVE ChainInv'
  <2>1. \A j \in Submission, t \in Sub : copy'[j][t] = "completed" => copy[j][t] = "completed"
    BY <1>0, <1>3 DEF Deliver, TypeOK
  <2>2. \A u \in Worker : pc'[u] = "settling" => pc[u] = "settling" /\ at'[u] = at[u]
    BY <1>0, <1>3 DEF Deliver, Exceeded, GoTo, TypeOK
  <2>3. UNCHANGED <<sent, try, handled>>
    BY <1>3 DEF Deliver
  <2>4. QED  BY <2>1, <2>2, <2>3, ChainKept
<1>4. ASSUME NEW w \in Worker, HandlerSucceeds(w) PROVE ChainInv'
  <2>1. \A j \in Submission, t \in Sub : handled[j][t] > 0 => handled'[j][t] > 0
    <3> SUFFICES ASSUME NEW j \in Submission, NEW t \in Sub, handled[j][t] > 0
                 PROVE  handled'[j][t] > 0
      OBVIOUS
    <3>1. handled[j][t] \in Nat
      BY <1>0 DEF TypeOK
    <3>2. handled'[j][t] = handled[j][t] \/ handled'[j][t] = handled[j][t] + 1
      BY <1>0, <1>4 DEF HandlerSucceeds, TypeOK
    <3>3. QED  BY <3>1, <3>2
  <2>2. \A u \in Worker : pc'[u] = "settling" => pc[u] = "settling" /\ at'[u] = at[u]
    BY <1>0, <1>4 DEF HandlerSucceeds, GoTo, TypeOK
  <2>3. UNCHANGED <<sent, try, copy>>
    BY <1>4 DEF HandlerSucceeds
  <2>4. QED  BY <2>1, <2>2, <2>3, ChainKept
<1>5. ASSUME NEW w \in Worker, HandlerFails(w) PROVE ChainInv'
  <2>1. \A u \in Worker : pc'[u] = "settling" => pc[u] = "settling" /\ at'[u] = at[u]
    BY <1>0, <1>5 DEF HandlerFails, GoTo, TypeOK
  <2>2. UNCHANGED <<sent, try, copy, handled>>
    BY <1>5 DEF HandlerFails
  <2>3. QED  BY <2>1, <2>2, ChainKept
<1>6. ASSUME NEW w \in Worker, Send(w) PROVE ChainInv'
  <2>1. /\ pc[w] = "sending" /\ UNCHANGED <<at, handled>>
        /\ \/ Accept(w) /\ pc' = [pc EXCEPT ![w] = "settling"]
           \/ /\ Accept(w) \/ UNCHANGED <<sent, try, copy>>
              /\ pc' = [pc EXCEPT ![w] = "releasing"]
    BY <1>6, SendEffect
  <2>2. at[w] \in Submission /\ at[w] <= sent
    BY <1>0 DEF RetryInv, WorkerInv, TypeOK
  <2>3. CASE UNCHANGED <<sent, try, copy>> /\ pc' = [pc EXCEPT ![w] = "releasing"]
    <3>1. \A u \in Worker : pc'[u] = "settling" => pc[u] = "settling" /\ at'[u] = at[u]
      BY <1>0, <2>1, <2>3 DEF TypeOK
    <3>2. QED  BY <2>1, <2>3, <3>1, ChainKept
  <2>4. CASE Accept(w)
    <3>1. /\ sent < MaxSends /\ sent' = sent + 1
          /\ try' = [try EXCEPT ![sent + 1] = try[at[w]] + 1]
          /\ \E v \in {"ready", "scheduled"} :
                copy' = [copy EXCEPT ![sent + 1] = [s \in Sub |-> v]]
      BY <2>4, AcceptEffect
    <3>2. sent + 1 \in Submission /\ sent \in Submission
      BY <1>0, <3>1 DEF Submission, TypeOK
    <3>3. /\ try'[sent + 1] = try[at[w]] + 1
          /\ \A k \in Submission : k # sent + 1 => try'[k] = try[k]
      BY <1>0, <3>1, <3>2 DEF TypeOK
    <3>4. \A k \in Submission : k <= sent => k # sent + 1 /\ k <= sent'
      BY <3>1, <3>2 DEF Submission
    <3>5. \A k \in Submission : k <= sent /\ Resubmitted(k) => Resubmitted(k)'
      <4> SUFFICES ASSUME NEW k \in Submission, k <= sent, NEW j \in Submission, j <= sent,
                          try[j] = try[k] + 1
                   PROVE  Resubmitted(k)'
        BY DEF Resubmitted
      <4>1. j <= sent' /\ try'[j] = try'[k] + 1
        BY <3>3, <3>4
      <4>2. QED  BY <4>1 DEF Resubmitted
    <3>6. Resubmitted(at[w])'
      <4>1. sent + 1 <= sent' /\ try'[sent + 1] = try'[at[w]] + 1 /\ at'[w] = at[w]
        BY <2>1, <2>2, <3>1, <3>2, <3>3, <3>4 DEF Submission
      <4>2. QED  BY <3>2, <4>1 DEF Resubmitted
    <3>7. \A u \in Worker : pc'[u] = "settling" => Resubmitted(at[u])'
      <4> SUFFICES ASSUME NEW u \in Worker, pc'[u] = "settling" PROVE Resubmitted(at[u])'
        OBVIOUS
      <4>1. CASE u = w
        BY <3>6, <4>1
      <4>2. CASE u # w
        <5>1. pc[u] = "settling"
          BY <1>0, <2>1, <4>2 DEF TypeOK
        <5>2. at[u] \in Submission /\ at[u] <= sent /\ Resubmitted(at[u])
          BY <1>0, <5>1 DEF RetryInv, WorkerInv, TypeOK, ChainInv
        <5>3. at'[u] = at[u]
          BY <2>1
        <5>4. PICK k \in Submission : k = at[u]
          BY <5>2
        <5>5. Resubmitted(k)'
          BY <3>5, <5>2, <5>4
        <5>6. QED  BY <5>3, <5>4, <5>5 DEF Resubmitted
      <4>3. QED  BY <4>1, <4>2
    <3>8. \A k \in Submission, s \in Sub :
             copy'[k][s] = "completed" => handled'[k][s] > 0 \/ Resubmitted(k)'
      <4> SUFFICES ASSUME NEW k \in Submission, NEW s \in Sub, copy'[k][s] = "completed"
                   PROVE  handled'[k][s] > 0 \/ Resubmitted(k)'
        OBVIOUS
      <4>1. k # sent + 1 /\ copy[k][s] = "completed"
        BY <1>0, <3>1, <3>2 DEF TypeOK
      <4>2. k <= sent
        BY <3>2, <4>1 DEF RetryInv, PresentInv, Submission
      <4>3. QED  BY <2>1, <3>5, <4>1, <4>2 DEF ChainInv
    <3>9. \E k \in Submission :
             k <= sent' /\ \A j \in Submission : j <= sent' => try'[j] <= try'[k]
      <4>1. PICK k \in Submission :
               k <= sent /\ \A j \in Submission : j <= sent => try[j] <= try[k]
        BY DEF ChainInv
      <4>2. \A j \in Submission : try'[j] \in Nat
        BY TypeNext, <1>0 DEF TypeOK
      <4>3. \A j \in Submission : j <= sent' => j = sent + 1 \/ j <= sent
        BY <3>1, <3>2 DEF Submission
      <4>4. \A j \in Submission : j <= sent => try'[j] <= try'[k]
        BY <3>3, <3>4, <4>1
      <4>5. CASE try'[sent + 1] <= try'[k]
        BY <3>4, <4>1, <4>3, <4>4, <4>5
      <4>6. CASE ~(try'[sent + 1] <= try'[k])
        <5>1. \A j \in Submission : j <= sent => try'[j] <= try'[sent + 1]
          BY <3>2, <4>1, <4>2, <4>4, <4>6
        <5>2. sent + 1 <= sent'
          BY <3>1, <3>2 DEF Submission
        <5>3. try'[sent + 1] <= try'[sent + 1]
          BY <3>2, <4>2
        <5>4. QED  BY <3>2, <4>3, <5>1, <5>2, <5>3
      <4>7. QED  BY <4>5, <4>6
    <3>10. QED  BY <3>7, <3>8, <3>9 DEF ChainInv
  <2>5. QED  BY <2>1, <2>3, <2>4
<1>7. ASSUME NEW w \in Worker, Complete(w) PROVE ChainInv'
  <2>1. /\ pc[w] \in {"autoComplete", "settling"}
        /\ UNCHANGED <<copy, holder>> \/ CompletedFor(w)
        /\ \E p \in {"idle", "releasing"} : pc' = [pc EXCEPT ![w] = p]
        /\ UNCHANGED <<sent, try, deliveries, at, handled>>
    BY <1>7, CompleteEffect
  <2>2. \A u \in Worker : pc'[u] = "settling" => pc[u] = "settling" /\ at'[u] = at[u]
    BY <1>0, <2>1 DEF TypeOK
  <2>3. CASE UNCHANGED <<copy, holder>>
    BY <2>1, <2>2, <2>3, ChainKept
  <2>4. CASE CompletedFor(w)
    <3>1. at[w] \in Submission /\ SubOf[w] \in Sub
      BY <1>0 DEF TypeOK
    <3>2. handled[at[w]][SubOf[w]] > 0 \/ Resubmitted(at[w])
      BY <2>1 DEF RetryInv, WorkerInv, ChainInv
    <3>3. \A k \in Submission, s \in Sub :
             copy'[k][s] = "completed"
             => copy[k][s] = "completed" \/ (k = at[w] /\ s = SubOf[w])
      BY <1>0, <2>4, <3>1 DEF CompletedFor, TypeOK
    <3>4. \A k \in Submission, s \in Sub :
             copy'[k][s] = "completed" => handled[k][s] > 0 \/ Resubmitted(k)
      BY <3>2, <3>3 DEF ChainInv
    <3>5. \A k : Resubmitted(k)' <=> Resubmitted(k)
      BY <2>1 DEF Resubmitted
    <3>6. \A k \in Submission, s \in Sub :
             copy'[k][s] = "completed" => handled'[k][s] > 0 \/ Resubmitted(k)'
      BY <2>1, <3>4, <3>5
    <3>7. \A u \in Worker : pc'[u] = "settling" => Resubmitted(at[u])'
      BY <2>1, <2>2, <3>5 DEF ChainInv, Resubmitted
    <3>8. \E k \in Submission :
             k <= sent' /\ \A j \in Submission : j <= sent' => try'[j] <= try'[k]
      BY <2>1 DEF ChainInv
    <3>9. QED  BY <3>6, <3>7, <3>8 DEF ChainInv
  <2>5. QED  BY <2>1, <2>3, <2>4
<1>8. ASSUME NEW w \in Worker, Abandon(w) PROVE ChainInv'
  <2>1. /\ UNCHANGED <<copy, holder>> \/ Release(at[w], SubOf[w])
        /\ \E p \in {"idle", "releasing"} : pc' = [pc EXCEPT ![w] = p]
        /\ UNCHANGED <<sent, try, deliveries, at, handled>>
    BY <1>8, AbandonEffect
  <2>2. \A u \in Worker : pc'[u] = "settling" => pc[u] = "settling" /\ at'[u] = at[u]
    BY <1>0, <2>1 DEF TypeOK
  <2>3. \A k \in Submission, s \in Sub : copy'[k][s] = "completed" => copy[k][s] = "completed"
    <3>1. CASE UNCHANGED <<copy, holder>>
      BY <3>1
    <3>2. CASE Release(at[w], SubOf[w])
      <4>1. PICK v \in {"dead", "ready"} : copy' = [copy EXCEPT ![at[w]][SubOf[w]] = v]
        BY <3>2 DEF Release
      <4>2. QED  BY <1>0, <4>1 DEF TypeOK
    <3>3. QED  BY <2>1, <3>1, <3>2
  <2>4. QED  BY <2>1, <2>2, <2>3, ChainKept
<1>9. ASSUME NEW w \in Worker, Crash(w) PROVE ChainInv'
  <2>1. \A u \in Worker : pc'[u] = "settling" => pc[u] = "settling" /\ at'[u] = at[u]
    BY <1>0, <1>9 DEF Crash, GoTo, TypeOK
  <2>2. UNCHANGED <<sent, try, copy, handled>>
    BY <1>9 DEF Crash
  <2>3. QED  BY <2>1, <2>2, ChainKept
<1>10. CASE UNCHANGED vars
  BY <1>10, ChainKept DEF vars
<1>11. QED
  BY <1>1, <1>2, <1>3, <1>4, <1>5, <1>6, <1>7, <1>8, <1>9, <1>10 DEF Next, WorkerStep

\* Without duplicate detection a message is never lost: there is no transaction
\* over the clone's sending and the completion, and none is needed for that.
THEOREM NeverLost ==
  ASSUME DuplicateDetection = FALSE
  PROVE  Spec => []NoLoss
<1>1. Init => RetryInv /\ ChainInv
  BY RetryInit, ChainInit
<1>2. RetryInv /\ ChainInv /\ [Next]_vars => (RetryInv /\ ChainInv)'
  BY RetryNext, ChainNext
<1>3. RetryInv /\ ChainInv => NoLoss
  BY ChainHolds
<1>4. QED  BY <1>1, <1>2, <1>3, PTL DEF Spec
=============================================================================
