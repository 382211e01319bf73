------------------------ MODULE ManagementClient_proofs ------------------------
(* Proofs about ManagementClient, for any number of clients, requests, messages
   and faults: the one link, what concurrent peeks pass over, and the locks of
   deferred messages. *)
EXTENDS ManagementClient, FiniteSetTheorems, WellFoundedInduction, TLAPS

Peeked(n) == \E c \in Client : n \in peeked[c]

\* Whoever opens a link has the lock, and there is no other.
LinkInv ==
    /\ DOMAIN step = Op
    /\ OneManagementLink
    /\ \A o \in Op : step[o] = "opening" => lock = o /\ link \notin open

PeekTypes ==
    /\ clients \subseteq Client /\ DOMAIN peeked = Client
    /\ DOMAIN req = Op /\ DOMAIN by = Op /\ DOMAIN from = Op /\ DOMAIN result = Op
    /\ DOMAIN place = Msg /\ \A n \in Msg : n # Last => place[n] = "active"

\* A peek begins where all before has been peeked, and its answer has no gap.
Peeking(o) ==
    /\ req[o].kind = "peek" /\ req[o].arg \in Nat
    /\ by[o] \in Client /\ from[o] \in 1..(Last + 1)
    /\ \A n \in 1..(from[o] - 1) : Peeked(n)

Contiguous(o) ==
    /\ result[o] \subseteq Msg
    /\ \A n \in result[o] : n >= from[o] /\ \A m \in from[o]..n : m \in result[o]

PeekInv == ~jumped =>
    /\ pointer \in 0..Last /\ \A n \in 1..pointer : Peeked(n)
    /\ \A o \in Op : step[o] # "idle" /\ req[o].kind \in Peeks =>
          Peeking(o) /\ (step[o] = "served" => Contiguous(o))

\* A lock is that of a receive that was served; who settles or renews has it from a receive
\* that was answered; and one that is settled is gone before it leaves the map.
LockInv ==
    /\ \A o \in Op : step[o] # "idle" => req[o] \in Request
    /\ DOMAIN token = Msg
    /\ \A n \in Msg : token[n] # Nobody =>
          /\ token[n] \in Op /\ place[n] = "deferred"
          /\ req[token[n]].kind = "receiveDeferred" /\ req[token[n]].arg = n
          /\ step[token[n]] \in {"served", "resolved", "rejected"}
    /\ \A o \in Op : step[o] # "idle" /\ req[o].kind \in Settlements \cup {"renewLock"} =>
          from[o] \in Op /\ step[from[o]] = "resolved"
    /\ \A o \in Op : step[o] = "served" /\ req[o].kind \in Settlements =>
          \A n \in Msg : token[n] # from[o]
    /\ DeferredIsKnown

IInv == LinkInv /\ PeekTypes /\ PeekInv /\ LockInv

-----------------------------------------------------------------------------
(* A nonempty set of numbers of messages has a greatest one. *)
LEMMA MaxIsIn ==
    ASSUME NEW N \in Nat, NEW S \in SUBSET (1..N), S # {}
    PROVE  Max(S) \in S /\ \A y \in S : Max(S) >= y
<1> DEFINE T == {k \in Nat : N - k \in S}
<1>1. T # {}
  <2>1. PICK x \in S : TRUE
    OBVIOUS
  <2>2. N - x \in Nat /\ N - (N - x) = x
    OBVIOUS
  <2> QED
    BY <2>1, <2>2
<1>2. PICK t \in T : \A y \in T : ~(<<y, t>> \in OpToRel(<, Nat))
  BY <1>1, WFMin, NatLessThanWellFounded
<1>3. \A y \in T : ~(y < t)
  <2> SUFFICES ASSUME NEW y \in T, y < t PROVE FALSE
    OBVIOUS
  <2>1. <<y, t>> \in Nat \X Nat /\ <<y, t>>[1] < <<y, t>>[2]
    OBVIOUS
  <2> QED
    BY <1>2, <2>1 DEF OpToRel
<1>4. N - t \in S /\ \A y \in S : N - t >= y
  <2> SUFFICES ASSUME NEW y \in S PROVE N - t >= y
    BY <1>2
  <2>1. N - y \in T
    <3>1. N - y \in Nat /\ N - (N - y) = y
      OBVIOUS
    <3> QED
      BY <3>1
  <2> QED
    BY <1>3, <2>1
<1>5. \E x \in S : \A y \in S : x >= y
  BY <1>4
<1> QED
  BY <1>5 DEF Max

-----------------------------------------------------------------------------
LEMMA InitHolds == Init => IInv
<1> SUFFICES ASSUME Init PROVE IInv
  OBVIOUS
<1> USE ManagementOK DEF Init
<1>1. LinkInv
  BY DEF LinkInv, OneManagementLink
<1>2. PeekTypes
  BY DEF PeekTypes, Msg
<1>3. PeekInv
  BY DEF PeekInv
<1>4. LockInv
  BY DEF LockInv, DeferredIsKnown, Msg
<1> QED
  BY <1>1, <1>2, <1>3, <1>4 DEF IInv

(* The link: only who holds the lock opens one. *)
LEMMA LinkKept ==
    ASSUME LinkInv, [Next]_vars
    PROVE  LinkInv'
<1> USE DEF LinkInv, OneManagementLink, linkVars, opVars, peekVars, lockVars, sbVars
<1>1. ASSUME NEW o \in Op, Start(o) PROVE LinkInv'
  BY <1>1 DEF Start, GoTo
<1>2. ASSUME NEW o \in Op, Lock(o) PROVE LinkInv'
  <2>1. CASE lock' = o /\ GoTo(o, "opening") /\ link \notin open
    BY <1>2, <2>1 DEF Lock, GoTo, Op, Nobody
  <2>2. CASE GoTo(o, "ready") /\ UNCHANGED lock
    BY <1>2, <2>2 DEF Lock, GoTo
  <2> QED
    BY <1>2, <2>1, <2>2 DEF Lock, MustOpen, IsLinkOpen
<1>3. ASSUME NEW o \in Op, Opened(o) PROVE LinkInv'
  <2>1. open = {} /\ lock = o
    BY <1>3 DEF Opened
  <2>2. open' = {link'} /\ \A p \in Op : step'[p] # "opening"
    BY <1>3, <2>1 DEF Opened, GoTo
  <2> QED
    BY <1>3, <2>2 DEF Opened, GoTo
<1>4. ASSUME NEW o \in Op, OpenFails(o) PROVE LinkInv'
  BY <1>4 DEF OpenFails, GoTo
<1>5. ASSUME NEW o \in Op, Send(o) PROVE LinkInv'
  BY <1>5 DEF Send, GoTo
<1>6. ASSUME NEW o \in Op, Serve(o) PROVE LinkInv'
  <2>1. GoTo(o, "served")
    BY <1>6 DEF Serve, ServePeek, ServeDeferred, ServeSettle, ServeRenewLock, ServeSchedule,
       ServeCancel, ServeAddRule, ServeRemoveRule, ServeRules, ServeSetState, ServeGetState
  <2> QED
    BY <1>6, <2>1 DEF Serve, GoTo
<1>7. ASSUME NEW o \in Op, Answered(o) PROVE LinkInv'
  BY <1>7 DEF Answered, GoTo
<1>8. ASSUME NEW o \in Op, Fails(o) PROVE LinkInv'
  BY <1>8 DEF Fails, GoTo
<1>9. ASSUME NEW n \in Msg, LockRunsOut(n) PROVE LinkInv'
  BY <1>9 DEF LockRunsOut
<1>10. ASSUME NEW c \in Client, CloseClient(c) PROVE LinkInv'
  BY <1>10 DEF CloseClient, CloseLink, IsLinkOpen
<1>11. CASE Disconnected
  BY <1>11 DEF Disconnected
<1>12. CASE Collect \/ CloseSender \/ CloseReceiver \/ UNCHANGED vars
  BY <1>12 DEF Collect, CloseSender, CloseReceiver, vars
<1> QED
  BY <1>1, <1>2, <1>3, <1>4, <1>5, <1>6, <1>7, <1>8, <1>9, <1>10, <1>11, <1>12
     DEF Next, OpStep

-----------------------------------------------------------------------------
(* What leaves the peeks alone keeps what is known of them. *)
LEMMA PeekStable ==
    ASSUME PeekTypes, PeekInv, UNCHANGED <<opVars, peekVars>>, clients' \subseteq clients,
           \A p \in Op : (step'[p] = "served" => step[p] = "served") /\ (step'[p] # "idle" => step[p] # "idle"),
           place' = place
    PROVE  PeekTypes' /\ PeekInv'
<1> USE DEF opVars, peekVars
<1>1. PeekTypes'
  BY DEF PeekTypes
<1>2. PeekInv'
  BY DEF PeekInv, Peeking, Contiguous, Peeked
<1> QED
  BY <1>1, <1>2

(* A peek that begins at the pointer begins where all before has been peeked. *)
LEMMA PeekStarts ==
    ASSUME PeekTypes, PeekInv, LinkInv, NEW o \in Op, Start(o)
    PROVE  PeekTypes' /\ PeekInv'
<1> USE ManagementOK DEF Start, peekVars, sbVars
<1>1. PeekTypes'
  BY DEF PeekTypes
<1>2. ASSUME ~jumped' PROVE PeekInv'
  <2>1. ~jumped /\ pointer' = pointer /\ peeked' = peeked /\ result' = result
    BY <1>2
  <2>2. PICK c \in clients, r \in Request : \E f \in Refers(r) :
           /\ req' = [req EXCEPT ![o] = r] /\ from' = [from EXCEPT ![o] = f]
           /\ by' = IF r.kind \in Peeks \cup {"receiveDeferred"} THEN [by EXCEPT ![o] = c] ELSE by
           /\ jumped' = (jumped \/ r.kind \in Peeks \ {"peek"})
           /\ step' = [step EXCEPT ![o] = IF r.kind \in Settlements /\ ~CanSettle(f) THEN "rejected" ELSE "waiting"]
    BY DEF GoTo
  <2>3. pointer' \in 0..Last /\ \A n \in 1..pointer' : Peeked(n)'
    BY <2>1 DEF PeekInv, Peeked
  <2>4. ASSUME r.kind \in Peeks PROVE Peeking(o)' /\ step'[o] # "served"
    <3>1. r.kind = "peek" /\ r.arg \in Nat /\ c \in Client
      BY <1>2, <2>2, <2>4 DEF PeekTypes
    <3>2. req'[o] = r /\ by'[o] = c /\ from'[o] = pointer + 1
      <4>1. Refers(r) = {PeekFrom(r)} /\ PeekFrom(r) = pointer + 1
        BY <2>4, <3>1 DEF Refers, PeekFrom, Settlements, Peeks
      <4> QED
        BY <2>2, <2>4, <4>1 DEF PeekTypes
    <3>3. pointer \in 0..Last /\ Last \in Nat
      BY <2>1 DEF PeekInv
    <3>4. from'[o] \in 1..(Last + 1) /\ 1..(from'[o] - 1) = 1..pointer
      BY <3>2, <3>3
    <3>5. Peeking(o)'
      BY <2>1, <2>3, <3>1, <3>2, <3>4 DEF Peeking, Peeked
    <3> QED
      BY <2>2, <3>5 DEF LinkInv
  <2>5. ASSUME NEW p \in Op, p # o, step'[p] # "idle", req'[p].kind \in Peeks
        PROVE  Peeking(p)' /\ (step'[p] = "served" => Contiguous(p)')
    <3>1. step'[p] = step[p] /\ req'[p] = req[p]
      BY <2>2, <2>5
    <3>2. by'[p] = by[p] /\ from'[p] = from[p]
      BY <2>2, <2>5 DEF PeekTypes
    <3> QED
      BY <2>1, <2>5, <3>1, <3>2 DEF PeekInv, Peeking, Contiguous, Peeked
  <2>6. req'[o] = r
    BY <2>2 DEF PeekTypes
  <2> QED
    BY <2>3, <2>4, <2>5, <2>6 DEF PeekInv
<1> QED
  BY <1>1, <1>2 DEF PeekInv

(* What a peek is answered with has no gap: every message before the last is there. *)
LEMMA PeekServed ==
    ASSUME PeekTypes, PeekInv, LinkInv, NEW o \in Op, Serve(o), ServePeek(o)
    PROVE  PeekTypes' /\ PeekInv'
<1> USE ManagementOK DEF Serve, peekVars, sbVars
<1>1. PeekTypes'
  BY DEF PeekTypes, ServePeek
<1> DEFINE there == {n \in Msg : /\ n >= from[o] /\ place[n] # "completed"
                                 /\ req[o].kind = "peekSession" => n % 2 = 0}
           Before(n) == {k \in there : k < n}
<1>2. ASSUME ~jumped PROVE PeekInv'
  <2>1. Peeking(o) /\ req[o].kind = "peek" /\ req[o].arg \in Nat /\ from[o] \in Nat
    BY <1>2 DEF PeekInv, ServePeek, Peeking
  <2>2. result' = [result EXCEPT ![o] = {n \in there : Cardinality(Before(n)) < req[o].arg}]
    BY <2>1 DEF ServePeek
  <2>3. ASSUME NEW n \in result'[o], NEW m \in from[o]..n PROVE m \in result'[o]
    <3>1. n \in there /\ Cardinality(Before(n)) < req[o].arg /\ n \in Msg
      BY <2>2 DEF PeekTypes
    <3>2. m \in Msg /\ (m # n => m # Last) /\ m <= n /\ m >= from[o]
      BY <2>1, <3>1 DEF Msg, Peeking
    <3>3. m \in there
      BY <2>1, <3>1, <3>2 DEF PeekTypes
    <3>4. Before(m) \subseteq Before(n)
      BY <3>1, <3>2 DEF Msg
    <3>5. IsFiniteSet(Before(n))
      <4>1. IsFiniteSet(Msg)
        BY FS_Interval DEF Msg
      <4>2. Before(n) \subseteq Msg
        OBVIOUS
      <4> QED
        BY <4>1, <4>2, FS_Subset
    <3>6. Cardinality(Before(m)) <= Cardinality(Before(n)) /\ IsFiniteSet(Before(m))
      BY <3>4, <3>5, FS_Subset
    <3>7. Cardinality(Before(m)) \in Nat /\ Cardinality(Before(n)) \in Nat
      BY <3>5, <3>6, FS_CardinalityType
    <3>8. Cardinality(Before(m)) < req[o].arg
      BY <2>1, <3>1, <3>6, <3>7
    <3> QED
      BY <2>2, <3>3, <3>8 DEF PeekTypes
  <2>4. Contiguous(o)'
    BY <2>2, <2>3 DEF Contiguous, PeekTypes
  <2>5. \A p \in Op : p # o => result'[p] = result[p] /\ step'[p] = step[p]
    BY <2>2 DEF ServePeek, GoTo
  <2>6. step[o] = "sent" /\ step' = [step EXCEPT ![o] = "served"]
    BY DEF ServePeek, GoTo
  <2> QED
    BY <1>2, <2>1, <2>4, <2>5, <2>6 DEF PeekInv, Peeking, Contiguous, Peeked
<1> QED
  BY <1>1, <1>2 DEF PeekInv

(* The other requests do not touch the messages before the last. *)
LEMMA OthersServed ==
    ASSUME PeekTypes, PeekInv, LinkInv, LockInv, NEW o \in Op, Serve(o), ~ServePeek(o)
    PROVE  PeekTypes' /\ PeekInv'
<1> USE DEF Serve, peekVars, sbVars
<1>1. /\ req[o].kind \notin Peeks /\ GoTo(o, "served")
      /\ place' = place \/ \E n \in Msg, p \in {"deferred", "completed"} :
            place[n] = "deferred" /\ place' = [place EXCEPT ![n] = p]
      /\ \A p \in Op : p # o => result'[p] = result[p]
      /\ DOMAIN result' = DOMAIN result
  <2>1. CASE ServeDeferred(o)
    BY <2>1 DEF ServeDeferred, Peeks
  <2>2. CASE ServeSettle(o)
    <3>1. step[o] # "idle" /\ from[o] \in Op /\ req[o].arg \in Msg
      BY <2>2, ManagementOK DEF ServeSettle, LockInv
    <3>2. place[req[o].arg] = "deferred"
      BY <2>2, <3>1 DEF ServeSettle, LockInv, Op, Nobody
    <3> QED
      BY <2>2, <3>1, <3>2 DEF ServeSettle, Peeks, Settlements, After
  <2>3. CASE ServeRenewLock(o)
    BY <2>3 DEF ServeRenewLock, Peeks
  <2>4. CASE ServeSchedule(o) \/ ServeCancel(o) \/ ServeAddRule(o) \/ ServeRemoveRule(o) \/ ServeSetState(o)
    BY <2>4 DEF ServeSchedule, ServeCancel, ServeAddRule, ServeRemoveRule, ServeSetState, Peeks
  <2>5. CASE ServeRules(o)
    BY <2>5 DEF ServeRules, Peeks
  <2>6. CASE ServeGetState(o)
    BY <2>6 DEF ServeGetState, Peeks
  <2> QED
    BY <2>1, <2>2, <2>3, <2>4, <2>5, <2>6
<1>2. PeekTypes'
  BY <1>1 DEF PeekTypes
<1>3. \A p \in Op : req'[p].kind \in Peeks => p # o /\ step'[p] = step[p]
  BY <1>1 DEF GoTo
<1>4. PeekInv'
  BY <1>1, <1>3 DEF PeekInv, Peeking, Contiguous, Peeked
<1> QED
  BY <1>2, <1>4

(* An answer moves the pointer to its last message, and all up to that is peeked. *)
LEMMA PeekAnswered ==
    ASSUME PeekTypes, PeekInv, LinkInv, NEW o \in Op, Answered(o)
    PROVE  PeekTypes' /\ PeekInv'
<1> USE ManagementOK DEF Answered, sbVars, opVars
<1>1. /\ req' = req /\ by' = by /\ from' = from /\ result' = result /\ place' = place
      /\ jumped' = jumped /\ clients' = clients /\ step[o] = "served"
      /\ \A p \in Op : p # o => step'[p] = step[p]
      /\ step'[o] = "resolved"
  BY DEF GoTo, LinkInv
<1>A. PeekTypes'
  BY <1>1 DEF PeekTypes
<1>2. CASE req[o].kind \notin Peeks
  <2>1. pointer' = pointer /\ peeked' = peeked
    BY <1>2
  <2>2. PeekInv'
    BY <1>1, <1>2, <2>1 DEF PeekInv, Peeking, Contiguous, Peeked
  <2> QED
    BY <1>A, <2>2
<1>3. CASE req[o].kind \in Peeks /\ jumped
  BY <1>1, <1>3, <1>A DEF PeekInv
<1>4. CASE req[o].kind \in Peeks /\ ~jumped
  <2>1. Peeking(o) /\ Contiguous(o)
    BY <1>1, <1>4 DEF PeekInv
  <2>2. pointer' = Pointer(o) /\ peeked' = [peeked EXCEPT ![by[o]] = @ \cup result[o]]
    BY <1>4
  <2>3. ASSUME NEW n, Peeked(n) PROVE Peeked(n)'
    BY <2>2, <2>3 DEF Peeked, PeekTypes
  <2>4. ASSUME NEW n \in result[o] PROVE Peeked(n)'
    BY <2>1, <2>2, <2>4 DEF Peeked, PeekTypes, Peeking
  <2>5. pointer' \in 0..Last /\ \A n \in 1..pointer' : Peeked(n)'
    <3>1. CASE result[o] = {}
      BY <1>4, <2>2, <2>3, <3>1 DEF Pointer, PeekInv
    <3>2. CASE result[o] # {}
      <4>1. pointer' \in result[o] /\ pointer' \in 1..Last /\ Last \in Nat
        <5>1. Last \in Nat /\ result[o] \in SUBSET (1..Last)
          BY <2>1 DEF Contiguous, Msg
        <5> QED
          BY <2>2, <3>2, <5>1, MaxIsIn DEF Pointer
      <4>2. ASSUME NEW n \in 1..pointer' PROVE n \in 1..(from[o] - 1) \/ n \in result[o]
        <5>1. from[o] \in Nat
          BY <2>1 DEF Peeking
        <5>2. n < from[o] \/ n \in from[o]..pointer'
          BY <4>1, <5>1
        <5> QED
          BY <2>1, <4>1, <5>1, <5>2 DEF Contiguous
      <4> QED
        BY <2>1, <2>3, <2>4, <4>1, <4>2 DEF Peeking
    <3> QED
      BY <3>1, <3>2
  <2>6. ASSUME NEW p \in Op, Peeking(p) PROVE Peeking(p)'
    BY <1>1, <2>3, <2>6 DEF Peeking
  <2>7. PeekInv'
    BY <1>1, <1>4, <2>5, <2>6 DEF PeekInv, Contiguous
  <2> QED
    BY <2>7, <1>A
<1> QED
  BY <1>2, <1>3, <1>4

(* All other steps leave the peeks alone. *)
LEMMA PeekKept ==
    ASSUME PeekTypes, PeekInv, LinkInv, LockInv, [Next]_vars
    PROVE  PeekTypes' /\ PeekInv'
<1>1. ASSUME NEW o \in Op, Start(o) PROVE PeekTypes' /\ PeekInv'
  BY <1>1, PeekStarts
<1> DEFINE Still == /\ UNCHANGED <<opVars, peekVars>> /\ clients' \subseteq clients
                    /\ \A p \in Op : /\ step'[p] = "served" => step[p] = "served"
                                     /\ step'[p] # "idle" => step[p] # "idle"
           Placed == place' = place
<1> USE DEF linkVars, lockVars, sbVars
<1>2. ASSUME NEW o \in Op, Lock(o) PROVE Still /\ Placed
  BY <1>2 DEF Lock, GoTo, LinkInv
<1>3. ASSUME NEW o \in Op, Opened(o) \/ OpenFails(o) \/ Send(o) PROVE Still /\ Placed
  BY <1>3 DEF Opened, OpenFails, Send, GoTo, LinkInv
<1>4. ASSUME NEW o \in Op, Serve(o) PROVE PeekTypes' /\ PeekInv'
  BY <1>4, PeekServed, OthersServed
<1>5. ASSUME NEW o \in Op, Answered(o) PROVE PeekTypes' /\ PeekInv'
  BY <1>5, PeekAnswered
<1>6. ASSUME NEW o \in Op, Fails(o) PROVE Still /\ Placed
  BY <1>6 DEF Fails, GoTo, LinkInv
<1>7. ASSUME NEW n \in Msg, LockRunsOut(n) PROVE Still /\ Placed
  BY <1>7 DEF LockRunsOut
<1>8. ASSUME NEW c \in Client, CloseClient(c) PROVE Still /\ Placed
  BY <1>8 DEF CloseClient
<1>9. CASE Disconnected \/ Collect \/ CloseSender \/ CloseReceiver \/ UNCHANGED vars
  <2>1. Still /\ Placed
    BY <1>9 DEF Disconnected, Collect, CloseSender, CloseReceiver, vars
  <2> QED
    BY <2>1, PeekStable
<1> QED
  BY <1>1, <1>2, <1>3, <1>4, <1>5, <1>6, <1>7, <1>8, <1>9, PeekStable DEF Next, OpStep

-----------------------------------------------------------------------------
(* What takes no lock and drops none from the map keeps what is known of them. *)
LEMMA LockStable ==
    ASSUME LockInv, UNCHANGED <<req, from, token, place, renewed>>,
           clients' \subseteq clients, apis' \subseteq apis,
           Owner \in clients' /\ "receiver" \in apis' => live \subseteq live',
           \A p \in Op : /\ step[p] = "idle" => step'[p] = "idle"
                         /\ step[p] \in {"served", "resolved", "rejected"} =>
                               step'[p] = step[p] \/ (step[p] = "served" /\ step'[p] = "rejected")
                         /\ step'[p] \in {"served", "resolved"} => step[p] = step'[p]
    PROVE  LockInv'
<1>1. DeferredIsKnown'
  BY DEF LockInv, DeferredIsKnown, Held, CanSettle
<1>2. \A n \in Msg : token'[n] # Nobody =>
          /\ token'[n] \in Op /\ place'[n] = "deferred"
          /\ req'[token'[n]].kind = "receiveDeferred" /\ req'[token'[n]].arg = n
          /\ step'[token'[n]] \in {"served", "resolved", "rejected"}
  BY DEF LockInv
<1>3. \A o \in Op : step'[o] # "idle" => step[o] # "idle"
  OBVIOUS
<1>4. \A o \in Op : step'[o] # "idle" => req'[o] \in Request
  BY <1>3 DEF LockInv
<1>5. \A o \in Op : step'[o] # "idle" /\ req'[o].kind \in Settlements \cup {"renewLock"} =>
          from'[o] \in Op /\ step'[from'[o]] = "resolved"
  BY <1>3 DEF LockInv
<1>6. \A o \in Op : step'[o] = "served" /\ req'[o].kind \in Settlements =>
          \A n \in Msg : token'[n] # from'[o]
  BY DEF LockInv
<1> QED
  BY <1>1, <1>2, <1>4, <1>5, <1>6 DEF LockInv

(* A request is made: it is for no lock, or for that of a receive that was answered. *)
LEMMA LockStarts ==
    ASSUME LockInv, LinkInv, PeekTypes, NEW o \in Op, Start(o)
    PROVE  LockInv'
<1> USE DEF Start, peekVars, sbVars, lockVars
<1>0. PICK r \in Request : \E f \in Refers(r) :
         /\ req' = [req EXCEPT ![o] = r] /\ from' = [from EXCEPT ![o] = f]
         /\ \E s \in {"waiting", "rejected"} : step' = [step EXCEPT ![o] = s]
  BY DEF GoTo
<1>1. PICK f \in Refers(r) :
         /\ req' = [req EXCEPT ![o] = r] /\ from' = [from EXCEPT ![o] = f]
         /\ step[o] = "idle" /\ \E s \in {"waiting", "rejected"} : step' = [step EXCEPT ![o] = s]
         /\ UNCHANGED <<token, place, renewed, clients, apis, live>>
  BY <1>0
<1>2. /\ req'[o] = r /\ from'[o] = f /\ step'[o] \in {"waiting", "rejected"}
      /\ \A p \in Op : p # o => req'[p] = req[p] /\ from'[p] = from[p] /\ step'[p] = step[p]
  BY <1>1 DEF PeekTypes, LinkInv
<1>3. r.kind \in Settlements \cup {"renewLock"} => f \in Op /\ step[f] = "resolved"
  BY DEF Refers, Peeks, Settlements
<1>4. \A n \in Msg : token[n] # o
  BY <1>1 DEF LockInv, Op, Nobody
<1>5. \A p \in Op : step[p] = "resolved" => p # o
  BY <1>1
<1>6. \A n \in Msg : token'[n] # Nobody =>
          /\ token'[n] \in Op /\ place'[n] = "deferred"
          /\ req'[token'[n]].kind = "receiveDeferred" /\ req'[token'[n]].arg = n
          /\ step'[token'[n]] \in {"served", "resolved", "rejected"}
  BY <1>1, <1>2, <1>4 DEF LockInv
<1>7. \A p \in Op : step'[p] # "idle" => req'[p] \in Request
  BY <1>2 DEF LockInv
<1>8. \A p \in Op : step'[p] # "idle" /\ req'[p].kind \in Settlements \cup {"renewLock"} =>
          from'[p] \in Op /\ step'[from'[p]] = "resolved"
  BY <1>2, <1>3, <1>5 DEF LockInv
<1>9. \A p \in Op : step'[p] = "served" /\ req'[p].kind \in Settlements =>
          \A n \in Msg : token'[n] # from'[p]
  BY <1>1, <1>2 DEF LockInv
<1>10. DeferredIsKnown'
  <2> SUFFICES ASSUME NEW p \in Op, req'[p].kind = "receiveDeferred", step'[p] = "resolved",
                      token'[req'[p].arg] = p, p \notin renewed',
                      Owner \in clients', "receiver" \in apis'
               PROVE  p \in live'
    BY DEF DeferredIsKnown, Held, CanSettle
  <2>1. p # o /\ req'[p] = req[p] /\ step'[p] = step[p]
    BY <1>2
  <2> QED
    BY <1>1, <2>1 DEF LockInv, DeferredIsKnown, Held, CanSettle
<1> QED
  BY <1>1, <1>6, <1>7, <1>8, <1>9, <1>10 DEF LockInv

(* The service carries a request out: the lock of a message is taken, or given up. *)
LEMMA LockServed ==
    ASSUME LockInv, LinkInv, PeekTypes, NEW o \in Op, Serve(o)
    PROVE  LockInv'
<1> USE DEF Serve, sbVars, lockVars
<1>1. /\ step[o] = "sent" /\ step' = [step EXCEPT ![o] = "served"]
      /\ UNCHANGED <<req, from, clients, apis, live>>
  BY DEF GoTo, ServePeek, ServeDeferred, ServeSettle, ServeRenewLock, ServeSchedule,
     ServeCancel, ServeAddRule, ServeRemoveRule, ServeRules, ServeSetState, ServeGetState
<1>2. step'[o] = "served" /\ \A p \in Op : p # o => step'[p] = step[p]
  BY <1>1 DEF LinkInv
<1>3. req[o] \in Request
  BY <1>1 DEF LockInv
<1>4. /\ \A p \in Op : step'[p] # "idle" => req'[p] \in Request
      /\ \A p \in Op : step'[p] # "idle" /\ req'[p].kind \in Settlements \cup {"renewLock"} =>
             from'[p] \in Op /\ step'[from'[p]] = "resolved"
  BY <1>1, <1>2 DEF LockInv
<1>5. ASSUME DOMAIN token' = Msg, renewed \subseteq renewed',
             \A n \in Msg : place'[n] = place[n] \/ token'[n] = Nobody,
             \A n \in Msg : \/ token'[n] = token[n] \/ token'[n] = Nobody
                            \/ /\ token'[n] = o /\ place[n] = "deferred"
                               /\ req[o].kind = "receiveDeferred" /\ req[o].arg = n,
             req[o].kind \in Settlements => \A n \in Msg : token'[n] # from[o]
      PROVE  LockInv'
  <2>1. \A n \in Msg : token'[n] # Nobody =>
          /\ token'[n] \in Op /\ place'[n] = "deferred"
          /\ req'[token'[n]].kind = "receiveDeferred" /\ req'[token'[n]].arg = n
          /\ step'[token'[n]] \in {"served", "resolved", "rejected"}
    BY <1>1, <1>2, <1>5 DEF LockInv
  <2>2. \A p \in Op : step'[p] = "served" /\ req'[p].kind \in Settlements =>
          \A n \in Msg : token'[n] # from'[p]
    <3> SUFFICES ASSUME NEW p \in Op, step'[p] = "served", req[p].kind \in Settlements,
                        NEW n \in Msg
                 PROVE  token'[n] # from[p]
      BY <1>1
    <3>1. CASE p = o
      BY <1>5, <3>1
    <3>2. CASE p # o
      <4>1. step[p] = "served" /\ from[p] \in Op /\ step[from[p]] = "resolved"
        BY <1>2, <3>2 DEF LockInv
      <4>2. from[p] # o /\ from[p] # Nobody /\ token[n] # from[p]
        BY <1>1, <4>1 DEF LockInv, Op, Nobody
      <4> QED
        BY <1>5, <4>2
    <3> QED
      BY <3>1, <3>2
  <2>3. DeferredIsKnown'
    <3> SUFFICES ASSUME NEW p \in Op, req[p].kind = "receiveDeferred", step'[p] = "resolved",
                        token'[req[p].arg] = p, p \notin renewed',
                        Owner \in clients, "receiver" \in apis
                 PROVE  p \in live
      BY <1>1 DEF DeferredIsKnown, Held, CanSettle
    <3>1. p # o /\ step[p] = "resolved" /\ req[p].arg \in Msg
      BY <1>2, ManagementOK DEF LockInv
    <3>2. token[req[p].arg] = p
      BY <1>5, <3>1 DEF Op, Nobody
    <3> QED
      BY <1>5, <3>1, <3>2 DEF LockInv, DeferredIsKnown, Held, CanSettle
  <2> QED
    BY <1>4, <1>5, <2>1, <2>2, <2>3 DEF LockInv
<1>6. CASE ServeDeferred(o)
  <2>1. req[o].arg \in Msg
    BY <1>3, <1>6, ManagementOK DEF ServeDeferred
  <2> QED
    BY <1>5, <1>6, <2>1 DEF ServeDeferred, LockInv, Settlements
<1>7. CASE ServeSettle(o)
  <2>1. req[o].arg \in Msg /\ from[o] \in Op /\ token[req[o].arg] = from[o]
    BY <1>1, <1>3, <1>7, ManagementOK DEF ServeSettle, LockInv
  <2>2. \A n \in Msg : n # req[o].arg => token[n] # from[o]
    BY <2>1 DEF LockInv, Op, Nobody
  <2>3. /\ token' = [token EXCEPT ![req[o].arg] = Nobody] /\ UNCHANGED renewed
        /\ \A n \in Msg : n # req[o].arg => place'[n] = place[n]
    BY <1>7 DEF ServeSettle, PeekTypes
  <2>4. from[o] # Nobody
    BY <2>1 DEF Op, Nobody
  <2>5. \A n \in Msg : token'[n] # from[o]
    BY <2>1, <2>2, <2>3, <2>4 DEF LockInv
  <2>6. DOMAIN token' = Msg /\ \A n \in Msg : token'[n] = token[n] \/ token'[n] = Nobody
    BY <2>3 DEF LockInv
  <2>7. \A n \in Msg : place'[n] = place[n] \/ token'[n] = Nobody
    BY <2>3 DEF LockInv
  <2> QED
    BY <1>5, <2>3, <2>5, <2>6, <2>7
<1>8. CASE UNCHANGED <<token, place>> /\ renewed \subseteq renewed' /\ req[o].kind \notin Settlements
  BY <1>5, <1>8 DEF LockInv
<1>9. CASE ServeRenewLock(o)
  BY <1>8, <1>9 DEF ServeRenewLock, Settlements
<1>10. CASE ServePeek(o)
  BY <1>8, <1>10 DEF ServePeek, Peeks, Settlements
<1>11. CASE ServeSchedule(o) \/ ServeCancel(o) \/ ServeAddRule(o) \/ ServeRemoveRule(o) \/ ServeSetState(o)
  BY <1>8, <1>11 DEF ServeSchedule, ServeCancel, ServeAddRule, ServeRemoveRule, ServeSetState,
     Settlements
<1>12. CASE ServeRules(o) \/ ServeGetState(o)
  BY <1>8, <1>12 DEF ServeRules, ServeGetState, Settlements
<1> QED
  BY <1>6, <1>7, <1>9, <1>10, <1>11, <1>12

(* An answer notes the lock of its message, and drops only one that was given up. *)
LEMMA LockAnswered ==
    ASSUME LockInv, LinkInv, NEW o \in Op, Answered(o)
    PROVE  LockInv'
<1> USE DEF Answered, sbVars, opVars
<1>1. /\ step[o] = "served" /\ step' = [step EXCEPT ![o] = "resolved"]
      /\ live' = (live \cup {p \in Noted(o) : Held(p)}) \ Forgotten(o)
      /\ UNCHANGED <<req, from, token, place, renewed, clients, apis>>
  BY DEF GoTo
<1>2. step'[o] = "resolved" /\ \A p \in Op : p # o => step'[p] = step[p]
  BY <1>1 DEF LinkInv
<1>3. DeferredIsKnown'
  <2> SUFFICES ASSUME NEW p \in Op, req[p].kind = "receiveDeferred", step'[p] = "resolved",
                      token[req[p].arg] = p, p \notin renewed,
                      Owner \in clients, "receiver" \in apis
               PROVE  p \in live'
    BY <1>1 DEF DeferredIsKnown, Held, CanSettle
  <2>1. p \in live \cup {q \in Noted(o) : Held(q)}
    <3>1. CASE p = o
      BY <3>1 DEF Noted, Held
    <3>2. CASE p # o
      BY <1>2, <3>2 DEF LockInv, DeferredIsKnown, Held, CanSettle
    <3> QED
      BY <3>1, <3>2
  <2>2. p \notin Forgotten(o)
    <3>1. step[p] # "idle"
      BY <1>1, <1>2
    <3>2. req[p].arg \in Msg
      BY <3>1, ManagementOK DEF LockInv
    <3> QED
      BY <1>1, <3>2 DEF LockInv, Forgotten
  <2> QED
    BY <1>1, <2>1, <2>2
<1>4. \A n \in Msg : token'[n] # Nobody =>
          /\ token'[n] \in Op /\ place'[n] = "deferred"
          /\ req'[token'[n]].kind = "receiveDeferred" /\ req'[token'[n]].arg = n
          /\ step'[token'[n]] \in {"served", "resolved", "rejected"}
  BY <1>1, <1>2 DEF LockInv
<1>5. \A p \in Op : step'[p] # "idle" => req'[p] \in Request
  BY <1>1, <1>2 DEF LockInv
<1>6. \A p \in Op : step'[p] # "idle" /\ req'[p].kind \in Settlements \cup {"renewLock"} =>
          from'[p] \in Op /\ step'[from'[p]] = "resolved"
  BY <1>1, <1>2 DEF LockInv
<1>7. \A p \in Op : step'[p] = "served" /\ req'[p].kind \in Settlements =>
          \A n \in Msg : token'[n] # from'[p]
  BY <1>1, <1>2 DEF LockInv
<1> QED
  BY <1>1, <1>3, <1>4, <1>5, <1>6, <1>7 DEF LockInv

(* A lock runs out: for the client alone only if it was renewed. *)
LEMMA LockEnds ==
    ASSUME LockInv, NEW n \in Msg, LockRunsOut(n)
    PROVE  LockInv'
<1> USE DEF LockRunsOut, opVars
<1>1. /\ UNCHANGED <<req, from, step, place, renewed, clients, apis>>
      /\ live' = live \ {token[n]} /\ token[n] # Nobody
      /\ \/ token[n] \in renewed /\ token' = token
         \/ token' = [token EXCEPT ![n] = Nobody]
  OBVIOUS
<1>2. /\ DOMAIN token' = Msg
      /\ \A m \in Msg : token'[m] = token[m] \/ token'[m] = Nobody
  BY <1>1 DEF LockInv
<1>3. DeferredIsKnown'
  <2> SUFFICES ASSUME NEW p \in Op, req[p].kind = "receiveDeferred", step[p] = "resolved",
                      token'[req[p].arg] = p, p \notin renewed,
                      Owner \in clients, "receiver" \in apis
               PROVE  p \in live \ {token[n]}
    BY <1>1 DEF DeferredIsKnown, Held, CanSettle
  <2>1. req[p].arg \in Msg
    BY ManagementOK DEF LockInv
  <2>2. token[req[p].arg] = p /\ p # Nobody
    BY <1>2, <2>1 DEF Op, Nobody
  <2>3. p \in live
    BY <2>2 DEF LockInv, DeferredIsKnown, Held, CanSettle
  <2>4. p # token[n]
    <3> SUFFICES ASSUME p = token[n] PROVE FALSE
      OBVIOUS
    <3>1. req[p].arg = n
      BY <1>1 DEF LockInv
    <3> QED
      BY <1>1, <2>2, <3>1 DEF LockInv
  <2> QED
    BY <2>3, <2>4
<1>4. \A p \in Op : step[p] = "served" /\ req[p].kind \in Settlements =>
          \A m \in Msg : token'[m] # from[p]
  BY <1>2 DEF LockInv, Op, Nobody
<1> QED
  BY <1>1, <1>2, <1>3, <1>4 DEF LockInv

LEMMA LockKept ==
    ASSUME LockInv, LinkInv, PeekTypes, [Next]_vars
    PROVE  LockInv'
<1> DEFINE Still == /\ UNCHANGED <<req, from, token, place, renewed>>
                    /\ clients' \subseteq clients /\ apis' \subseteq apis
                    /\ Owner \in clients' /\ "receiver" \in apis' => live \subseteq live'
           Moved == \A p \in Op :
                 /\ step[p] = "idle" => step'[p] = "idle"
                 /\ step[p] \in {"served", "resolved", "rejected"} =>
                       step'[p] = step[p] \/ (step[p] = "served" /\ step'[p] = "rejected")
                 /\ step'[p] \in {"served", "resolved"} => step[p] = step'[p]
<1>1. Still /\ Moved => LockInv'
  BY LockStable
<1> USE DEF linkVars, lockVars, sbVars, opVars
<1>2. ASSUME NEW o \in Op, Lock(o) \/ Opened(o) \/ OpenFails(o) \/ Send(o) \/ Fails(o)
      PROVE  Still /\ Moved
  <2>1. Still
    BY <1>2 DEF Lock, Opened, OpenFails, Send, Fails
  <2>2. Moved
    BY <1>2 DEF Lock, Opened, OpenFails, Send, Fails, GoTo, LinkInv
  <2> QED
    BY <2>1, <2>2
<1>3. ASSUME NEW c \in Client, CloseClient(c) PROVE Still /\ Moved
  BY <1>3 DEF CloseClient
<1>4. Collect \/ CloseSender \/ CloseReceiver \/ Disconnected => Still /\ Moved
  BY DEF Collect, CloseSender, CloseReceiver, Disconnected, Unexpired
<1>5. UNCHANGED vars => Still /\ Moved
  BY DEF vars
<1> HIDE DEF Still, Moved
<1>6. ASSUME NEW o \in Op, OpStep(o) PROVE LockInv'
  BY <1>1, <1>2, <1>6, LockServed, LockAnswered DEF OpStep
<1> QED
  BY <1>1, <1>3, <1>4, <1>5, <1>6, LockStarts, LockEnds DEF Next

-----------------------------------------------------------------------------
LEMMA StepHolds == IInv /\ [Next]_vars => IInv'
<1> SUFFICES ASSUME IInv, [Next]_vars PROVE IInv'
  OBVIOUS
<1> QED
  BY LinkKept, PeekKept, LockKept DEF IInv

\* However many requests find no link, and lose it again, one link is open at
\* most (managementClient.ts 210-270 and 313-332).
THEOREM OneLinkIsOpen == Spec => []OneManagementLink
<1>1. IInv => OneManagementLink
  BY DEF IInv, LinkInv
<1> QED
  BY <1>1, InitHolds, StepHolds, PTL DEF Spec

\* As long as all clients use peek(), no message is passed over, in whatever order
\* the answers of concurrent peeks come and whichever are lost (lines 345-463).
THEOREM PeeksLeaveNoGap == Spec => []PeekLeavesNoGap
<1>1. IInv => PeekLeavesNoGap
  BY DEF IInv, PeekInv, PeekLeavesNoGap, Peeked
<1> QED
  BY <1>1, InitHolds, StepHolds, PTL DEF Spec

\* A deferred message that was received can be settled, also again after it failed or under
\* another lock, while the lock lasts and neither the owner nor its Receiver is closed
\* (serviceBusMessage.ts 966-983).
THEOREM DeferredCanBeSettled == Spec => []DeferredIsKnown
<1>1. IInv => DeferredIsKnown
  BY DEF IInv, LockInv
<1> QED
  BY <1>1, InitHolds, StepHolds, PTL DEF Spec
=============================================================================
