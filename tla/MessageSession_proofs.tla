------------------------- MODULE MessageSession_proofs -------------------------
(* Proofs about MessageSession, for any number of sessions, receivers, calls,
   messages and losses: the renewal of locks, and the cache of the context. *)
EXTENDS MessageSession, TLAPS

SessionInv ==
    /\ link \in [Session -> LinkState]
    /\ sid \in [Session -> Sid \cup {None}]
    /\ renewal \in [Session -> {"off", "set", "asked"}]
    /\ cache \in [Sid -> Session \cup {None}] /\ holder \in [Sid -> Session \cup {None}]
    /\ current \in [Reader -> Session \cup {None}]
    /\ DOMAIN stage = Call /\ DOMAIN target = Call
    /\ \A o \in Session : link[o] \in {"open", "down", "closing"} => sid[o] \in Sid

\* The session that a call creates is no other call's, and has no link yet.
CreateInv ==
    \A c \in Call : stage[c] = "creating" =>
        /\ target[c] \in Session /\ link[target[c]] \in {"connecting", "failed"}
        /\ \A d \in Call : stage[d] = "creating" /\ target[d] = target[c] => d = c

\* Before a connection is lost, the broker's lock of a session goes with the link that
\* has it until that is closed; the cache names this link while it is open, and no other.
LockInv == ~dropped =>
    /\ \A s \in Sid : holder[s] # None =>
          sid[holder[s]] = s /\ link[holder[s]] \in {"open", "closing"}
    /\ \A s \in Sid : cache[s] # None => holder[s] = cache[s] /\ link[cache[s]] = "open"
    /\ \A o \in Session : link[o] = "open" => cache[sid[o]] = o
    /\ \A o \in Session : link[o] # "down"

IInv == SessionInv /\ CreateInv /\ LockInv /\ RenewalStops

-----------------------------------------------------------------------------
LEMMA InitHolds == Init => IInv
<1> SUFFICES ASSUME Init PROVE IInv
  OBVIOUS
<1> USE DEF Init
<1>1. SessionInv
  BY DEF SessionInv, LinkState
<1>2. CreateInv
  BY DEF CreateInv
<1>3. LockInv
  BY DEF LockInv
<1>4. RenewalStops
  BY DEF RenewalStops
<1> QED
  BY <1>1, <1>2, <1>3, <1>4 DEF IInv

\* A step that leaves links, locks and the calls that create alone.
LEMMA NothingNew ==
    ASSUME IInv, UNCHANGED <<link, sid, cache, holder, current, target, dropped>>,
           DOMAIN stage' = Call,
           renewal' \in [Session -> {"off", "set", "asked"}],
           \A o \in Session : renewal'[o] = "set" => renewal[o] = "set" \/ IsOpen(o),
           \A c \in Call : stage'[c] = "creating" => stage[c] = "creating"
    PROVE  IInv'
<1> USE DEF IInv
<1>1. SessionInv'
  BY DEF SessionInv
<1>2. CreateInv'
  BY DEF CreateInv
<1>3. LockInv'
  BY DEF LockInv
<1>4. RenewalStops'
  BY DEF RenewalStops, IsOpen
<1> QED
  BY <1>1, <1>2, <1>3, <1>4

\* close() of a session: the lock stays with the link while that is closing, but the
\* cache forgets it.
LEMMA CloseKeeps ==
    ASSUME IInv, NEW o \in Session, NEW e \in BOOLEAN, Close(o, e),
           DOMAIN stage' = Call, DOMAIN target' = Call, UNCHANGED <<current, dropped>>,
           \A c \in Call : stage'[c] = "creating" =>
              stage[c] = "creating" /\ target'[c] = target[c]
    PROVE  IInv'
<1> USE DEF IInv
<1>1. CASE link[o] \in HasReceiver
  <2>1. /\ link' = [link EXCEPT ![o] = IF link[o] = "open" THEN "closing" ELSE "closed"]
        /\ cache' = [cache EXCEPT ![sid[o]] = None]
        /\ UNCHANGED <<sid, holder>> /\ sid[o] \in Sid
    BY <1>1 DEF Close, Put, Forgotten, HasReceiver, SessionInv
  <2>2. renewal' \in [Session -> {"off", "set", "asked"}] /\ renewal'[o] # "set"
        /\ \A x \in Session : x # o => renewal'[x] = renewal[x]
    BY DEF Close, Put, SessionInv
  <2>3. SessionInv'
    BY <1>1, <2>1, <2>2 DEF SessionInv, LinkState, HasReceiver
  <2>4. CreateInv'
    BY <1>1, <2>1 DEF CreateInv, HasReceiver, SessionInv
  <2>5. LockInv'
    BY <1>1, <2>1, SessionOK DEF LockInv, HasReceiver, SessionInv
  <2>6. RenewalStops'
    BY <2>1, <2>2 DEF RenewalStops, SessionInv
  <2> QED
    BY <2>3, <2>4, <2>5, <2>6
<1>2. CASE link[o] \notin HasReceiver
  <2>1. UNCHANGED <<link, cache, sid, holder>>
    BY <1>2 DEF Close
  <2>2. /\ renewal' \in [Session -> {"off", "set", "asked"}]
        /\ \A x \in Session : renewal'[x] = "set" => renewal[x] = "set"
    BY DEF Close, Put, SessionInv
  <2>3. SessionInv' /\ LockInv' /\ RenewalStops'
    BY <2>1, <2>2 DEF SessionInv, LockInv, RenewalStops
  <2>4. CreateInv'
    BY <2>1 DEF CreateInv
  <2> QED
    BY <2>3, <2>4
<1> QED
  BY <1>1, <1>2

-----------------------------------------------------------------------------
LEMMA StartKeeps ==
    ASSUME IInv, NEW c \in Call, StartCall(c)
    PROVE  IInv'
<1> USE DEF IInv
<1>1. UNCHANGED <<sid, cache, holder, renewal, current, dropped>>
  BY DEF StartCall, readerVars, bounds
<1>2. CASE current[ReaderOf(c)] # None
  <2>1. /\ stage' = [stage EXCEPT ![c] = "ready"] /\ UNCHANGED <<link, target>>
    BY <1>2 DEF StartCall, Put
  <2> QED
    BY <1>1, <2>1, NothingNew DEF SessionInv
<1>3. CASE current[ReaderOf(c)] = None
  <2>1. PICK o \in Session :
           /\ link[o] = "unused" /\ link' = [link EXCEPT ![o] = "connecting"]
           /\ stage' = [stage EXCEPT ![c] = "creating"]
           /\ target' = [target EXCEPT ![c] = o]
    BY <1>3 DEF StartCall, Put
  <2>2. SessionInv'
    BY <1>1, <2>1 DEF SessionInv, LinkState
  <2>3. CreateInv'
    BY <2>1 DEF CreateInv, SessionInv
  <2>4. LockInv'
    BY <1>1, <2>1, SessionOK DEF LockInv, SessionInv
  <2>5. RenewalStops'
    BY <1>1, <2>1 DEF RenewalStops, SessionInv
  <2> QED
    BY <2>2, <2>3, <2>4, <2>5
<1> QED
  BY <1>2, <1>3

\* A link that is established takes the lock, and the place in the cache, which is free.
LEMMA CreatedKeeps ==
    ASSUME IInv, NEW c \in Call, Created(c)
    PROVE  IInv'
<1> USE DEF IInv
<1> DEFINE o == target[c]
<1>1. PICK s \in Sid :
         /\ stage[c] = "creating" /\ link[o] = "connecting" /\ holder[s] = None
         /\ Established(o, s) /\ current' = [current EXCEPT ![ReaderOf(c)] = o]
         /\ stage' = [stage EXCEPT ![c] = "ready"] /\ UNCHANGED <<target, dropped>>
  BY DEF Created, Put, bounds
<1>2. o \in Session
  BY <1>1 DEF CreateInv
<1>3. /\ link' = [link EXCEPT ![o] = "open"] /\ sid' = [sid EXCEPT ![o] = s]
      /\ holder' = [holder EXCEPT ![s] = o]
      /\ cache' = IF cache[s] = None THEN [cache EXCEPT ![s] = o] ELSE cache
      /\ renewal' = [renewal EXCEPT ![o] = "set"]
  BY <1>1 DEF Established, Put
<1>4. SessionInv'
  BY <1>1, <1>2, <1>3 DEF SessionInv, LinkState
<1>5. CreateInv'
  <2> SUFFICES ASSUME NEW d \in Call, stage'[d] = "creating"
               PROVE  /\ target'[d] \in Session /\ link'[target'[d]] \in {"connecting", "failed"}
                      /\ \A x \in Call : stage'[x] = "creating" /\ target'[x] = target'[d] => x = d
    BY DEF CreateInv
  <2>1. d # c /\ stage[d] = "creating"
    BY <1>1 DEF SessionInv
  <2>2. target[d] # o /\ target[d] \in Session
    BY <1>1, <2>1 DEF CreateInv
  <2>3. link'[target[d]] = link[target[d]]
    BY <1>3, <2>2 DEF SessionInv
  <2> QED
    BY <1>1, <2>1, <2>2, <2>3 DEF CreateInv, SessionInv
<1>6. LockInv'
  BY <1>1, <1>2, <1>3, SessionOK DEF LockInv, SessionInv
<1>7. RenewalStops'
  BY <1>2, <1>3 DEF RenewalStops, SessionInv
<1> QED
  BY <1>4, <1>5, <1>6, <1>7

LEMMA RejectedKeeps ==
    ASSUME IInv, NEW c \in Call, CreateRejected(c)
    PROVE  IInv'
<1> USE DEF IInv
<1>1. /\ stage[c] = "creating" /\ link' = [link EXCEPT ![target[c]] = "failed"]
      /\ stage' = [stage EXCEPT ![c] = "rejected"]
      /\ UNCHANGED <<sid, renewal, cache, holder, current, target, dropped>>
  BY DEF CreateRejected, Put, readerVars, bounds
<1>2. target[c] \in Session /\ link[target[c]] \in {"connecting", "failed"}
  BY <1>1 DEF CreateInv
<1>3. SessionInv'
  BY <1>1, <1>2 DEF SessionInv, LinkState
<1>4. CreateInv'
  BY <1>1, <1>2 DEF CreateInv, SessionInv
<1>5. LockInv'
  BY <1>1, <1>2 DEF LockInv, SessionInv
<1>6. RenewalStops'
  BY <1>1, <1>2 DEF RenewalStops, SessionInv
<1> QED
  BY <1>3, <1>4, <1>5, <1>6

-----------------------------------------------------------------------------
LEMMA DetachedKeeps ==
    ASSUME IInv, NEW o \in Session, Detached(o)
    PROVE  IInv'
<1> USE DEF IInv
<1>1. /\ link[o] = "open" /\ link' = [link EXCEPT ![o] = "closed"]
      /\ cache' = [cache EXCEPT ![sid[o]] = None] /\ holder' = [holder EXCEPT ![sid[o]] = None]
      /\ UNCHANGED <<sid, current, target, dropped>>
  BY DEF Detached, IsOpen, Put, Forgotten, readerVars
<1>2. /\ renewal' \in [Session -> {"off", "set", "asked"}] /\ renewal'[o] # "set"
      /\ \A x \in Session : x # o => renewal'[x] = renewal[x]
  BY DEF Detached, Put, SessionInv
<1>3. DOMAIN stage' = Call /\ \A c \in Call : stage'[c] = "creating" => stage[c] = "creating"
  BY DEF Detached, Notified, Put, SessionInv
<1>4. SessionInv'
  BY <1>1, <1>2, <1>3 DEF SessionInv, LinkState
<1>5. CreateInv'
  BY <1>1, <1>3 DEF CreateInv, SessionInv
<1>6. LockInv'
  BY <1>1, SessionOK DEF LockInv, SessionInv
<1>7. RenewalStops'
  BY <1>1, <1>2 DEF RenewalStops, SessionInv
<1> QED
  BY <1>4, <1>5, <1>6, <1>7

LEMMA DisconnectedKeeps ==
    ASSUME IInv, Disconnected
    PROVE  IInv'
<1> USE DEF IInv
<1>1. /\ link' = [o \in Session |-> CASE link[o] = "open" -> "down"
                                      [] link[o] = "closing" -> "closed"
                                      [] link[o] = "connecting" -> "failed"
                                      [] OTHER -> link[o]]
      /\ holder' = [s \in Sid |-> None] /\ dropped'
      /\ UNCHANGED <<sid, renewal, cache, current, stage, target>>
  BY DEF Disconnected, readerVars, callVars
<1>2. \A o \in Session : link'[o] = CASE link[o] = "open" -> "down"
                                      [] link[o] = "closing" -> "closed"
                                      [] link[o] = "connecting" -> "failed"
                                      [] OTHER -> link[o]
  BY <1>1
<1>3. SessionInv'
  BY <1>1, <1>2 DEF SessionInv, LinkState
<1>4. CreateInv'
  BY <1>1, <1>2 DEF CreateInv
<1>5. LockInv'
  BY <1>1 DEF LockInv
<1>6. RenewalStops'
  BY <1>1, <1>2 DEF RenewalStops
<1> QED
  BY <1>3, <1>4, <1>5, <1>6

LEMMA LinkClosedKeeps ==
    ASSUME IInv, NEW o \in Session, LinkClosed(o)
    PROVE  IInv'
<1> USE DEF IInv
<1>1. /\ link[o] = "closing" /\ link' = [link EXCEPT ![o] = "closed"]
      /\ holder' = [s \in Sid |-> IF holder[s] = o THEN None ELSE holder[s]]
      /\ UNCHANGED <<sid, renewal, cache, current, stage, target, dropped>>
  BY DEF LinkClosed, Put, readerVars, callVars, bounds
<1>2. SessionInv'
  BY <1>1 DEF SessionInv, LinkState
<1>3. CreateInv'
  BY <1>1 DEF CreateInv, SessionInv
<1>4. LockInv'
  BY <1>1, SessionOK DEF LockInv, SessionInv
<1>5. RenewalStops'
  BY <1>1 DEF RenewalStops, SessionInv
<1> QED
  BY <1>2, <1>3, <1>4, <1>5

\* A step that leaves links and locks alone, and moves targets of calls that do not create.
LEMMA TargetMoves ==
    ASSUME IInv, UNCHANGED <<link, sid, renewal, cache, holder, current, dropped>>,
           DOMAIN stage' = Call, DOMAIN target' = Call,
           \A c \in Call : stage'[c] = "creating" =>
              stage[c] = "creating" /\ target'[c] = target[c]
    PROVE  IInv'
<1>1. SessionInv'
  BY DEF IInv, SessionInv
<1>2. CreateInv'
  BY DEF IInv, CreateInv
<1>3. LockInv' /\ RenewalStops'
  BY DEF IInv, LockInv, RenewalStops
<1> QED
  BY <1>1, <1>2, <1>3 DEF IInv

-----------------------------------------------------------------------------
LEMMA IInvNext == IInv /\ [Next]_vars => IInv'
<1> SUFFICES ASSUME IInv, [Next]_vars PROVE IInv'
  OBVIOUS
<1> USE DEF linkVars, readerVars, callVars, bounds
<1>1. SessionInv
  BY DEF IInv
<1>2. ASSUME NEW c \in Call, UseHandler(c) PROVE IInv'
  <2> DEFINE o == current[ReaderOf(c)]
  <2>1. o \in Session \cup {None}
    BY <1>1, SessionOK DEF SessionInv
  <2>2. UNCHANGED <<current, dropped>> /\ target' = [target EXCEPT ![c] = o]
        /\ stage[c] = "ready"
    BY <1>2 DEF UseHandler, Put
  <2>3. /\ DOMAIN stage' = Call /\ DOMAIN target' = Call
        /\ \A d \in Call : stage'[d] = "creating" => stage[d] = "creating" /\ target'[d] = target[d]
    BY <1>1, <1>2, <2>2 DEF UseHandler, Receive, Put, SessionInv
  <2>4. CASE o # None /\ Close(o, FALSE)
    BY <2>1, <2>2, <2>3, <2>4, CloseKeeps
  <2>5. CASE UNCHANGED <<link, sid, renewal, cache, holder>>
    BY <2>2, <2>3, <2>5, TargetMoves
  <2> QED
    BY <1>2, <2>4, <2>5 DEF UseHandler, Receive
<1>3. ASSUME NEW c \in Call, UseBatch(c) PROVE IInv'
  <2>1. /\ DOMAIN stage' = Call /\ DOMAIN target' = Call
        /\ \A d \in Call : stage'[d] = "creating" => stage[d] = "creating" /\ target'[d] = target[d]
        /\ UNCHANGED <<link, sid, renewal, cache, holder, current, dropped>>
    BY <1>1, <1>3 DEF UseBatch, ReceiveMessages, Put, SessionInv
  <2> QED
    BY <2>1, TargetMoves
<1>4. ASSUME NEW c \in Call, UseRequest(c) \/ Answered(c) \/ WaitOver(c) \/ Handled(c) PROVE IInv'
  <2>1. /\ UNCHANGED <<link, sid, renewal, cache, holder, current, target, dropped>>
        /\ DOMAIN stage' = Call
        /\ \A d \in Call : stage'[d] = "creating" => stage[d] = "creating"
    BY <1>1, <1>4 DEF UseRequest, Answered, WaitOver, Final, Handled, Put, SessionInv
  <2> QED
    BY <1>1, <2>1, NothingNew DEF SessionInv
<1>5. ASSUME NEW o \in Session, Deliver(o) \/ Drained(o) \/ SettleEnds(o) PROVE IInv'
  <2>1. /\ UNCHANGED <<link, sid, renewal, cache, holder, current, target, dropped>>
        /\ DOMAIN stage' = Call
        /\ \A d \in Call : stage'[d] = "creating" => stage[d] = "creating"
    BY <1>1, <1>5 DEF Deliver, Drained, Final, SettleEnds, SessionInv
  <2> QED
    BY <1>1, <2>1, NothingNew DEF SessionInv
<1>6. ASSUME NEW o \in Session, RenewalFires(o) \/ RenewalAnswered(o) PROVE IInv'
  <2>1. /\ UNCHANGED <<link, sid, cache, holder, current, target, stage, dropped>>
        /\ renewal' \in [Session -> {"off", "set", "asked"}]
        /\ \A x \in Session : renewal'[x] = "set" => renewal[x] = "set" \/ IsOpen(x)
    BY <1>1, <1>6 DEF RenewalFires, RenewalAnswered, Renews, Put, SessionInv
  <2> QED
    BY <1>1, <2>1, NothingNew DEF SessionInv
<1>7. ASSUME NEW r \in Reader, CloseReader(r) PROVE IInv'
  <2>1. UNCHANGED <<current, stage, target, dropped>>
    BY <1>7 DEF CloseReader
  <2>2. CASE current[r] = None
    <3>1. UNCHANGED <<link, sid, renewal, cache, holder>>
      BY <1>7, <2>2 DEF CloseReader
    <3> QED
      BY <1>1, <2>1, <3>1, NothingNew DEF SessionInv
  <2>3. CASE current[r] # None
    <3>1. current[r] \in Session /\ Close(current[r], FALSE)
      BY <1>1, <1>7, <2>3 DEF CloseReader, SessionInv
    <3> QED
      BY <1>1, <2>1, <3>1, CloseKeeps DEF SessionInv
  <2> QED
    BY <2>2, <2>3
<1>8. ASSUME NEW o \in Session, CloseContext(o) PROVE IInv'
  <2>1. UNCHANGED <<current, stage, target, dropped>> /\ Close(o, FALSE)
    BY <1>8 DEF CloseContext
  <2> QED
    BY <1>1, <2>1, CloseKeeps DEF SessionInv
<1>9. ASSUME NEW r \in Reader, ReaderClosed(r) PROVE IInv'
  BY <1>9 DEF ReaderClosed, Put, IInv, SessionInv, CreateInv, LockInv, RenewalStops
<1>10. CASE UNCHANGED vars
  BY <1>1, <1>10, NothingNew DEF vars, SessionInv
<1> QED
  BY <1>2, <1>3, <1>4, <1>5, <1>6, <1>7, <1>8, <1>9, <1>10, StartKeeps, CreatedKeeps,
     RejectedKeeps, DetachedKeeps, DisconnectedKeeps, LinkClosedKeeps DEF Next, CallStep

LEMMA Invariance == Spec => []IInv
  BY InitHolds, IInvNext, PTL DEF Spec

(* No renewal timer of a session is set once its link was closed, whatever answers come. *)
THEOREM RenewalEnds == Spec => []RenewalStops
<1>1. IInv => RenewalStops
  BY DEF IInv
<1> QED
  BY <1>1, Invariance, PTL

(* Before a connection is lost, the open link that has the broker's lock of a session is
   the one the context knows it by: for any number of receivers that contend for it. *)
THEOREM CacheNamesHolder == Spec => []CacheIsHolder
<1>1. IInv => CacheIsHolder
  <2> SUFFICES ASSUME IInv, ~dropped, NEW s \in Sid, holder[s] # None, IsOpen(holder[s])
               PROVE  cache[s] = holder[s]
    BY DEF CacheIsHolder
  <2>1. holder[s] \in Session /\ sid[holder[s]] = s
    BY DEF IInv, LockInv, SessionInv
  <2> QED
    BY <2>1 DEF IInv, LockInv, IsOpen
<1> QED
  BY <1>1, Invariance, PTL
=============================================================================
