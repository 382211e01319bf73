-------------------------- MODULE Bootstrap_proofs --------------------------
(* Theorems about Configurator and about Bootstrap, which runs it.  Of
   Configurator: for every forest of calls, every namespace, every number of
   connectors, faults and deletions, and both adapters.  Of Bootstrap: for any
   number of servers, routes and emitters, in sequence or not, and every forest
   of provisions; every step of the boot is a step of the configurator or leaves
   it alone, so what is proved of that holds here too. *)
EXTENDS Bootstrap, ConfiguratorRefinement, FiniteSetTheorems, TLAPS

-----------------------------------------------------------------------------
(* Configurator: the synchronous parts *)

\* The first await of a call, and the next one, are program points.
LEMMA EnteredValue ==
    ASSUME NEW n \in Node, NEW ch
    PROVE  /\ Entered(n, ch) \in {"done", "topic", "get"}
           /\ Entered(n, ch) = "done" =>
                 EntOf[n] \in ch[ConnOf[n]] \/ TypeOf[n] = "skip"
  BY DEF Entered

LEMMA StageAfterValue ==
    ASSUME NEW n, NEW s, NEW o
    PROVE  StageAfter(n, s, o) \in {"deadLetter", "forward", "rules", "done"}
  BY DEF StageAfter

\* A turn leaves a call where it was or enters it.
LEMMA InvokeCases ==
    ASSUME NEW S, NEW p, NEW ch, NEW m \in Node
    PROVE  Invoke(S, p, ch)[m] \in {p[m], Entered(m, ch)}
  BY DEF Invoke

LEMMA InvokeType ==
    ASSUME NEW S, NEW p \in [Node -> PcVal], NEW ch
    PROVE  Invoke(S, p, ch) \in [Node -> PcVal]
  <1>1. \A m \in Node :
           (IF m \in Made(S, ch) THEN Entered(m, ch) ELSE p[m]) \in PcVal
    BY EnteredValue DEF PcVal, Stage, Returned
  <1>2. QED
    BY <1>1 DEF Invoke

\* Moving n to s leaves every other call where it was or enters it.
LEMMA MoveToCases ==
    ASSUME NEW n \in Node, NEW s, NEW o, NEW ch, NEW m \in Node,
           pc \in [Node -> PcVal]
    PROVE  \/ MoveTo(n, s, o, ch)[m] = Entered(m, ch)
           \/ m = n /\ MoveTo(n, s, o, ch)[m] = s
           \/ m # n /\ MoveTo(n, s, o, ch)[m] = pc[m]
  <1> DEFINE S == IF s = "done" THEN {} ELSE Awaited(n, s, o)
             p == [pc EXCEPT ![n] = s]
  <1>1. MoveTo(n, s, o, ch) = Invoke(S, p, ch)
    BY DEF MoveTo
  <1>2. Invoke(S, p, ch)[m] \in {p[m], Entered(m, ch)}
    BY InvokeCases
  <1>3. p[m] = IF m = n THEN s ELSE pc[m]
    OBVIOUS
  <1>4. QED
    BY <1>1, <1>2, <1>3

LEMMA MoveToType ==
    ASSUME NEW n \in Node, NEW s \in PcVal, NEW o, NEW ch,
           pc \in [Node -> PcVal]
    PROVE  MoveTo(n, s, o, ch) \in [Node -> PcVal]
  <1>1. [pc EXCEPT ![n] = s] \in [Node -> PcVal]
    OBVIOUS
  <1>2. QED
    BY <1>1, InvokeType DEF MoveTo

-----------------------------------------------------------------------------
(* Configurator: type correctness *)

LEMMA StageType ==
    ASSUME NEW n, NEW s, NEW o PROVE StageAfter(n, s, o) \in PcVal
  BY StageAfterValue DEF PcVal, Stage, LinkKind, Returned

LEMMA ParamsType ==
    ASSUME NEW n \in Node PROVE Params[n] \in Details /\ Params[n] # Absent
  BY ConstantsOK DEF Details

LEMMA AbsentType == Absent \in Details
  BY DEF Details

LEMMA TypeInit == Init => TypeOK
  BY AbsentType, ConstantsOK DEF Init, TypeOK, PcVal

LEMMA TypeStep == TypeOK /\ [Next]_vars => TypeOK'
  <1> SUFFICES ASSUME TypeOK, [Next]_vars PROVE TypeOK'
    OBVIOUS
  <1> USE DEF TypeOK
  <1>1. ASSUME NEW r \in Root, Call(r) PROVE TypeOK'
    BY <1>1, InvokeType DEF Call
  <1>2. ASSUME NEW n \in Node, GetReply(n) PROVE TypeOK'
    <2>1. broker[EntOf[n]] \in Details
      BY ConstantsOK
    <2>2. obj' \in [Node -> Details] /\ faults' \in Nat
      BY <1>2, <2>1, AbsentType DEF GetReply
    <2>3. pc' \in [Node -> PcVal]
      BY <1>2 DEF GetReply, PcVal
    <2>4. QED
      BY <1>2, <2>2, <2>3 DEF GetReply
  <1>3. ASSUME NEW n \in Node, UpsertReply(n) PROVE TypeOK'
    <2>1. EntOf[n] \in Entity /\ Params[n] \in Details
      BY ConstantsOK, ParamsType
    <2>2. broker' \in [Entity -> Details]
      BY <1>3, <2>1 DEF UpsertReply, UpsertFails
    <2>3. obj' \in [Node -> Details] /\ pc' \in [Node -> PcVal] /\ faults' \in Nat
      BY <1>3, <2>1 DEF UpsertReply, UpsertFails, PcVal, Returned
    <2>4. QED
      BY <1>3, <2>2, <2>3 DEF UpsertReply, UpsertFails
  <1>4. ASSUME NEW n \in Node, Settle(n) PROVE TypeOK'
    <2>1. cache' \in [Connector -> SUBSET Entity]
      BY <1>4, ConstantsOK DEF Settle
    <2>2. pc' \in [Node -> PcVal]
      BY <1>4, StageType, MoveToType DEF Settle
    <2>3. QED
      BY <1>4, <2>1, <2>2 DEF Settle
  <1>5. ASSUME NEW n \in Node, Resume(n) PROVE TypeOK'
    <2>1. pc' \in [Node -> PcVal]
      <3>1. CASE pc[n] = "topic"
        BY <1>5, <3>1 DEF Resume, AllReturned, PcVal
      <3>2. CASE pc[n] # "topic"
        BY <1>5, <3>2, StageType, MoveToType DEF Resume, AllReturned
      <3>3. QED
        BY <3>1, <3>2
    <2>2. QED
      BY <1>5, <2>1 DEF Resume, AllReturned
  <1>6. ASSUME NEW n \in Node, Reject(n) PROVE TypeOK'
    BY <1>6 DEF Reject, AnyRejected, PcVal, Returned
  <1>7. ASSUME NEW e \in Entity, DeleteEntity(e) PROVE TypeOK'
    BY <1>7, AbsentType DEF DeleteEntity, Below
  <1>8. CASE UNCHANGED vars
    BY <1>8 DEF vars
  <1>9. QED
    BY <1>1, <1>2, <1>3, <1>4, <1>5, <1>6, <1>7, <1>8 DEF Next, NodeStep

\* Every variable of the configurator keeps its type.
THEOREM TypeCorrect == Spec => []TypeOK
  BY TypeInit, TypeStep, PTL DEF Spec

-----------------------------------------------------------------------------
(* Configurator: provisioning *)

\* An entity that was there: the answers the calls go by stay good in this sense.
There(e) == Exists(e) \/ e \in deleted

\* The inductive invariant: the cache, the answers of the namespace and the
\* program points past `settle` all witness that an entity was there.
ProvisionInv ==
    /\ TypeOK
    /\ \A c \in Connector : \A e \in cache[c] : There(e)
    /\ \A n \in Node : obj[n] # Absent => There(EntOf[n])
    /\ \A n \in Node : pc[n] = "created" => obj[n] # Absent
    /\ \A n \in Node : /\ pc[n] \in {"deadLetter", "forward", "rules", "done"}
                       /\ TypeOf[n] = "verifyCreate"
                       => There(EntOf[n])

\* What was there stays so described, whatever step is taken.
LEMMA ThereStays ==
    ASSUME TypeOK, [Next]_vars, NEW e \in Entity, There(e)
    PROVE  There(e)'
  <1> USE DEF There, Exists, TypeOK
  <1>1. ASSUME NEW n \in Node, UpsertReply(n) PROVE There(e)'
    <2>1. broker' = broker \/ broker' = [broker EXCEPT ![EntOf[n]] = Params[n]]
      BY <1>1 DEF UpsertReply, UpsertFails
    <2>2. deleted' = deleted
      BY <1>1 DEF UpsertReply, UpsertFails
    <2>3. QED
      BY <2>1, <2>2, ParamsType
  <1>2. ASSUME NEW d \in Entity, DeleteEntity(d) PROVE There(e)'
    BY <1>2 DEF DeleteEntity
  <1>3. CASE \E r \in Root : Call(r)
    BY <1>3 DEF Call
  <1>4. ASSUME NEW n \in Node, GetReply(n) \/ Settle(n) \/ Resume(n) \/ Reject(n)
        PROVE  There(e)'
    BY <1>4 DEF GetReply, Settle, Resume, AllReturned, Reject, AnyRejected
  <1>5. CASE UNCHANGED vars
    BY <1>5 DEF vars
  <1>6. QED
    BY <1>1, <1>2, <1>3, <1>4, <1>5 DEF Next, NodeStep

\* Where a call is after a turn in which n moved on to a stage, past `settle`
\* and provisioned, with cache ch sound.
LEMMA MovedIsProvisioned ==
    ASSUME ProvisionInv, NEW n \in Node, NEW s, NEW o, NEW ch,
           TypeOf[n] = "verifyCreate" => There(EntOf[n]),
           \A c \in Connector : \A e \in ch[c] : There(e),
           s \in {"deadLetter", "forward", "rules", "done"},
           NEW m \in Node
    PROVE  /\ MoveTo(n, s, o, ch)[m] = "created" => obj[m] # Absent
           /\ (/\ MoveTo(n, s, o, ch)[m] \in {"deadLetter", "forward", "rules", "done"}
               /\ TypeOf[m] = "verifyCreate") => There(EntOf[m])
  <1>1. CASE MoveTo(n, s, o, ch)[m] = Entered(m, ch)
    BY <1>1, EnteredValue, ConstantsOK
  <1>2. CASE m = n /\ MoveTo(n, s, o, ch)[m] = s
    BY <1>2
  <1>3. CASE m # n /\ MoveTo(n, s, o, ch)[m] = pc[m]
    BY <1>3 DEF ProvisionInv
  <1>4. QED
    BY <1>1, <1>2, <1>3, MoveToCases DEF ProvisionInv, TypeOK

\* A step keeps what the cache, the answers and the program points witness.
LEMMA ProvisionStep == ProvisionInv /\ TypeOK' /\ [Next]_vars => ProvisionInv'
  <1> SUFFICES ASSUME ProvisionInv, TypeOK', [Next]_vars PROVE ProvisionInv'
    OBVIOUS
  <1>0. /\ TypeOK
        /\ \A e \in Entity : There(e) => There(e)'
        /\ \A n \in Node : EntOf[n] \in Entity
    BY ThereStays, ConstantsOK DEF ProvisionInv
  <1> DEFINE CacheInv == \A c \in Connector : \A e \in cache[c] : There(e)
             ObjInv == \A n \in Node : obj[n] # Absent => There(EntOf[n])
             CreatedInv == \A n \in Node : pc[n] = "created" => obj[n] # Absent
             PastInv == \A n \in Node :
                           /\ pc[n] \in {"deadLetter", "forward", "rules", "done"}
                           /\ TypeOf[n] = "verifyCreate"
                           => There(EntOf[n])
  <1>a. CacheInv /\ ObjInv /\ CreatedInv /\ PastInv
    BY DEF ProvisionInv
  <1>b. SUFFICES CacheInv' /\ ObjInv' /\ CreatedInv' /\ PastInv'
    BY DEF ProvisionInv
  <1>1. ASSUME NEW r \in Root, Call(r)
        PROVE  CacheInv' /\ ObjInv' /\ CreatedInv' /\ PastInv'
    <2>1. \A m \in Node : pc'[m] \in {pc[m], Entered(m, cache)}
      BY <1>1, InvokeCases DEF Call
    <2>2. UNCHANGED <<broker, cache, obj, deleted>>
      BY <1>1 DEF Call
    <2>3. CacheInv' /\ ObjInv'
      BY <1>0, <1>a, <2>2 DEF TypeOK
    <2>4. CreatedInv'
      BY <1>a, <2>1, <2>2, EnteredValue
    <2>5. PastInv'
      <3>1. SUFFICES ASSUME NEW m \in Node, TypeOf[m] = "verifyCreate",
                            pc'[m] \in {"deadLetter", "forward", "rules", "done"}
                     PROVE  There(EntOf[m])
        BY <1>0
      <3>2. CASE pc'[m] = pc[m]
        BY <1>a, <3>1, <3>2
      <3>3. CASE pc'[m] = Entered(m, cache)
        BY <1>a, <3>1, <3>3, EnteredValue, ConstantsOK
      <3>4. QED
        BY <2>1, <3>2, <3>3
    <2>6. QED
      BY <2>3, <2>4, <2>5
  <1>2. ASSUME NEW n \in Node, GetReply(n)
        PROVE  CacheInv' /\ ObjInv' /\ CreatedInv' /\ PastInv'
    <2>1. /\ UNCHANGED <<broker, cache, deleted>>
          /\ pc[n] = "get" /\ pc' = [pc EXCEPT ![n] = "got"]
          /\ \/ obj' = [obj EXCEPT ![n] = broker[EntOf[n]]]
             \/ obj' = [obj EXCEPT ![n] = Absent]
      BY <1>2 DEF GetReply
    <2>2. CacheInv' /\ PastInv'
      BY <1>0, <1>a, <2>1 DEF TypeOK
    <2>3. ObjInv'
      <3>1. SUFFICES ASSUME NEW m \in Node, obj'[m] # Absent PROVE There(EntOf[m])
        BY <1>0
      <3>2. CASE m = n
        BY <1>0, <2>1, <3>1, <3>2 DEF There, Exists, TypeOK
      <3>3. CASE m # n
        BY <1>0, <1>a, <2>1, <3>1, <3>3 DEF TypeOK
      <3>4. QED
        BY <3>2, <3>3
    <2>4. CreatedInv'
      BY <1>0, <1>a, <2>1 DEF TypeOK
    <2>5. QED
      BY <2>2, <2>3, <2>4
  <1>3. ASSUME NEW n \in Node, UpsertReply(n)
        PROVE  CacheInv' /\ ObjInv' /\ CreatedInv' /\ PastInv'
    <2>1. /\ UNCHANGED <<cache, deleted>> /\ pc[n] = "got"
          /\ \/ /\ broker' = [broker EXCEPT ![EntOf[n]] = Params[n]]
                /\ obj' = [obj EXCEPT ![n] = Params[n]]
                /\ pc' = [pc EXCEPT ![n] = "created"]
             \/ UNCHANGED obj /\ pc' = [pc EXCEPT ![n] = "failed"]
      BY <1>3 DEF UpsertReply, UpsertFails
    <2>2. CacheInv' /\ PastInv'
      BY <1>0, <1>a, <2>1 DEF TypeOK
    <2>3. CreatedInv'
      BY <1>0, <1>a, <2>1, ParamsType DEF TypeOK
    <2>4. ObjInv'
      <3>1. SUFFICES ASSUME NEW m \in Node, obj'[m] # Absent PROVE There(EntOf[m])'
        OBVIOUS
      <3>2. CASE obj'[m] = obj[m]
        BY <1>0, <1>a, <3>1, <3>2
      <3>3. CASE obj'[m] # obj[m]
        <4>1. m = n /\ broker' = [broker EXCEPT ![EntOf[n]] = Params[n]]
          BY <1>0, <2>1, <3>3 DEF TypeOK
        <4>2. QED
          BY <1>0, <4>1, ParamsType DEF There, Exists, TypeOK
      <3>4. QED
        BY <3>2, <3>3
    <2>5. QED
      BY <2>2, <2>3, <2>4
  <1>4. ASSUME NEW n \in Node, Settle(n)
        PROVE  CacheInv' /\ ObjInv' /\ CreatedInv' /\ PastInv'
    <2> DEFINE s == StageAfter(n, "settle", obj[n])
    <2>1. /\ UNCHANGED <<broker, obj, deleted>>
          /\ pc' = MoveTo(n, s, obj[n], cache')
          /\ cache' = IF obj[n] = Absent THEN cache
                      ELSE [cache EXCEPT ![ConnOf[n]] = @ \cup {EntOf[n]}]
      BY <1>4 DEF Settle
    <2>2. \A e \in Entity : There(e)' <=> There(e)
      BY <2>1 DEF There, Exists
    <2>3. TypeOf[n] = "verifyCreate" => There(EntOf[n])
      BY <1>4, <1>a DEF Settle, ShouldCreate
    <2>4. \A c \in Connector : \A e \in cache'[c] : There(e)
      BY <1>0, <1>a, <2>1 DEF TypeOK
    <2>5. s \in {"deadLetter", "forward", "rules", "done"}
      BY StageAfterValue
    <2>6. \A m \in Node :
             /\ pc'[m] = "created" => obj[m] # Absent
             /\ (/\ pc'[m] \in {"deadLetter", "forward", "rules", "done"}
                 /\ TypeOf[m] = "verifyCreate") => There(EntOf[m])
      BY <2>1, <2>3, <2>4, <2>5, MovedIsProvisioned
    <2>7. CacheInv' /\ ObjInv'
      <3>1. cache' \in [Connector -> SUBSET Entity]
        BY DEF TypeOK
      <3>2. QED
        BY <1>0, <1>a, <2>1, <2>2, <2>4, <3>1
    <2>8. CreatedInv' /\ PastInv'
      BY <1>0, <2>1, <2>2, <2>6
    <2>9. QED
      BY <2>7, <2>8
  <1>5. ASSUME NEW n \in Node, Resume(n)
        PROVE  CacheInv' /\ ObjInv' /\ CreatedInv' /\ PastInv'
    <2>1. UNCHANGED <<broker, cache, obj, deleted>> /\ pc[n] \in Stage
      BY <1>5 DEF Resume, AllReturned
    <2>2. CacheInv' /\ ObjInv'
      BY <1>0, <1>a, <2>1 DEF TypeOK
    <2>3. CASE pc[n] = "topic"
      <3>1. pc' = [pc EXCEPT ![n] = "get"]
        BY <1>5, <2>3 DEF Resume, AllReturned
      <3>2. CreatedInv' /\ PastInv'
        BY <1>0, <1>a, <2>1, <3>1 DEF TypeOK
      <3>3. QED
        BY <2>2, <3>2
    <2>4. CASE pc[n] # "topic"
      <3> DEFINE s == StageAfter(n, pc[n], obj[n])
      <3>1. pc' = MoveTo(n, s, obj[n], cache)
        BY <1>5, <2>4 DEF Resume, AllReturned
      <3>2. TypeOf[n] = "verifyCreate" => There(EntOf[n])
        BY <1>a, <2>1, <2>4 DEF Stage, LinkKind
      <3>3. \A m \in Node :
               /\ pc'[m] = "created" => obj[m] # Absent
               /\ (/\ pc'[m] \in {"deadLetter", "forward", "rules", "done"}
                   /\ TypeOf[m] = "verifyCreate") => There(EntOf[m])
        BY <1>a, <3>1, <3>2, StageAfterValue, MovedIsProvisioned
      <3>4. CreatedInv' /\ PastInv'
        BY <1>0, <2>1, <3>3
      <3>5. QED
        BY <2>2, <3>4
    <2>5. QED
      BY <2>3, <2>4
  <1>6. ASSUME NEW n \in Node, Reject(n)
        PROVE  CacheInv' /\ ObjInv' /\ CreatedInv' /\ PastInv'
    <2>1. UNCHANGED <<cache, obj>> /\ pc' = [pc EXCEPT ![n] = "failed"]
      BY <1>6 DEF Reject, AnyRejected
    <2>2. QED
      BY <1>0, <1>a, <2>1 DEF TypeOK
  <1>7. ASSUME NEW e \in Entity, DeleteEntity(e)
        PROVE  CacheInv' /\ ObjInv' /\ CreatedInv' /\ PastInv'
    <2>1. UNCHANGED <<cache, pc, obj>>
      BY <1>7 DEF DeleteEntity
    <2>2. QED
      BY <1>0, <1>a, <2>1 DEF TypeOK
  <1>8. CASE UNCHANGED vars
    BY <1>a, <1>8 DEF vars, There, Exists
  <1>9. QED
    BY <1>1, <1>2, <1>3, <1>4, <1>5, <1>6, <1>7, <1>8 DEF Next, NodeStep

LEMMA Provisioned == Spec => []ProvisionInv
  <1>1. Init => ProvisionInv
    <2>1. Init => TypeOK
      BY TypeInit
    <2>2. QED
      BY <2>1 DEF Init, ProvisionInv
  <1>2. QED
    BY <1>1, ProvisionStep, TypeCorrect, PTL DEF Spec

\* A connector never believes in an entity that was never there.
THEOREM CacheIsSound == Spec => []CacheSound
  <1>1. ProvisionInv => CacheSound
    BY DEF ProvisionInv, CacheSound, There
  <1>2. QED
    BY <1>1, Provisioned, PTL

\* A verifyCreate call that returned leaves its entity provisioned.
THEOREM ReturnedIsProvisioned == Spec => []ProvisionedExists
  <1>1. ProvisionInv => ProvisionedExists
    BY DEF ProvisionInv, ProvisionedExists, There
  <1>2. QED
    BY <1>1, Provisioned, PTL

-----------------------------------------------------------------------------
(* Configurator: errors on their way up *)

\* The program points at which a call has not made the calls of stage s yet.
Before(s) ==
    CASE s = "topic"      -> {"idle"}
      [] s = "deadLetter" -> {"idle", "topic", "get", "got", "created"}
      [] s = "forward"    -> {"idle", "topic", "get", "got", "created", "deadLetter"}
      [] s = "rules"      -> {"idle", "topic", "get", "got", "created", "deadLetter", "forward"}

\* A child m of p at stage s is called when p gets there, because p awaits it,
\* and p stays there (or is rejected) until m has returned.
LinkOK(p, s, m) ==
    /\ pc[p] \in Before(s) => pc[m] = "idle"
    /\ pc[m] # "idle" => m \in Awaited(p, s, obj[p])
    /\ pc[m] \notin {"idle", "done"} => pc[p] \in {s, "failed"}

CallInv ==
    /\ TypeOK
    /\ \A p \in Node : \A s \in Stage : \A m \in Child[p][s] : LinkOK(p, s, m)

\* A call's children are calls, and only it makes them.
LEMMA OneCaller ==
    ASSUME NEW p \in Node, NEW s \in Stage, NEW m \in Child[p][s],
           NEW n \in Node, NEW t \in Stage
    PROVE  m \in Node /\ (m \in Child[n][t] => p = n /\ s = t)
  <1>1. m \in Node
    BY ConstantsOK
  <1>2. ASSUME m \in Child[n][t] PROVE p = n /\ s = t
    <2>1. Child[p][s] \cap Child[n][t] # {}
      BY <1>2
    <2>2. QED
      BY <2>1, ForestOK
  <1>3. QED
    BY <1>1, <1>2

\* A call just entered has called at most its topic's verification, and awaits it.
LEMMA EnteredPast ==
    ASSUME NEW n \in Node, NEW ch
    PROVE  /\ Entered(n, ch) \notin {"idle", "failed", "deadLetter", "forward", "rules"}
           /\ Entered(n, ch) = "topic" => Child[n]["topic"] # {}
  BY DEF Entered

\* Calls made only while they are idle keep the links of the calls that stay
\* or are entered themselves.
LEMMA TurnKeepsLinks ==
    ASSUME CallInv, NEW S \in SUBSET Node, NEW ch,
           \A k \in Made(S, ch) : k \in Node /\ pc[k] = "idle",
           pc' \in [Node -> PcVal], obj' = obj,
           NEW p \in Node, NEW s \in Stage, NEW m \in Child[p][s],
           \A k \in {p, m} : pc'[k] = IF k \in Made(S, ch) THEN Entered(k, ch) ELSE pc[k],
           m \notin S
    PROVE  LinkOK(p, s, m)'
  <1>0. LinkOK(p, s, m) /\ m \in Node /\ "topic" \in Stage
    BY OneCaller DEF CallInv, Stage
  <1>1. CASE m \in Made(S, ch)
    <2>1. PICK k \in S : Entered(k, ch) = "topic" /\ m \in Child[k]["topic"]
      BY <1>1 DEF Made
    <2>2. p = k /\ s = "topic"
      BY <1>0, <2>1, OneCaller
    <2>3. pc'[p] = "topic"
      BY <2>1, <2>2 DEF Made
    <2>4. pc'[m] \in {"done", "topic", "get"}
      BY <1>0, <1>1, EnteredValue
    <2>5. m \in Awaited(p, s, obj[p])'
      BY <2>2 DEF Awaited, LinkKind
    <2>6. QED
      BY <2>2, <2>3, <2>4, <2>5 DEF LinkOK, Before
  <1>2. CASE m \notin Made(S, ch) /\ p \in Made(S, ch)
    <2>1. "idle" \in Before(s)
      BY DEF Before, Stage, LinkKind
    <2>2. pc[m] = "idle"
      BY <1>0, <1>2, <2>1 DEF LinkOK
    <2>3. pc'[m] = "idle"
      BY <1>2, <2>2
    <2>4. QED
      BY <2>3 DEF LinkOK
  <1>3. CASE m \notin Made(S, ch) /\ p \notin Made(S, ch)
    BY <1>0, <1>3 DEF LinkOK, Awaited
  <1>4. QED
    BY <1>1, <1>2, <1>3

\* A call n that goes on to stage t when every call it made has returned keeps
\* the links, its own and those of all others.
LEMMA MoveKeepsLinks ==
    ASSUME CallInv, NEW n \in Node, NEW ch,
           NEW t \in {"deadLetter", "forward", "rules", "done"},
           pc[n] \notin {"idle", "done", "failed"},
           t # "done" => pc[n] \in Before(t),
           \A s \in Stage : t \in Before(s) => pc[n] \in Before(s),
           \A s \in Stage : \A m \in Child[n][s] : pc[m] \in {"idle", "done"},
           pc' = MoveTo(n, t, obj[n], ch), obj' = obj
    PROVE  \A p \in Node : \A s \in Stage : \A m \in Child[p][s] : LinkOK(p, s, m)'
  <1> DEFINE S == IF t = "done" THEN {} ELSE Awaited(n, t, obj[n])
  <1>0. pc \in [Node -> PcVal] /\ "topic" \in Stage /\ (t # "done" => t \in Stage)
    BY DEF CallInv, TypeOK, Stage, LinkKind
  <1>1. pc' = Invoke(S, [pc EXCEPT ![n] = t], ch)
    BY DEF MoveTo
  <1>2. S \in SUBSET Node /\ \A k \in S : t \in Stage /\ k \in Child[n][t]
    BY <1>0, ConstantsOK DEF Awaited
  <1>3. \A k \in S : pc[k] = "idle"
    BY <1>0, <1>2 DEF CallInv, LinkOK
  <1>4. ASSUME NEW k \in Made(S, ch) PROVE k \in Node /\ pc[k] = "idle"
    <2>1. CASE k \in S
      BY <1>2, <1>3, <2>1
    <2>2. CASE k \notin S
      <3>1. PICK j \in S : k \in Child[j]["topic"]
        BY <2>2 DEF Made
      <3>2. LinkOK(j, "topic", k) /\ j \in Node /\ pc[j] = "idle" /\ k \in Node
        BY <1>0, <1>2, <1>3, <3>1, OneCaller DEF CallInv
      <3>3. QED
        BY <3>2 DEF LinkOK, Before
    <2>3. QED
      BY <2>1, <2>2
  <1>5. n \notin Made(S, ch)
    BY <1>4
  <1>6. \A k \in Node : pc'[k] = IF k \in Made(S, ch) THEN Entered(k, ch)
                                 ELSE IF k = n THEN t ELSE pc[k]
    BY <1>0, <1>1 DEF Invoke
  <1>7. pc' \in [Node -> PcVal]
    <2>1. t \in PcVal
      BY DEF PcVal, Stage, LinkKind, Returned
    <2>2. QED
      BY <1>0, <2>1, MoveToType
  <1>8. SUFFICES ASSUME NEW p \in Node, NEW s \in Stage, NEW m \in Child[p][s]
                 PROVE  LinkOK(p, s, m)'
    OBVIOUS
  <1>9. m \in Node /\ LinkOK(p, s, m)
    BY OneCaller DEF CallInv
  <1>10. CASE p = n /\ m \in Made(S, ch)
    <2>1. m \in S
      <3>1. ASSUME m \notin S PROVE FALSE
        <4>1. PICK j \in S : m \in Child[j]["topic"]
          BY <1>10, <3>1 DEF Made
        <4>2. j = n
          BY <1>0, <1>2, <1>10, <4>1, OneCaller
        <4>3. QED
          BY <1>3, <4>1, <4>2
      <3>2. QED
        BY <3>1
    <2>2. s = t /\ t # "done" /\ m \in Awaited(n, t, obj[n])
      BY <1>2, <1>10, <2>1, OneCaller
    <2>3. pc'[p] = t
      BY <1>5, <1>6, <1>10
    <2>4. t \notin Before(t)
      BY <2>2 DEF Before
    <2>5. pc'[m] # "idle" => m \in Awaited(p, s, obj[p])'
      BY <1>10, <2>2 DEF Awaited
    <2>6. QED
      BY <1>10, <2>2, <2>3, <2>4, <2>5 DEF LinkOK
  <1>11. CASE p = n /\ m \notin Made(S, ch)
    <2>1. m # n
      BY <1>11
    <2>2. pc'[p] = t /\ pc'[m] = pc[m]
      BY <1>5, <1>6, <1>9, <1>11, <2>1
    <2>3. pc[m] \in {"idle", "done"}
      BY <1>11
    <2>4. QED
      BY <1>9, <1>11, <2>2, <2>3 DEF LinkOK, Awaited
  <1>12. CASE p # n
    <2>1. m \notin S
      BY <1>2, <1>12, OneCaller
    <2>2. CASE m # n
      BY <1>2, <1>4, <1>6, <1>7, <1>9, <1>12, <2>1, <2>2, TurnKeepsLinks
    <2>3. CASE m = n
      <3>1. pc'[m] = t
        BY <1>5, <1>6, <2>3
      <3>2. m \in Awaited(p, s, obj[p]) /\ pc[p] \in {s, "failed"}
        BY <1>9, <2>3 DEF LinkOK
      <3>3. pc[p] # "idle"
        BY <3>2 DEF Stage, LinkKind
      <3>4. pc'[p] = pc[p]
        BY <1>4, <1>6, <1>12, <3>3
      <3>5. pc'[p] \notin Before(s)
        BY <1>9, <2>3, <3>4 DEF LinkOK
      <3>6. QED
        BY <3>2, <3>4, <3>5 DEF LinkOK, Awaited
    <2>4. QED
      BY <2>2, <2>3
  <1>13. QED
    BY <1>10, <1>11, <1>12

LEMMA CallStep == CallInv /\ TypeOK' /\ [Next]_vars => CallInv'
  <1> SUFFICES ASSUME CallInv, TypeOK', [Next]_vars PROVE CallInv'
    OBVIOUS
  <1>0. TypeOK /\ pc' \in [Node -> PcVal] /\ "topic" \in Stage
    BY DEF CallInv, TypeOK, Stage
  <1> DEFINE Goal == \A p \in Node : \A s \in Stage : \A m \in Child[p][s] : LinkOK(p, s, m)'
  <1>a. SUFFICES Goal
    BY DEF CallInv
  <1>1. ASSUME NEW r \in Root, Call(r) PROVE Goal
    <2>1. r \in Node /\ \A p \in Node : \A s \in Stage : r \notin Child[p][s]
      BY DEF Root
    <2>2. /\ pc[r] = "idle" /\ obj' = obj
          /\ \A k \in Node : pc'[k] = IF k \in Made({r}, cache) THEN Entered(k, cache) ELSE pc[k]
      BY <1>1 DEF Call, Invoke
    <2>3. ASSUME NEW k \in Made({r}, cache) PROVE k \in Node /\ pc[k] = "idle"
      <3>1. CASE k = r
        BY <2>1, <2>2, <3>1
      <3>2. CASE k # r
        <4>1. k \in Child[r]["topic"]
          BY <3>2 DEF Made
        <4>2. LinkOK(r, "topic", k) /\ k \in Node
          BY <1>0, <2>1, <4>1, OneCaller DEF CallInv
        <4>3. QED
          BY <2>2, <4>2 DEF LinkOK, Before
      <3>3. QED
        BY <3>1, <3>2
    <2>4. ASSUME NEW p \in Node, NEW s \in Stage, NEW m \in Child[p][s]
          PROVE  LinkOK(p, s, m)'
      <3>1. m \in Node /\ m \notin {r}
        BY <2>1, OneCaller
      <3>2. {r} \in SUBSET Node
        BY <2>1
      <3>3. QED
        BY <1>0, <2>2, <2>3, <3>1, <3>2, TurnKeepsLinks
    <2>5. QED
      BY <2>4
  <1>2. ASSUME NEW n \in Node, NEW v \in {"got", "created", "failed"},
               pc[n] \in {"get", "got"} \cup Stage,
               pc' = [pc EXCEPT ![n] = v],
               \A k \in Node : obj'[k] # obj[k] => k = n /\ pc[n] \in {"get", "got"},
               v # "failed" => pc[n] \in {"get", "got"}
        PROVE  Goal
    <2>1. SUFFICES ASSUME NEW p \in Node, NEW s \in Stage, NEW m \in Child[p][s]
                   PROVE  LinkOK(p, s, m)'
      OBVIOUS
    <2>2. m \in Node /\ LinkOK(p, s, m)
      BY OneCaller DEF CallInv
    <2>3. pc'[p] = (IF p = n THEN v ELSE pc[p]) /\ pc'[m] = IF m = n THEN v ELSE pc[m]
      BY <1>0, <1>2, <2>2 DEF TypeOK
    <2>4. m \in Awaited(p, s, obj[p]) => m \in Awaited(p, s, obj[p])' \/ pc[m] = "idle"
      <3>1. CASE obj'[p] = obj[p]
        BY <3>1 DEF Awaited
      <3>2. CASE obj'[p] # obj[p] /\ s = "topic"
        BY <3>2 DEF Awaited, LinkKind
      <3>3. CASE obj'[p] # obj[p] /\ s # "topic"
        <4>1. pc[p] \in Before(s)
          BY <1>2, <3>3 DEF Before, Stage, LinkKind
        <4>2. QED
          BY <2>2, <4>1 DEF LinkOK
      <3>4. QED
        BY <3>1, <3>2, <3>3
    <2>5. CASE m = n
      <3>1. pc[m] \notin {"idle", "done"}
        BY <1>2, <2>5 DEF Stage, LinkKind
      <3>2. pc[p] \in {s, "failed"} /\ m \in Awaited(p, s, obj[p])'
        BY <2>2, <2>4, <3>1 DEF LinkOK
      <3>3. CASE p # n
        <4>1. pc'[p] = pc[p] /\ pc'[m] # "idle"
          BY <1>2, <2>3, <2>5, <3>3
        <4>2. pc[p] \notin Before(s)
          BY <2>2, <3>1 DEF LinkOK
        <4>3. QED
          BY <3>2, <4>1, <4>2 DEF LinkOK
      <3>4. CASE p = n
        <4>1. pc[n] = s /\ v = "failed"
          BY <1>2, <3>2, <3>4 DEF Stage, LinkKind
        <4>2. pc'[p] = "failed" /\ "failed" \notin Before(s)
          BY <2>3, <3>4, <4>1 DEF Before, Stage, LinkKind
        <4>3. QED
          BY <3>2, <4>2 DEF LinkOK
      <3>5. QED
        BY <3>3, <3>4
    <2>6. CASE m # n /\ p # n
      BY <2>2, <2>3, <2>4, <2>6 DEF LinkOK
    <2>7. CASE m # n /\ p = n
      <3>1. pc'[m] = pc[m] /\ pc'[p] = v
        BY <2>3, <2>7
      <3>2. v \in Before(s) => pc[m] = "idle"
        <4>1. v \in Before(s) => pc[n] \in Before(s)
          BY <1>2 DEF Before, Stage, LinkKind
        <4>2. QED
          BY <2>2, <2>7, <4>1 DEF LinkOK
      <3>3. pc[m] \notin {"idle", "done"} => v = "failed"
        BY <1>2, <2>2, <2>7 DEF LinkOK, Stage, LinkKind
      <3>4. QED
        BY <2>2, <2>4, <3>1, <3>2, <3>3 DEF LinkOK
    <2>8. QED
      BY <2>5, <2>6, <2>7
  <1>3. ASSUME NEW n \in Node, GetReply(n) PROVE Goal
    BY <1>0, <1>2, <1>3 DEF GetReply, TypeOK
  <1>4. ASSUME NEW n \in Node, UpsertReply(n) PROVE Goal
    BY <1>0, <1>2, <1>4 DEF UpsertReply, UpsertFails, TypeOK
  <1>5. ASSUME NEW n \in Node, Settle(n) PROVE Goal
    <2> DEFINE t == StageAfter(n, "settle", obj[n])
    <2>1. pc[n] \in {"got", "created"} /\ obj' = obj /\ pc' = MoveTo(n, t, obj[n], cache')
      BY <1>5 DEF Settle
    <2>2. t \in {"deadLetter", "forward", "rules", "done"}
      BY StageAfterValue
    <2>3. t # "done" => pc[n] \in Before(t)
      BY <2>1, <2>2 DEF Before
    <2>4. \A s \in Stage : t \in Before(s) => pc[n] \in Before(s)
      BY <2>1, <2>2 DEF Before, Stage, LinkKind
    <2>5. \A s \in Stage : \A m \in Child[n][s] : pc[m] \in {"idle", "done"}
      BY <2>1 DEF CallInv, LinkOK, Stage, LinkKind
    <2>6. QED
      BY <2>1, <2>2, <2>3, <2>4, <2>5, MoveKeepsLinks
  <1>6. ASSUME NEW n \in Node, Resume(n) PROVE Goal
    <2>1. /\ pc[n] \in Stage /\ obj' = obj
          /\ \A m \in Awaited(n, pc[n], obj[n]) : pc[m] = "done"
      BY <1>6 DEF Resume, AllReturned
    <2>2. \A s \in Stage : \A m \in Child[n][s] : pc[m] \in {"idle", "done"}
      BY <2>1 DEF CallInv, LinkOK, Stage, LinkKind
    <2>3. CASE pc[n] = "topic"
      <3>1. pc' = [pc EXCEPT ![n] = "get"]
        BY <1>6, <2>3 DEF Resume, AllReturned
      <3>2. SUFFICES ASSUME NEW p \in Node, NEW s \in Stage, NEW m \in Child[p][s]
                     PROVE  LinkOK(p, s, m)'
        OBVIOUS
      <3>3. m \in Node /\ LinkOK(p, s, m)
        BY OneCaller DEF CallInv
      <3>4. Awaited(p, s, obj[p])' = Awaited(p, s, obj[p])
        BY <2>1 DEF Awaited
      <3>5. CASE p = n
        <4>1. pc[m] \in {"idle", "done"} /\ m # n
          BY <2>2, <2>3, <3>5
        <4>2. pc'[p] = "get" /\ pc'[m] = pc[m]
          BY <1>0, <3>1, <3>3, <3>5, <4>1 DEF TypeOK
        <4>3. "get" \in Before(s) => "topic" \in Before(s)
          BY DEF Before, Stage, LinkKind
        <4>4. QED
          BY <2>3, <3>3, <3>4, <3>5, <4>1, <4>2, <4>3 DEF LinkOK
      <3>6. CASE p # n
        <4>1. pc'[p] = pc[p] /\ pc'[m] = IF m = n THEN "get" ELSE pc[m]
          BY <1>0, <3>1, <3>3, <3>6 DEF TypeOK
        <4>2. QED
          BY <2>3, <3>3, <3>4, <4>1 DEF LinkOK
      <3>7. QED
        BY <3>5, <3>6
    <2>4. CASE pc[n] # "topic"
      <3> DEFINE t == StageAfter(n, pc[n], obj[n])
      <3>1. pc' = MoveTo(n, t, obj[n], cache)
        BY <1>6, <2>4 DEF Resume, AllReturned
      <3>2. t \in {"deadLetter", "forward", "rules", "done"}
        BY StageAfterValue
      <3>3. /\ pc[n] = "deadLetter" => t \in {"forward", "rules", "done"}
            /\ pc[n] = "forward" => t \in {"rules", "done"}
            /\ pc[n] = "rules" => t = "done"
        BY DEF StageAfter
      <3>4. t # "done" => pc[n] \in Before(t)
        BY <2>1, <2>4, <3>2, <3>3 DEF Before, Stage, LinkKind
      <3>5. \A s \in Stage : t \in Before(s) => pc[n] \in Before(s)
        BY <2>1, <2>4, <3>2, <3>3 DEF Before, Stage, LinkKind
      <3>6. pc[n] \notin {"idle", "done", "failed"}
        BY <2>1 DEF Stage, LinkKind
      <3>7. QED
        BY <2>1, <2>2, <3>1, <3>2, <3>4, <3>5, <3>6, MoveKeepsLinks
    <2>5. QED
      BY <2>3, <2>4
  <1>7. ASSUME NEW n \in Node, Reject(n) PROVE Goal
    BY <1>0, <1>2, <1>7 DEF Reject, AnyRejected, TypeOK
  <1>8. ASSUME NEW e \in Entity, DeleteEntity(e) PROVE Goal
    BY <1>8 DEF DeleteEntity, CallInv, LinkOK, Awaited
  <1>9. CASE UNCHANGED vars
    BY <1>9 DEF vars, CallInv, LinkOK, Awaited
  <1>10. QED
    BY <1>1, <1>3, <1>4, <1>5, <1>6, <1>7, <1>8, <1>9 DEF Next, NodeStep

\* No error of a call is lost on its way up to the route or emitter that made it.
THEOREM ErrorsArrive == Spec => []NoSilentFailure
  <1>1. Init => CallInv
    <2>1. Init => TypeOK
      BY TypeInit
    <2>2. ASSUME Init, NEW p \in Node, NEW s \in Stage, NEW m \in Child[p][s]
          PROVE  LinkOK(p, s, m)
      BY <2>2, OneCaller DEF Init, LinkOK
    <2>3. QED
      BY <2>1, <2>2 DEF CallInv
  <1>2. CallInv => NoSilentFailure
    BY DEF CallInv, LinkOK, NoSilentFailure, Stage, LinkKind
  <1>3. QED
    BY <1>1, <1>2, CallStep, TypeCorrect, PTL DEF Spec

-----------------------------------------------------------------------------
(* Configurator: the calls of routes and emitters *)

\* Nobody but a route or an emitter makes the call r, so what the turns of other
\* calls do leaves it where it is.
LEMMA RootMoves ==
    ASSUME TypeOK, NEW r \in Root, NEW n \in Node, NEW o, NEW ch,
           NEW s \in {"deadLetter", "forward", "rules", "done"}
    PROVE  MoveTo(n, s, o, ch)[r] = IF r = n THEN s ELSE pc[r]
  <1> DEFINE S == IF s = "done" THEN {} ELSE Awaited(n, s, o)
  <1>1. r \in Node /\ \A p \in Node : \A t \in Stage : r \notin Child[p][t]
    BY DEF Root
  <1>2. \A k \in S : k \in Node /\ k # r
    BY <1>1, ConstantsOK DEF Awaited, Stage, LinkKind
  <1>3. r \notin Made(S, ch)
    BY <1>1, <1>2 DEF Made, Stage
  <1>4. QED
    BY <1>1, <1>3 DEF MoveTo, Invoke, TypeOK

LEMMA RootCalls ==
    ASSUME TypeOK, NEW r \in Root, NEW q \in Root, NEW ch
    PROVE  Invoke({q}, pc, ch)[r] = IF r = q THEN Entered(r, ch) ELSE pc[r]
  <1>1. r \in Node /\ q \in Node /\ \A p \in Node : \A t \in Stage : r \notin Child[p][t]
    BY DEF Root
  <1>2. r \in Made({q}, ch) <=> r = q
    BY <1>1 DEF Made, Stage
  <1>3. QED
    BY <1>1, <1>2 DEF Invoke

\* A call that has returned to its route or emitter stays so.
LEMMA RootStays ==
    ASSUME TypeOK, [Next]_vars, NEW r \in Root, pc[r] \in Returned
    PROVE  pc'[r] = pc[r]
  <1>0. r \in Node
    BY DEF Root
  <1>1. CASE \E q \in Root : Call(q)
    BY <1>1, RootCalls DEF Call, Returned
  <1>2. ASSUME NEW n \in Node, GetReply(n) \/ UpsertReply(n) \/ Reject(n)
        PROVE  pc'[r] = pc[r]
    <2>1. pc[n] \notin Returned
      BY <1>2 DEF GetReply, UpsertReply, Reject, Returned, Stage, LinkKind
    <2>2. n # r
      BY <2>1
    <2>3. QED
      BY <1>0, <1>2, <2>2
      DEF GetReply, UpsertReply, UpsertFails, Reject, AnyRejected, TypeOK
  <1>3. ASSUME NEW n \in Node, Settle(n) \/ Resume(n) PROVE pc'[r] = pc[r]
    <2>1. n # r
      BY <1>3 DEF Settle, Resume, Returned, Stage, LinkKind
    <2>2. QED
      BY <1>0, <1>3, <2>1, RootMoves, StageAfterValue
      DEF Settle, Resume, AllReturned, TypeOK
  <1>4. CASE \E e \in Entity : DeleteEntity(e)
    BY <1>4 DEF DeleteEntity
  <1>5. CASE UNCHANGED vars
    BY <1>5 DEF vars
  <1>6. QED
    BY <1>1, <1>2, <1>3, <1>4, <1>5 DEF Next, NodeStep

-----------------------------------------------------------------------------
(* Configurator: entities that are there *)

\* Every step that changes what an existing entity links to is an upsert of an
\* adapter that ignores isNew.
LEMMA OnlyUpsertsOverwrite ==
    ASSUME TypeOK, [Next]_vars, NEW e \in Entity, Exists(e), Exists(e)', broker'[e] # broker[e]
    PROVE  \E n \in Node : UpsertReply(n) /\ EntOf[n] = e /\ ConnOf[n] \in CreateOrUpdate
  <1> USE DEF Exists, TypeOK
  <1>1. ASSUME NEW n \in Node, UpsertReply(n) PROVE EntOf[n] = e /\ ConnOf[n] \in CreateOrUpdate
    <2>1. Accepts(n) /\ broker' = [broker EXCEPT ![EntOf[n]] = Params[n]]
      BY <1>1 DEF UpsertReply, UpsertFails
    <2>2. EntOf[n] = e
      BY <2>1, ConstantsOK
    <2>3. QED
      BY <2>1, <2>2 DEF Accepts
  <1>2. ASSUME NEW d \in Entity, DeleteEntity(d) PROVE FALSE
    BY <1>2 DEF DeleteEntity
  <1>3. CASE \E r \in Root : Call(r)
    BY <1>3 DEF Call
  <1>4. ASSUME NEW n \in Node, GetReply(n) \/ Settle(n) \/ Resume(n) \/ Reject(n) PROVE FALSE
    BY <1>4 DEF GetReply, Settle, Resume, Reject
  <1>5. CASE UNCHANGED vars
    BY <1>5 DEF vars
  <1>6. QED
    BY <1>1, <1>2, <1>3, <1>4, <1>5 DEF Next, NodeStep

\* With adapters that honour isNew, provisioning creates or reads, and changes
\* nothing that is there, whatever is retried, deleted and created anew.
THEOREM NothingIsReconfigured == CreateOrUpdate = {} => (Spec => NeverReconfigured)
  <1> SUFFICES ASSUME CreateOrUpdate = {} PROVE Spec => NeverReconfigured
    OBVIOUS
  <1>1. TypeOK /\ [Next]_vars =>
          [\A e \in Entity : Exists(e) /\ Exists(e)' => broker'[e] = broker[e]]_vars
    BY OnlyUpsertsOverwrite
  <1>2. QED
    BY <1>1, TypeCorrect, PTL DEF Spec, NeverReconfigured

-----------------------------------------------------------------------------
(* Configurator: refinement of Provisioning *)

LEMMA TreeOwn == ASSUME NEW n \in Node PROVE n \in Tree(n)
  BY DEF Tree

LEMMA TreeDown ==
    ASSUME NEW n \in Node, NEW k \in Tree(n), NEW s \in Stage, NEW m \in Child[k][s]
    PROVE  m \in Tree(n)
  <1>1. k \in Node /\ m \in Node
    BY ConstantsOK DEF Tree
  <1>2. ASSUME NEW S \in SUBSET Node, n \in S,
               \A j \in S : \A t \in Stage : Child[j][t] \subseteq S
        PROVE  m \in S
    BY <1>2 DEF Tree
  <1>3. QED
    BY <1>1, <1>2 DEF Tree

\* Every call that was made is of the tree of a route or an emitter that called.
DemandInv == \A n \in Node : pc[n] # "idle" => \E r \in Root : n \in Tree(r) /\ pc[r] # "idle"

\* A turn in which the calls S are made, and n goes elsewhere, makes calls of
\* the trees that S belongs to only.
LEMMA TurnIsDemanded ==
    ASSUME TypeOK, DemandInv, NEW S \in SUBSET Node, NEW p \in [Node -> PcVal], NEW ch,
           \A n \in Node : pc[n] # "idle" => p[n] # "idle",
           \A n \in Node : p[n] # "idle" => pc[n] # "idle",
           \A n \in S : \E r \in Root : n \in Tree(r) /\ (pc[r] # "idle" \/ r \in S),
           pc' = Invoke(S, p, ch)
    PROVE  DemandInv'
  <1>1. \A n \in Node : pc'[n] = IF n \in Made(S, ch) THEN Entered(n, ch) ELSE p[n]
    BY DEF Invoke
  <1>2. \A n \in Node : pc[n] # "idle" \/ n \in S => pc'[n] # "idle"
    BY <1>1, EnteredPast DEF Made
  <1>3. SUFFICES ASSUME NEW n \in Node, pc'[n] # "idle"
                 PROVE  \E r \in Root : n \in Tree(r) /\ pc'[r] # "idle"
    BY DEF DemandInv
  <1>4. Root \subseteq Node
    BY DEF Root
  <1>5. CASE n \notin Made(S, ch)
    BY <1>1, <1>2, <1>3, <1>4, <1>5 DEF DemandInv
  <1>6. CASE n \in S
    BY <1>2, <1>4, <1>6
  <1>7. CASE n \in Made(S, ch) /\ n \notin S
    <2>1. PICK k \in S : n \in Child[k]["topic"]
      BY <1>7 DEF Made
    <2>2. PICK r \in Root : k \in Tree(r) /\ (pc[r] # "idle" \/ r \in S)
      BY <2>1
    <2>3. n \in Tree(r)
      BY <1>4, <2>1, <2>2, TreeDown DEF Stage
    <2>4. QED
      BY <1>2, <1>4, <2>2, <2>3
  <1>8. QED
    BY <1>5, <1>6, <1>7

LEMMA DemandStep == TypeOK /\ DemandInv /\ [Next]_vars => DemandInv'
  <1> SUFFICES ASSUME TypeOK, DemandInv, [Next]_vars PROVE DemandInv'
    OBVIOUS
  <1>0. Root \subseteq Node /\ pc \in [Node -> PcVal]
    BY DEF Root, TypeOK
  <1>1. ASSUME NEW q \in Root, Call(q) PROVE DemandInv'
    BY <1>0, <1>1, TurnIsDemanded, TreeOwn DEF Call
  <1>2. ASSUME NEW n \in Node, NEW v \in PcVal \ {"idle"},
               pc[n] # "idle", pc' = [pc EXCEPT ![n] = v]
        PROVE  DemandInv'
    <2>1. \A m \in Node : pc'[m] # "idle" <=> pc[m] # "idle"
      BY <1>0, <1>2
    <2>2. QED
      BY <1>0, <2>1 DEF DemandInv
  <1>3. ASSUME NEW n \in Node, NEW ch, NEW s \in {"deadLetter", "forward", "rules", "done"},
               pc[n] # "idle", pc' = MoveTo(n, s, obj[n], ch)
        PROVE  DemandInv'
    <2> DEFINE S == IF s = "done" THEN {} ELSE Awaited(n, s, obj[n])
    <2>1. PICK r \in Root : n \in Tree(r) /\ pc[r] # "idle"
      BY <1>3 DEF DemandInv
    <2>2. S \in SUBSET Node /\ \A m \in S : m \in Tree(r)
      BY <1>0, <2>1, TreeDown, ConstantsOK DEF Awaited, Stage, LinkKind
    <2>3. /\ [pc EXCEPT ![n] = s] \in [Node -> PcVal]
          /\ \A m \in Node : [pc EXCEPT ![n] = s][m] # "idle" <=> pc[m] # "idle"
      BY <1>0, <1>3 DEF PcVal, Stage, LinkKind, Returned
    <2>4. pc' = Invoke(S, [pc EXCEPT ![n] = s], ch)
      BY <1>3 DEF MoveTo
    <2>5. \A m \in S : \E q \in Root : m \in Tree(q) /\ (pc[q] # "idle" \/ q \in S)
      BY <2>1, <2>2
    <2> HIDE DEF S
    <2>6. QED
      BY <2>2, <2>3, <2>4, <2>5, TurnIsDemanded
  <1>4. ASSUME NEW n \in Node, GetReply(n) \/ UpsertReply(n) \/ Reject(n) PROVE DemandInv'
    <2>1. /\ pc[n] # "idle"
          /\ \E v \in {"got", "created", "failed"} : pc' = [pc EXCEPT ![n] = v]
      BY <1>4 DEF GetReply, UpsertReply, UpsertFails, Reject, Stage, LinkKind
    <2>2. QED
      BY <1>2, <2>1 DEF PcVal, Returned
  <1>5. ASSUME NEW n \in Node, Settle(n) PROVE DemandInv'
    BY <1>3, <1>5, StageAfterValue DEF Settle
  <1>6. ASSUME NEW n \in Node, Resume(n) PROVE DemandInv'
    <2>1. pc[n] # "idle"
      BY <1>6 DEF Resume, Stage, LinkKind
    <2>2. CASE pc[n] = "topic"
      BY <1>2, <1>6, <2>1, <2>2 DEF Resume, PcVal
    <2>3. CASE pc[n] # "topic"
      BY <1>3, <1>6, <2>1, <2>3, StageAfterValue DEF Resume
    <2>4. QED
      BY <2>2, <2>3
  <1>7. CASE (\E e \in Entity : DeleteEntity(e)) \/ UNCHANGED vars
    BY <1>7 DEF DeleteEntity, vars, DemandInv
  <1>8. QED
    BY <1>1, <1>4, <1>5, <1>6, <1>7 DEF Next, NodeStep

\* What a step does to the entities that are there, and to the calls of routes
\* and emitters, is a step of Provisioning or nothing.
LEMMA StepIsProvisioning ==
    ASSUME ProvisionInv, ProvisionInv', DemandInv, [Next]_vars
    PROVE  [Abstract!Next]_(Abstract!vars)
  <1> DEFINE P == {e \in Entity : Exists(e)}
             C == [r \in Root |-> CallState(r)]
  <1>0. TypeOK /\ TypeOK' /\ Root \subseteq Node /\ \A n \in Node : EntOf[n] \in Entity
    BY ConstantsOK DEF ProvisionInv, Root
  <1>a. ASSUME P' = P, deleted' = deleted, C' = C PROVE [Abstract!Next]_(Abstract!vars)
    BY <1>a DEF Abstract!vars
  <1>b. ASSUME NEW r \in Root, C[r] = "open", C' = [C EXCEPT ![r] = "failed"],
               P' = P, deleted' = deleted
        PROVE  Abstract!Next
    BY <1>b DEF Abstract!Next, Abstract!Fail
  <1>c. ASSUME NEW r \in Root, C[r] \in {"idle", "open"}, pc'[r] = "done",
               C' = [C EXCEPT ![r] = "done"], P' = P, deleted' = deleted
        PROVE  Abstract!Next
    <2>1. PromiseOf[r] \subseteq P \cup deleted
      <3>1. SUFFICES ASSUME NEW e \in PromiseOf[r] PROVE e \in P \cup deleted
        OBVIOUS
      <3>2. e = EntOf[r] /\ TypeOf[r] = "verifyCreate"
        BY <3>1 DEF PromiseOf, Created
      <3>3. There(EntOf[r])'
        BY <1>0, <1>c, <3>2 DEF ProvisionInv
      <3>4. EntOf[r] \in P' \cup deleted'
        BY <1>0, <3>3 DEF There
      <3>5. QED
        BY <1>c, <3>2, <3>4
    <2>2. QED
      BY <1>c, <2>1 DEF Abstract!Next, Abstract!Return
  <1>d. ASSUME NEW n \in Node, NEW v \in PcVal, pc' = [pc EXCEPT ![n] = v]
        PROVE  /\ n \in Root => C' = [C EXCEPT ![n] = CallState(n)']
               /\ n \notin Root => C' = C
               /\ CallState(n)' = CASE v = "idle" -> "idle" [] v \in Returned -> v [] OTHER -> "open"
    BY <1>0, <1>d DEF CallState, TypeOK
  <1>1. ASSUME NEW q \in Root, Call(q) PROVE Abstract!Next
    <2>1. P' = P /\ deleted' = deleted
      BY <1>1 DEF Call, Exists
    <2>2. \A r \in Root : pc'[r] = IF r = q THEN Entered(q, cache) ELSE pc[r]
      BY <1>0, <1>1, RootCalls DEF Call
    <2>3. C[q] = "idle" /\ C' = [C EXCEPT ![q] = CallState(q)']
      BY <1>1, <2>2 DEF Call, CallState
    <2>4. CASE pc'[q] = "done"
      BY <1>c, <2>1, <2>3, <2>4 DEF CallState, Returned
    <2>5. CASE pc'[q] # "done"
      <3>1. CallState(q)' = "open"
        BY <1>0, <2>2, <2>5, EnteredValue DEF CallState, Returned
      <3>2. QED
        BY <2>1, <2>3, <3>1 DEF Abstract!Next, Abstract!Open
    <2>6. QED
      BY <2>4, <2>5
  <1>2. ASSUME NEW n \in Node, GetReply(n) PROVE [Abstract!Next]_(Abstract!vars)
    <2>1. P' = P /\ deleted' = deleted /\ pc[n] = "get" /\ pc' = [pc EXCEPT ![n] = "got"]
      BY <1>2 DEF GetReply, Exists
    <2>2. C' = C
      BY <1>0, <1>d, <2>1 DEF CallState, PcVal, Returned
    <2>3. QED
      BY <1>a, <2>1, <2>2
  <1>3. ASSUME NEW n \in Node, UpsertReply(n) PROVE [Abstract!Next]_(Abstract!vars)
    <2> DEFINE e == EntOf[n]
    <2>1. /\ pc[n] = "got" /\ TypeOf[n] = "verifyCreate" /\ deleted' = deleted
          /\ \/ pc' = [pc EXCEPT ![n] = "created"]
             \/ pc' = [pc EXCEPT ![n] = "failed"]
          /\ broker' \in {broker, [broker EXCEPT ![e] = Params[n]]}
      BY <1>3 DEF UpsertReply, UpsertFails, ShouldCreate
    <2>2. \/ C' = C
          \/ n \in Root /\ C' = [C EXCEPT ![n] = "failed"]
      <3>1. CASE pc' = [pc EXCEPT ![n] = "created"]
        BY <1>0, <1>d, <2>1, <3>1 DEF CallState, PcVal, Returned
      <3>2. CASE pc' = [pc EXCEPT ![n] = "failed"]
        <4>1. "failed" \in PcVal /\ "failed" \in Returned /\ "failed" # "idle"
          BY DEF PcVal, Returned
        <4>2. /\ n \in Root => C' = [C EXCEPT ![n] = CallState(n)']
              /\ n \notin Root => C' = C
              /\ CallState(n)' = "failed"
          BY <1>d, <3>2, <4>1
        <4>3. QED
          BY <4>2
      <3>3. QED
        BY <2>1, <3>1, <3>2
    <2>3. n \in Root => C[n] = "open"
      BY <2>1 DEF CallState, Returned
    <2>4. CASE P' = P
      BY <1>a, <1>b, <2>1, <2>2, <2>3, <2>4
    <2>5. CASE P' # P
      <3>1. P' = P \cup {e} /\ e \in Entity \ P
        BY <1>0, <2>1, <2>5, ParamsType DEF Exists, TypeOK
      <3>2. PICK r \in Root : /\ n \in Tree(r) /\ pc[r] # "idle"
                              /\ n \in Root => r = n
        BY <1>0, <2>1, TreeOwn DEF DemandInv
      <3>3. e \in DemandOf[r]
        BY <1>0, <2>1, <3>2 DEF DemandOf, Created
      <3>4. C[r] # "idle"
        BY <3>2 DEF CallState, Returned
      <3>5. /\ C' \in {C, [C EXCEPT ![r] = "failed"]}
            /\ C[r] = "done" => C' = C
        BY <2>2, <2>3, <3>2
      <3>6. QED
        BY <2>1, <3>1, <3>3, <3>4, <3>5 DEF Abstract!Next, Abstract!Provide
    <2>6. QED
      BY <2>4, <2>5
  <1>4. ASSUME NEW n \in Node, NEW s \in {"deadLetter", "forward", "rules", "done"}, NEW ch,
               pc[n] \notin {"idle", "done", "failed"}, pc' = MoveTo(n, s, obj[n], ch),
               P' = P, deleted' = deleted
        PROVE  [Abstract!Next]_(Abstract!vars)
    <2>1. \A r \in Root : pc'[r] = IF r = n THEN s ELSE pc[r]
      BY <1>0, <1>4, RootMoves
    <2>2. CASE n \in Root /\ s = "done"
      <3>1. C[n] = "open" /\ C' = [C EXCEPT ![n] = "done"]
        BY <1>4, <2>1, <2>2 DEF CallState, Returned
      <3>2. QED
        BY <1>4, <1>c, <2>1, <2>2, <3>1
    <2>3. CASE ~(n \in Root /\ s = "done")
      <3>1. C' = C
        BY <1>4, <2>1, <2>3 DEF CallState, Returned
      <3>2. QED
        BY <1>4, <1>a, <3>1
    <2>4. QED
      BY <2>2, <2>3
  <1>5. ASSUME NEW n \in Node, Settle(n) PROVE [Abstract!Next]_(Abstract!vars)
    <2>1. P' = P /\ deleted' = deleted /\ pc[n] \in {"got", "created"}
      BY <1>5 DEF Settle, Exists
    <2>2. QED
      BY <1>4, <1>5, <2>1, StageAfterValue DEF Settle
  <1>6. ASSUME NEW n \in Node, Resume(n) PROVE [Abstract!Next]_(Abstract!vars)
    <2>1. P' = P /\ deleted' = deleted /\ pc[n] \notin {"idle", "done", "failed"}
      BY <1>6 DEF Resume, Exists, Stage, LinkKind
    <2>2. CASE pc[n] = "topic"
      <3>1. pc' = [pc EXCEPT ![n] = "get"]
        BY <1>6, <2>2 DEF Resume
      <3>2. C' = C
        BY <1>0, <1>d, <2>2, <3>1 DEF CallState, PcVal, Returned
      <3>3. QED
        BY <1>a, <2>1, <3>2
    <2>3. CASE pc[n] # "topic"
      BY <1>4, <1>6, <2>1, <2>3, StageAfterValue DEF Resume
    <2>4. QED
      BY <2>2, <2>3
  <1>7. ASSUME NEW n \in Node, Reject(n) PROVE [Abstract!Next]_(Abstract!vars)
    <2>1. /\ P' = P /\ deleted' = deleted /\ pc[n] \in Stage
          /\ pc' = [pc EXCEPT ![n] = "failed"]
      BY <1>7 DEF Reject, Exists
    <2>2. n \in Root => C[n] = "open" /\ C' = [C EXCEPT ![n] = "failed"]
      BY <1>0, <1>d, <2>1 DEF CallState, PcVal, Returned, Stage, LinkKind
    <2>3. n \notin Root => C' = C
      BY <1>d, <2>1 DEF PcVal, Returned
    <2>4. QED
      BY <1>a, <1>b, <2>1, <2>2, <2>3
  <1>8. ASSUME NEW d \in Entity, DeleteEntity(d) PROVE Abstract!Next
    <2> DEFINE gone == {e \in Below(d) : Exists(e)}
    <2>1. gone \in SUBSET P /\ deleted' = deleted \cup gone /\ pc' = pc
      BY <1>8 DEF DeleteEntity, Below
    <2>2. P' = P \ gone
      BY <1>8 DEF DeleteEntity, Exists, Below
    <2>3. C' = C
      BY <2>1 DEF CallState
    <2>4. QED
      BY <2>1, <2>2, <2>3 DEF Abstract!Next, Abstract!Remove
  <1>9. CASE UNCHANGED vars
    BY <1>a, <1>9 DEF vars, Exists, CallState
  <1>10. QED
    BY <1>1, <1>2, <1>3, <1>5, <1>6, <1>7, <1>8, <1>9 DEF Next, NodeStep

\* The configurator keeps the promise of Provisioning, but for its fairness:
\* entities come into being only where a call that was made demands them, and a
\* call that returns has what it was promised.
THEOREM ProvisioningIsImplemented == Spec => Abstract!Init /\ [][Abstract!Next]_(Abstract!vars)
  <1>1. Init => Abstract!Init
    BY DEF Init, Abstract!Init, CallState, Root
  <1>2. Init => DemandInv
    BY DEF Init, DemandInv
  <1>3. ProvisionInv /\ ProvisionInv' /\ DemandInv /\ [Next]_vars => [Abstract!Next]_(Abstract!vars)
    BY StepIsProvisioning
  <1>4. ProvisionInv => TypeOK
    BY DEF ProvisionInv
  <1>5. QED
    BY <1>1, <1>2, <1>3, <1>4, DemandStep, Provisioned, PTL DEF Spec

-----------------------------------------------------------------------------
(* Bootstrap: lists of routes *)

Elems(list)  == {list[i] : i \in DOMAIN list}
OnceIn(list) == \A i, j \in DOMAIN list : list[i] = list[j] => i = j

LEMMA ElemsOfAppend ==
    ASSUME NEW S, NEW list \in Seq(S), NEW e \in S
    PROVE  /\ Append(list, e) \in Seq(S)
           /\ Elems(Append(list, e)) = Elems(list) \cup {e}
           /\ OnceIn(list) /\ e \notin Elems(list) => OnceIn(Append(list, e))
  <1>1. /\ Append(list, e) \in Seq(S)
        /\ DOMAIN list = 1..Len(list) /\ Len(list) \in Nat
        /\ DOMAIN Append(list, e) = 1..(Len(list) + 1)
        /\ \A i \in 1..Len(list) : Append(list, e)[i] = list[i]
        /\ Append(list, e)[Len(list) + 1] = e
    OBVIOUS
  <1>2. 1..(Len(list) + 1) = (1..Len(list)) \cup {Len(list) + 1}
    BY <1>1
  <1>3. Elems(Append(list, e)) = Elems(list) \cup {e}
    BY <1>1, <1>2 DEF Elems
  <1>4. ASSUME OnceIn(list), e \notin Elems(list) PROVE OnceIn(Append(list, e))
    BY <1>1, <1>2, <1>4 DEF Elems, OnceIn
  <1>5. QED
    BY <1>1, <1>3, <1>4

LEMMA ElemsOfConcat ==
    ASSUME NEW S, NEW a \in Seq(S), NEW b \in Seq(S)
    PROVE  /\ a \o b \in Seq(S)
           /\ Elems(a \o b) = Elems(a) \cup Elems(b)
           /\ OnceIn(a) /\ OnceIn(b) /\ Elems(a) \cap Elems(b) = {} => OnceIn(a \o b)
  <1> DEFINE m == Len(a)
             n == Len(b)
  <1>1. /\ a \o b \in Seq(S) /\ m \in Nat /\ n \in Nat
        /\ DOMAIN a = 1..m /\ DOMAIN b = 1..n /\ DOMAIN (a \o b) = 1..(m + n)
        /\ \A i \in 1..(m + n) : (a \o b)[i] = IF i <= m THEN a[i] ELSE b[i - m]
    OBVIOUS
  <1> HIDE DEF m, n
  <1>2. ASSUME NEW i \in 1..(m + n)
        PROVE  \/ i \in 1..m /\ (a \o b)[i] = a[i]
               \/ i > m /\ i - m \in 1..n /\ (a \o b)[i] = b[i - m]
    BY <1>1
  <1>3. ASSUME NEW j \in 1..n PROVE j + m \in 1..(m + n) /\ (a \o b)[j + m] = b[j]
    BY <1>1
  <1>4. ASSUME NEW i \in 1..m PROVE i \in 1..(m + n) /\ (a \o b)[i] = a[i]
    BY <1>1
  <1>5. Elems(a \o b) = Elems(a) \cup Elems(b)
    <2>1. Elems(a \o b) \subseteq Elems(a) \cup Elems(b)
      BY <1>1, <1>2 DEF Elems
    <2>2. Elems(a) \subseteq Elems(a \o b)
      BY <1>1, <1>4 DEF Elems
    <2>3. Elems(b) \subseteq Elems(a \o b)
      BY <1>1, <1>3 DEF Elems
    <2>4. QED
      BY <2>1, <2>2, <2>3
  <1>6. ASSUME OnceIn(a), OnceIn(b), Elems(a) \cap Elems(b) = {},
               NEW i \in 1..(m + n), NEW j \in 1..(m + n), (a \o b)[i] = (a \o b)[j]
        PROVE  i = j
    <2>1. CASE i \in 1..m /\ j \in 1..m
      BY <1>1, <1>4, <1>6, <2>1 DEF OnceIn
    <2>2. CASE i > m /\ j > m
      <3>1. i - m \in 1..n /\ j - m \in 1..n /\ b[i - m] = b[j - m]
        <4>1. i - m \in 1..n /\ (a \o b)[i] = b[i - m]
          BY <1>1, <1>2, <2>2
        <4>2. j - m \in 1..n /\ (a \o b)[j] = b[j - m]
          BY <1>1, <1>2, <2>2
        <4>3. QED
          BY <1>6, <4>1, <4>2
      <3>2. i - m = j - m
        BY <1>1, <1>6, <3>1 DEF OnceIn
      <3>3. QED
        BY <1>1, <3>2
    <2>3. CASE i \in 1..m /\ j > m
      <3>1. (a \o b)[i] \in Elems(a)
        BY <1>1, <1>4, <2>3 DEF Elems
      <3>2. (a \o b)[j] \in Elems(b)
        <4>1. j - m \in 1..n /\ (a \o b)[j] = b[j - m]
          BY <1>1, <1>2, <2>3
        <4>2. QED
          BY <1>1, <4>1 DEF Elems
      <3>3. QED
        BY <1>6, <3>1, <3>2
    <2>4. CASE i > m /\ j \in 1..m
      <3>1. (a \o b)[j] \in Elems(a)
        BY <1>1, <1>4, <2>4 DEF Elems
      <3>2. (a \o b)[i] \in Elems(b)
        <4>1. i - m \in 1..n /\ (a \o b)[i] = b[i - m]
          BY <1>1, <1>2, <2>4
        <4>2. QED
          BY <1>1, <4>1 DEF Elems
      <3>3. QED
        BY <1>6, <3>1, <3>2
    <2>5. QED
      BY <1>1, <2>1, <2>2, <2>3, <2>4
  <1>7. QED
    BY <1>1, <1>5, <1>6 DEF OnceIn

LEMMA ElemsOfTail ==
    ASSUME NEW S, NEW list \in Seq(S), list # <<>>, OnceIn(list)
    PROVE  /\ Tail(list) \in Seq(S) /\ Head(list) \in S
           /\ Elems(list) = Elems(Tail(list)) \cup {Head(list)}
           /\ OnceIn(Tail(list)) /\ Head(list) \notin Elems(Tail(list))
  <1>0. /\ Tail(list) \in Seq(S) /\ Len(list) \in Nat \ {0}
        /\ DOMAIN list = 1..Len(list) /\ Len(Tail(list)) = Len(list) - 1
    OBVIOUS
  <1>1. /\ Tail(list) \in Seq(S) /\ Len(list) \in Nat \ {0}
        /\ DOMAIN list = 1..Len(list) /\ DOMAIN Tail(list) = 1..(Len(list) - 1)
        /\ \A i \in 1..(Len(list) - 1) : Tail(list)[i] = list[i + 1] /\ i + 1 \in 1..Len(list)
        /\ Head(list) = list[1] /\ 1 \in 1..Len(list) /\ Head(list) \in S
    <2>1. DOMAIN Tail(list) = 1..(Len(list) - 1)
      BY <1>0
    <2>2. ASSUME NEW i \in 1..(Len(list) - 1)
          PROVE  Tail(list)[i] = list[i + 1] /\ i + 1 \in 1..Len(list)
      BY <1>0
    <2>3. Head(list) = list[1] /\ 1 \in 1..Len(list) /\ Head(list) \in S
      BY <1>0
    <2>4. QED
      BY <1>0, <2>1, <2>2, <2>3
  <1>3. Elems(list) \subseteq Elems(Tail(list)) \cup {Head(list)}
    <2>1. ASSUME NEW i \in 1..Len(list), i # 1
          PROVE  \E j \in 1..(Len(list) - 1) : Tail(list)[j] = list[i]
      <3>1. i - 1 \in 1..(Len(list) - 1) /\ (i - 1) + 1 = i
        BY <1>1, <2>1
      <3>2. QED
        BY <1>1, <3>1
    <2>2. ASSUME NEW i \in 1..Len(list) PROVE list[i] \in Elems(Tail(list)) \cup {Head(list)}
      BY <1>1, <2>1 DEF Elems
    <2>3. QED
      BY <1>1, <2>2 DEF Elems
  <1>4. Elems(Tail(list)) \cup {Head(list)} \subseteq Elems(list)
    BY <1>1 DEF Elems
  <1>5. OnceIn(Tail(list))
    <2>1. ASSUME NEW i \in 1..(Len(list) - 1), NEW j \in 1..(Len(list) - 1),
                 Tail(list)[i] = Tail(list)[j]
          PROVE  i = j
      <3>1. i + 1 = j + 1
        BY <1>1, <2>1 DEF OnceIn
      <3>2. QED
        BY <3>1
    <2>2. QED
      BY <1>1, <2>1 DEF OnceIn
  <1>6. Head(list) \notin Elems(Tail(list))
    <2>1. ASSUME NEW i \in 1..(Len(list) - 1), Tail(list)[i] = Head(list) PROVE FALSE
      <3>1. i + 1 = 1
        BY <1>1, <2>1 DEF OnceIn
      <3>2. QED
        BY <3>1
    <2>2. QED
      BY <1>1, <2>1 DEF Elems
  <1>7. QED
    BY <1>1, <1>3, <1>4, <1>5, <1>6

LEMMA ElemsOfEmpty == Elems(<<>>) = {} /\ OnceIn(<<>>)
  BY DEF Elems, OnceIn

-----------------------------------------------------------------------------
(* Bootstrap: the inductive invariant *)

\* The routes that wait for the commit of server s.
Queued(s) == Elems(appended[s].queue) \cup Elems(appended[s].subscription)

\* What each phase of discover() leaves to do.  This is where a boot that was
\* aborted stops: nothing is committed before the phase that it never enters.
PhaseInv ==
    /\ phase \in {"build", "aborted"} =>
          /\ at = 0 /\ todo = <<>>
          /\ \A r \in Route : rstate[r] \in {"scanned", "invalid", "appended"}
    /\ phase \in {"commit", "ready"} =>
          /\ emitters = Emitter
          /\ \A r \in Route : rstate[r] \notin {"scanned", "invalid"}
    /\ phase = "ready" =>
          /\ at = Len(Servers) /\ todo = <<>>
          /\ \A r \in Route : rstate[r] \notin InFlight

\* A route that was appended and not executed waits in one place, of its own
\* server; the servers that were committed have none left.
WaitInv ==
    /\ OnceIn(todo)
    /\ \A s \in Server :
          /\ OnceIn(appended[s].queue) /\ OnceIn(appended[s].subscription)
          /\ \A r \in Queued(s) : ServerOf[r] = s /\ r \notin Elems(todo)
    /\ \A r \in Route :
          rstate[r] = "appended" <=>
             r \in Elems(todo) \/ (ServerOf[r] \in Server /\ r \in Queued(ServerOf[r]))
    /\ \A i \in 1..at : Queued(Servers[i]) = {}

\* What the error handler was told of a route, and what it says of the route's
\* verification, which is over when the route goes on.
EventInv ==
    \A r \in Route :
        /\ rstate[r] = "refused" <=> <<"register", r>> \in events
        /\ rstate[r] = "verifying" => NodeOf[r] # NoNode
        /\ <<"verify", r>> \in events => NodeOf[r] # NoNode /\ pc[NodeOf[r]] = "failed"
        /\ rstate[r] \in {"connecting", "listening", "refused"} /\ NodeOf[r] # NoNode =>
              /\ pc[NodeOf[r]] \in Returned
              /\ pc[NodeOf[r]] = "failed" => <<"verify", r>> \in events

\* r provisions its entity, has it for itself, and no failure was reported.
Provided(r) ==
    /\ NodeOf[r] # NoNode /\ TypeOf[NodeOf[r]] = "verifyCreate"
    /\ \A q \in Route \ {r} : EntityOf[q] # EntityOf[r]
    /\ <<"verify", r>> \notin events

ProvidedInv == \A r \in Route : Provided(r) => rstate[r] # "refused"

BootInv ==
    /\ ProvisionInv /\ deleted = {}
    /\ BootTypeOK /\ PhaseInv /\ WaitInv /\ EventInv /\ ProvidedInv

-----------------------------------------------------------------------------
(* Bootstrap: the steps *)

\* Every step of the boot is one of the configurator or leaves it alone, and
\* deletes nothing.
LEMMA ConfiguratorSteps ==
    BootTypeOK /\ [BootNext]_allVars => [Next]_vars /\ deleted' = deleted
  <1> SUFFICES ASSUME BootTypeOK, [BootNext]_allVars PROVE [Next]_vars /\ deleted' = deleted
    OBVIOUS
  <1>1. ASSUME NEW n \in Root \cup {NoNode}, IF n = NoNode THEN UNCHANGED vars ELSE Call(n)
        PROVE  [Next]_vars /\ deleted' = deleted
    <2>1. CASE n = NoNode
      BY <1>1, <2>1 DEF vars
    <2>2. CASE n # NoNode
      BY <1>1, <2>2 DEF Next, Call
    <2>3. QED
      BY <2>1, <2>2
  <1>2. ASSUME NEW e \in Emitter, RegisterEmitter(e) PROVE [Next]_vars /\ deleted' = deleted
    <2>1. NodeOf[e] \in Root \cup {NoNode}
      BY BootConstantsOK
    <2>2. CASE UNCHANGED vars
      BY <2>2 DEF vars
    <2>3. CASE ~UNCHANGED vars
      BY <1>1, <1>2, <2>1, <2>3 DEF RegisterEmitter
    <2>4. QED
      BY <2>2, <2>3
  <1>3. CASE ExecuteRoute
    <2>1. CASE NodeOf[Head(todo)] = NoNode
      BY <1>3, <2>1 DEF ExecuteRoute, vars
    <2>2. CASE NodeOf[Head(todo)] # NoNode
      <3>1. Call(NodeOf[Head(todo)])
        BY <1>3, <2>2 DEF ExecuteRoute
      <3>2. Head(todo) \in Route
        BY <1>3 DEF ExecuteRoute, BootTypeOK
      <3>3. NodeOf[Head(todo)] \in Root
        BY <2>2, <3>2, BootConstantsOK
      <3>4. QED
        BY <3>1, <3>3 DEF Call, Next
    <2>3. QED
      BY <2>1, <2>2
  <1>4. ASSUME NEW n \in Node, Manage(n) PROVE [Next]_vars /\ deleted' = deleted
    BY <1>4 DEF Manage, Next, NodeStep, GetReply, UpsertReply, Settle, Resume, Reject
  <1>5. ASSUME NEW r \in Route, RouteStep(r) PROVE [Next]_vars /\ deleted' = deleted
    BY <1>5 DEF RouteStep, RegisterRoute, Verified, VerifyFailed, AfterVerifyFailed, Attached, vars
  <1>6. CASE StartCommit \/ CommitRoutes \/ Ready
    BY <1>6 DEF StartCommit, CommitRoutes, Ready, vars
  <1>7. CASE UNCHANGED allVars
    BY <1>7 DEF allVars, vars
  <1>8. QED
    BY <1>2, <1>3, <1>4, <1>5, <1>6, <1>7 DEF BootNext, BootStep

LEMMA RouteFacts ==
    ASSUME NEW r \in Route, NodeOf[r] # NoNode
    PROVE  NodeOf[r] \in Root /\ NodeOf[r] \in Node /\ EntOf[NodeOf[r]] = EntityOf[r]
  BY BootConstantsOK DEF Root

LEMMA StateFacts ==
    /\ InFlight \subseteq RouteState
    /\ {"scanned", "invalid", "appended", "listening", "refused"} \subseteq RouteState
    /\ {"scanned", "invalid", "appended", "listening", "refused"} \cap InFlight = {}
  BY DEF InFlight, RouteState

\* A route that goes on connects, unless its receiver is receiving already.
LEMMA ConnectingEffect ==
    ASSUME NEW r \in Route, Connecting(r), BootTypeOK
    PROVE  \/ /\ rstate' = [rstate EXCEPT ![r] = "connecting"] /\ events' = events
           \/ /\ rstate' = [rstate EXCEPT ![r] = "refused"]
              /\ events' = events \cup {<<"register", r>>}
              /\ \E q \in Route : rstate[q] = "listening" /\ EntityOf[q] = EntityOf[r]
  BY DEF Connecting, Receives

\* What the steps of a route in flight have in common.
InFlightStep(r, v) ==
    /\ rstate[r] \in InFlight /\ v \in {"connecting", "listening", "refused"}
    /\ rstate[r] = "verifying" => v # "listening"
    /\ rstate[r] = "connecting" => v # "connecting"
    /\ rstate[r] = "verifying" => pc[NodeOf[r]] = "done" \/ <<"verify", r>> \in events
    /\ rstate' = [rstate EXCEPT ![r] = v]
    /\ events' = IF v = "refused" THEN events \cup {<<"register", r>>} ELSE events
    /\ v = "refused" => \/ \E q \in Route : rstate[q] = "listening" /\ EntityOf[q] = EntityOf[r]
                        \/ rstate[r] = "connecting" /\ ~Exists(EntityOf[r])
    /\ UNCHANGED <<vars, phase, appended, todo, at, emitters>>

LEMMA InFlightEffect ==
    ASSUME BootTypeOK, NEW r \in Route, Verified(r) \/ AfterVerifyFailed(r) \/ Attached(r)
    PROVE  \E v \in {"connecting", "listening", "refused"} : InFlightStep(r, v)
  <1>1. CASE Verified(r) \/ AfterVerifyFailed(r)
    <2>1. /\ rstate[r] = "verifying" /\ Connecting(r)
          /\ pc[NodeOf[r]] = "done" \/ <<"verify", r>> \in events
          /\ UNCHANGED <<vars, phase, appended, todo, at, emitters>>
      BY <1>1 DEF Verified, AfterVerifyFailed
    <2>2. InFlightStep(r, "connecting") \/ InFlightStep(r, "refused")
      BY <2>1, ConnectingEffect DEF InFlightStep, InFlight
    <2>3. QED
      BY <2>2
  <1>2. CASE Attached(r)
    <2>1. CASE Exists(EntityOf[r])
      <3>1. InFlightStep(r, "listening")
        BY <1>2, <2>1 DEF Attached, InFlightStep, InFlight
      <3>2. QED
        BY <3>1
    <2>2. CASE ~Exists(EntityOf[r])
      <3>1. InFlightStep(r, "refused")
        BY <1>2, <2>2 DEF Attached, InFlightStep, InFlight
      <3>2. QED
        BY <3>1
    <2>3. QED
      BY <2>1, <2>2
  <1>3. QED
    BY <1>1, <1>2

\* What the execution of a route does with it.
LEMMA ExecuteEffect ==
    ASSUME BootTypeOK, WaitInv, ExecuteRoute
    PROVE  /\ Head(todo) \in Route /\ todo' \in Seq(Route) /\ todo' = Tail(todo)
           /\ OnceIn(todo') /\ Elems(todo) = Elems(todo') \cup {Head(todo)}
           /\ Head(todo) \notin Elems(todo')
           /\ rstate[Head(todo)] = "appended"
           /\ \E v \in {"verifying", "connecting", "refused"} :
                 /\ rstate' = [rstate EXCEPT ![Head(todo)] = v]
                 /\ v = "verifying" <=> NodeOf[Head(todo)] # NoNode
                 /\ events' = IF v = "refused" THEN events \cup {<<"register", Head(todo)>>} ELSE events
           /\ UNCHANGED <<phase, appended, at, emitters>>
  <1>1. todo \in Seq(Route) /\ todo # <<>> /\ todo' = Tail(todo) /\ OnceIn(todo)
        /\ UNCHANGED <<phase, appended, at, emitters>>
    BY DEF BootTypeOK, WaitInv, ExecuteRoute
  <1>2. /\ Head(todo) \in Route /\ todo' \in Seq(Route)
        /\ OnceIn(todo') /\ Elems(todo) = Elems(todo') \cup {Head(todo)}
        /\ Head(todo) \notin Elems(todo')
    BY <1>1, ElemsOfTail
  <1>3. rstate[Head(todo)] = "appended"
    BY <1>2 DEF WaitInv
  <1>4. CASE NodeOf[Head(todo)] = NoNode
    <2>1. Connecting(Head(todo))
      BY <1>4 DEF ExecuteRoute
    <2>2. QED
      BY <1>1, <1>2, <1>3, <1>4, <2>1, ConnectingEffect
  <1>5. CASE NodeOf[Head(todo)] # NoNode
    <2>1. rstate' = [rstate EXCEPT ![Head(todo)] = "verifying"] /\ events' = events
      BY <1>5 DEF ExecuteRoute
    <2>2. QED
      BY <1>1, <1>2, <1>3, <1>5, <2>1
  <1>6. QED
    BY <1>4, <1>5

\* Appending a route to the lists of its server.
LEMMA AppendedList ==
    ASSUME NEW r \in Route, NEW q \in Seq(QueueRoute), NEW b \in Seq(TopicRoute),
           OnceIn(q), OnceIn(b), r \notin Elems(q) \cup Elems(b)
    PROVE  \E p \in Seq(QueueRoute), c \in Seq(TopicRoute) :
              /\ Appended([queue |-> q, subscription |-> b], r) = [queue |-> p, subscription |-> c]
              /\ OnceIn(p) /\ OnceIn(c)
              /\ Elems(p) \cup Elems(c) = Elems(q) \cup Elems(b) \cup {r}
  <1> DEFINE list == [queue |-> q, subscription |-> b]
  <1>1. CASE r \in QueueRoute
    <2>1. Appended(list, r) = [queue |-> Append(q, r), subscription |-> b]
      BY <1>1 DEF Appended
    <2>2. /\ Append(q, r) \in Seq(QueueRoute) /\ OnceIn(Append(q, r))
          /\ Elems(Append(q, r)) \cup Elems(b) = Elems(q) \cup Elems(b) \cup {r}
      BY <1>1, ElemsOfAppend
    <2>3. QED
      BY <2>1, <2>2
  <1>2. CASE r \in TopicRoute /\ r \notin QueueRoute /\ ~HasDependency(r)
    <2>1. Appended(list, r) = [queue |-> q, subscription |-> Append(b, r)]
      BY <1>2 DEF Appended
    <2>2. /\ Append(b, r) \in Seq(TopicRoute) /\ OnceIn(Append(b, r))
          /\ Elems(q) \cup Elems(Append(b, r)) = Elems(q) \cup Elems(b) \cup {r}
      BY <1>2, ElemsOfAppend
    <2>3. QED
      BY <2>1, <2>2
  <1>3. CASE r \in TopicRoute /\ r \notin QueueRoute /\ HasDependency(r)
    <2>1. Appended(list, r) = [queue |-> q, subscription |-> <<r>> \o b]
      BY <1>3 DEF Appended
    <2>2. <<r>> \in Seq(TopicRoute) /\ Elems(<<r>>) = {r} /\ OnceIn(<<r>>)
      BY <1>3 DEF Elems, OnceIn
    <2>3. /\ <<r>> \o b \in Seq(TopicRoute) /\ Elems(<<r>> \o b) = {r} \cup Elems(b)
          /\ OnceIn(<<r>> \o b)
      <3> DEFINE one == <<r>>
      <3>1. one \in Seq(TopicRoute) /\ Elems(one) = {r} /\ OnceIn(one)
        BY <2>2
      <3> HIDE DEF one
      <3>2. Elems(one) \cap Elems(b) = {}
        BY <3>1
      <3>3. /\ one \o b \in Seq(TopicRoute) /\ Elems(one \o b) = {r} \cup Elems(b)
            /\ OnceIn(one \o b)
        BY <3>1, <3>2, ElemsOfConcat
      <3>4. QED
        BY <3>3 DEF one
    <2>4. Elems(q) \cup Elems(<<r>> \o b) = Elems(q) \cup Elems(b) \cup {r}
      BY <2>3
    <2>5. QED
      BY <2>1, <2>3, <2>4
  <1>4. QED
    BY <1>1, <1>2, <1>3 DEF Route

LEMMA AppendedEffect ==
    ASSUME BootTypeOK, NEW r \in Route, NEW s \in Server, r \notin Queued(s),
           OnceIn(appended[s].queue), OnceIn(appended[s].subscription),
           appended' = [appended EXCEPT ![s] = Appended(@, r)]
    PROVE  /\ appended' \in [Server -> [queue : Seq(QueueRoute), subscription : Seq(TopicRoute)]]
           /\ OnceIn(appended'[s].queue) /\ OnceIn(appended'[s].subscription)
           /\ Queued(s)' = Queued(s) \cup {r}
           /\ \A t \in Server \ {s} : appended'[t] = appended[t]
  <1> DEFINE q == appended[s].queue
             b == appended[s].subscription
  <1>1. /\ q \in Seq(QueueRoute) /\ b \in Seq(TopicRoute)
        /\ appended[s] = [queue |-> q, subscription |-> b]
        /\ r \notin Elems(q) \cup Elems(b) /\ OnceIn(q) /\ OnceIn(b)
        /\ Queued(s) = Elems(q) \cup Elems(b)
    BY DEF BootTypeOK, Queued
  <1>2. /\ appended'[s] = Appended([queue |-> q, subscription |-> b], r)
        /\ \A t \in Server \ {s} : appended'[t] = appended[t]
    BY <1>1 DEF BootTypeOK
  <1> HIDE DEF q, b
  <1>3. PICK p \in Seq(QueueRoute), c \in Seq(TopicRoute) :
              /\ Appended([queue |-> q, subscription |-> b], r) = [queue |-> p, subscription |-> c]
              /\ OnceIn(p) /\ OnceIn(c)
              /\ Elems(p) \cup Elems(c) = Elems(q) \cup Elems(b) \cup {r}
    BY <1>1, AppendedList
  <1>4. appended'[s] = [queue |-> p, subscription |-> c]
    BY <1>2, <1>3
  <1>5. appended'[s].queue = p /\ appended'[s].subscription = c
    BY <1>4
  <1>6. Queued(s)' = Queued(s) \cup {r}
    BY <1>1, <1>3, <1>5 DEF Queued
  <1>7. appended' \in [Server -> [queue : Seq(QueueRoute), subscription : Seq(TopicRoute)]]
    <2>1. [queue |-> p, subscription |-> c] \in [queue : Seq(QueueRoute), subscription : Seq(TopicRoute)]
      OBVIOUS
    <2>2. QED
      BY <1>4, <2>1 DEF BootTypeOK
  <1>8. QED
    BY <1>2, <1>3, <1>5, <1>6, <1>7

\* Taking the routes of the next server: they all wait in todo then, and in the
\* order of its lists.
LEMMA CommitEffect ==
    ASSUME BootTypeOK, WaitInv, CommitRoutes, NEW s, s = Servers[at + 1]
    PROVE  /\ at + 1 \in 1..Len(Servers) /\ s \in Server /\ at' = at + 1
           /\ todo' \in Seq(Route) /\ OnceIn(todo') /\ Elems(todo) = {}
           /\ Elems(todo') = Queued(s)
           /\ appended' \in [Server -> [queue : Seq(QueueRoute), subscription : Seq(TopicRoute)]]
           /\ \A t \in Server \ {s} : appended'[t] = appended[t]
           /\ Queued(s)' = {}
           /\ OnceIn(appended'[s].queue)
           /\ OnceIn(appended'[s].subscription)
           /\ \A r \in Route : rstate[r] \notin InFlight
           /\ phase = "commit"
           /\ UNCHANGED <<vars, phase, rstate, emitters, events>>
  <1> DEFINE q == appended[s].queue
             b == appended[s].subscription
  <1>0. /\ at + 1 \in 1..Len(Servers) /\ s \in Server /\ at' = at + 1
        /\ todo = <<>> /\ phase = "commit"
        /\ \A r \in Route : rstate[r] \notin InFlight
        /\ UNCHANGED <<vars, phase, rstate, emitters, events>>
    <2>1. /\ phase = "commit" /\ Settled /\ at < Len(Servers) /\ at' = at + 1
          /\ UNCHANGED <<vars, phase, rstate, emitters, events>>
      BY DEF CommitRoutes
    <2>2. at \in Nat /\ Len(Servers) \in Nat
      BY BootConstantsOK DEF BootTypeOK
    <2>3. at + 1 \in 1..Len(Servers)
      BY <2>1, <2>2
    <2>4. QED
      BY <2>1, <2>3 DEF Server, Settled
  <1>1. /\ q \in Seq(QueueRoute) /\ b \in Seq(TopicRoute) /\ OnceIn(q) /\ OnceIn(b)
        /\ Queued(s) = Elems(q) \cup Elems(b)
    BY <1>0 DEF BootTypeOK, WaitInv, Queued
  <1>2. todo' = q \o b /\ appended' = [appended EXCEPT ![s] = [queue |-> <<>>, subscription |-> <<>>]]
    BY DEF CommitRoutes, Taken
  <1>3. Elems(todo) = {}
    BY <1>0, ElemsOfEmpty
  <1>4. /\ appended'[s] = [queue |-> <<>>, subscription |-> <<>>]
        /\ \A t \in Server \ {s} : appended'[t] = appended[t]
        /\ appended' \in [Server -> [queue : Seq(QueueRoute), subscription : Seq(TopicRoute)]]
    <2>1. [queue |-> <<>>, subscription |-> <<>>] \in [queue : Seq(QueueRoute), subscription : Seq(TopicRoute)]
      OBVIOUS
    <2>2. QED
      BY <1>0, <1>2, <2>1 DEF BootTypeOK
  <1>5. /\ Queued(s)' = {}
        /\ OnceIn(appended'[s].queue) /\ OnceIn(appended'[s].subscription)
    <2>1. Queued(s)' = Elems(appended'[s].queue) \cup Elems(appended'[s].subscription)
      BY DEF Queued
    <2>2. appended'[s].queue = <<>> /\ appended'[s].subscription = <<>>
      BY <1>4
    <2>3. QED
      BY <2>1, <2>2, ElemsOfEmpty
  <1> HIDE DEF q, b
  <1>6. /\ q \in Seq(Route) /\ b \in Seq(Route)
        /\ Elems(q) \cap Elems(b) = {}
    <2>1. q \in Seq(Route) /\ b \in Seq(Route)
      BY <1>1 DEF Route
    <2>2. Elems(q) \subseteq QueueRoute /\ Elems(b) \subseteq TopicRoute
      BY <1>1 DEF Elems
    <2>3. QED
      BY <2>1, <2>2, BootConstantsOK
  <1>7. /\ todo' \in Seq(Route) /\ OnceIn(todo') /\ Elems(todo') = Queued(s)
    BY <1>1, <1>2, <1>6, ElemsOfConcat
  <1>8. QED
    BY <1>0, <1>3, <1>4, <1>5, <1>7

\* The variables of the boot keep their types.
LEMMA BootTypeStep == BootTypeOK /\ WaitInv /\ [BootNext]_allVars => BootTypeOK'
  <1> SUFFICES ASSUME BootTypeOK, WaitInv, [BootNext]_allVars PROVE BootTypeOK'
    OBVIOUS
  <1>0. \A r \in Route : <<"verify", r>> \in {"verify", "register"} \X Route
                         /\ <<"register", r>> \in {"verify", "register"} \X Route
    OBVIOUS
  <1>1. ASSUME NEW r \in Route, RegisterRoute(r) PROVE BootTypeOK'
    <2>1. /\ UNCHANGED <<todo, at, emitters, events>>
          /\ phase' \in {phase, "aborted"}
          /\ \/ rstate' = [rstate EXCEPT ![r] = "appended"]
             \/ rstate' = [rstate EXCEPT ![r] = "invalid"]
      BY <1>1 DEF RegisterRoute
    <2>2. rstate' \in [Route -> RouteState]
      BY <2>1, StateFacts DEF BootTypeOK
    <2>3. appended' \in [Server -> [queue : Seq(QueueRoute), subscription : Seq(TopicRoute)]]
      <3>1. CASE appended' = appended
        BY <3>1 DEF BootTypeOK
      <3>2. CASE appended' # appended
        <4> DEFINE s == ServerOf[r]
        <4>1. rstate[r] # "appended" /\ s \in Server
              /\ appended' = [appended EXCEPT ![s] = Appended(@, r)]
          BY <1>1, <3>2 DEF RegisterRoute
        <4>2. r \notin Queued(s) /\ OnceIn(appended[s].queue) /\ OnceIn(appended[s].subscription)
          BY <4>1 DEF WaitInv
        <4> HIDE DEF s
        <4>3. QED
          BY <4>1, <4>2, AppendedEffect
      <3>3. QED
        BY <3>1, <3>2
    <2>4. QED
      BY <2>1, <2>2, <2>3 DEF BootTypeOK
  <1>2. ASSUME NEW r \in Route, NEW v, InFlightStep(r, v) PROVE BootTypeOK'
    <2>1. rstate' \in [Route -> RouteState]
      BY <1>2, StateFacts DEF BootTypeOK, InFlightStep, RouteState
    <2>2. events' \subseteq {"verify", "register"} \X Route
      BY <1>0, <1>2 DEF BootTypeOK, InFlightStep
    <2>3. QED
      BY <1>2, <2>1, <2>2 DEF BootTypeOK, InFlightStep
  <1>3. ASSUME NEW r \in Route, VerifyFailed(r) PROVE BootTypeOK'
    BY <1>0, <1>3 DEF BootTypeOK, VerifyFailed
  <1>4. ASSUME NEW e \in Emitter, RegisterEmitter(e) PROVE BootTypeOK'
    BY <1>4 DEF BootTypeOK, RegisterEmitter
  <1>5. CASE StartCommit \/ Ready
    BY <1>5 DEF BootTypeOK, StartCommit, Ready
  <1>6. CASE CommitRoutes
    BY <1>6, CommitEffect DEF BootTypeOK
  <1>7. CASE ExecuteRoute
    <2>1. rstate' \in [Route -> RouteState]
      BY <1>7, ExecuteEffect, StateFacts DEF BootTypeOK, RouteState
    <2>2. events' \subseteq {"verify", "register"} \X Route
      BY <1>0, <1>7, ExecuteEffect DEF BootTypeOK
    <2>3. QED
      BY <1>7, <2>1, <2>2, ExecuteEffect DEF BootTypeOK
  <1>8. ASSUME NEW n \in Node, Manage(n) PROVE BootTypeOK'
    BY <1>8 DEF BootTypeOK, Manage, bootVars
  <1>9. CASE UNCHANGED allVars
    BY <1>9 DEF BootTypeOK, allVars, bootVars
  <1>10. QED
    BY <1>1, <1>2, <1>3, <1>4, <1>5, <1>6, <1>7, <1>8, <1>9, InFlightEffect
    DEF BootNext, RouteStep, BootStep

LEMMA PhaseStep == BootTypeOK /\ PhaseInv /\ WaitInv /\ [BootNext]_allVars => PhaseInv'
  <1> SUFFICES ASSUME BootTypeOK, PhaseInv, WaitInv, [BootNext]_allVars PROVE PhaseInv'
    OBVIOUS
  <1>0. phase \in {"build", "commit", "ready", "aborted"} /\ rstate \in [Route -> RouteState]
    BY DEF BootTypeOK
  <1>1. ASSUME NEW r \in Route, RegisterRoute(r) PROVE PhaseInv'
    <2>1. /\ phase' \in {phase, "aborted"}
          /\ rstate[r] = "scanned" /\ UNCHANGED <<todo, at, emitters>>
          /\ \/ rstate' = [rstate EXCEPT ![r] = "appended"]
             \/ rstate' = [rstate EXCEPT ![r] = "invalid"]
      BY <1>1 DEF RegisterRoute
    <2>2. phase \in {"build", "aborted"}
      BY <1>0, <2>1 DEF PhaseInv
    <2>3. QED
      BY <1>0, <2>1, <2>2 DEF PhaseInv
  <1>2. ASSUME NEW r \in Route, NEW v, InFlightStep(r, v) PROVE PhaseInv'
    <2>1. phase = "commit"
      BY <1>0, <1>2, StateFacts DEF PhaseInv, InFlightStep
    <2>2. QED
      BY <1>0, <1>2, <2>1 DEF PhaseInv, InFlightStep
  <1>3. ASSUME NEW r \in Route, VerifyFailed(r) PROVE PhaseInv'
    BY <1>3 DEF PhaseInv, VerifyFailed
  <1>4. ASSUME NEW e \in Emitter, RegisterEmitter(e) PROVE PhaseInv'
    <2>1. /\ phase' \in {phase, "aborted"} /\ e \notin emitters
          /\ UNCHANGED <<todo, at, rstate>>
      BY <1>4 DEF RegisterEmitter
    <2>2. phase \in {"build", "aborted"}
      BY <1>0, <2>1 DEF PhaseInv
    <2>3. QED
      BY <2>1, <2>2 DEF PhaseInv
  <1>5. CASE StartCommit
    BY <1>5 DEF PhaseInv, StartCommit, Built
  <1>6. CASE CommitRoutes
    <2>1. phase = "commit" /\ UNCHANGED <<phase, rstate, emitters>>
      BY <1>6 DEF CommitRoutes
    <2>2. QED
      BY <2>1 DEF PhaseInv
  <1>7. CASE ExecuteRoute
    <2>1. todo # <<>>
      BY <1>7 DEF ExecuteRoute
    <2>2. phase = "commit"
      BY <1>0, <2>1 DEF PhaseInv
    <2>3. QED
      BY <1>0, <1>7, <2>2, ExecuteEffect DEF PhaseInv
  <1>8. CASE Ready
    BY <1>8 DEF PhaseInv, Ready, Settled
  <1>9. ASSUME NEW n \in Node, Manage(n) PROVE PhaseInv'
    BY <1>9 DEF PhaseInv, Manage, bootVars
  <1>10. CASE UNCHANGED allVars
    BY <1>10 DEF PhaseInv, allVars, bootVars
  <1>11. QED
    BY <1>1, <1>2, <1>3, <1>4, <1>5, <1>6, <1>7, <1>8, <1>9, <1>10, InFlightEffect
    DEF BootNext, RouteStep, BootStep

\* A route is appended, taken and executed once.
LEMMA WaitStep == BootTypeOK /\ PhaseInv /\ WaitInv /\ [BootNext]_allVars => WaitInv'
  <1> SUFFICES ASSUME BootTypeOK, PhaseInv, WaitInv, [BootNext]_allVars PROVE WaitInv'
    OBVIOUS
  <1>0. rstate \in [Route -> RouteState] /\ at \in 0..Len(Servers)
    BY DEF BootTypeOK
  <1>1. ASSUME NEW r \in Route, RegisterRoute(r) PROVE WaitInv'
    <2>1. /\ rstate[r] = "scanned" /\ UNCHANGED <<todo, at>>
          /\ \/ /\ ServerOf[r] \in Server
                /\ appended' = [appended EXCEPT ![ServerOf[r]] = Appended(@, r)]
                /\ rstate' = [rstate EXCEPT ![r] = "appended"]
             \/ appended' = appended /\ rstate' = [rstate EXCEPT ![r] = "invalid"]
      BY <1>1 DEF RegisterRoute
    <2>2. phase \in {"build", "aborted"} /\ at = 0 /\ todo = <<>>
      BY <2>1 DEF PhaseInv, BootTypeOK
    <2>3. CASE appended' = appended /\ rstate' = [rstate EXCEPT ![r] = "invalid"]
      BY <1>0, <2>1, <2>3 DEF WaitInv, Queued
    <2>4. ASSUME NEW s \in Server, s = ServerOf[r],
                 appended' = [appended EXCEPT ![s] = Appended(@, r)],
                 rstate' = [rstate EXCEPT ![r] = "appended"]
          PROVE  WaitInv'
      <3>1. r \notin Queued(s) /\ OnceIn(appended[s].queue) /\ OnceIn(appended[s].subscription)
        BY <2>1, <2>4 DEF WaitInv
      <3>2. /\ OnceIn(appended'[s].queue) /\ OnceIn(appended'[s].subscription)
            /\ Queued(s)' = Queued(s) \cup {r}
            /\ \A t \in Server \ {s} : appended'[t] = appended[t] /\ Queued(t)' = Queued(t)
        BY <2>4, <3>1, AppendedEffect DEF Queued
      <3>3. Elems(todo)' = {} /\ Elems(todo) = {} /\ OnceIn(todo)'
        BY <2>1, <2>2, ElemsOfEmpty
      <3>4. \A t \in Server : /\ OnceIn(appended'[t].queue) /\ OnceIn(appended'[t].subscription)
                              /\ \A q \in Queued(t)' : ServerOf[q] = t /\ q \notin Elems(todo)'
        BY <2>4, <3>2, <3>3 DEF WaitInv
      <3>5. ASSUME NEW q \in Route
            PROVE  rstate'[q] = "appended" <=>
                      q \in Elems(todo)' \/ (ServerOf[q] \in Server /\ q \in Queued(ServerOf[q])')
        <4>1. CASE q = r
          BY <1>0, <2>4, <3>2, <4>1
        <4>2. CASE q # r
          <5>1. rstate'[q] = rstate[q]
            BY <1>0, <2>4, <4>2
          <5>2. ServerOf[q] \in Server => (q \in Queued(ServerOf[q])' <=> q \in Queued(ServerOf[q]))
            BY <3>2, <4>2
          <5>3. QED
            BY <3>3, <5>1, <5>2 DEF WaitInv
        <4>3. QED
          BY <4>1, <4>2
      <3>6. 1..at' = {}
        BY <2>1, <2>2
      <3>7. QED
        BY <3>3, <3>4, <3>5, <3>6 DEF WaitInv
    <2>5. QED
      BY <2>1, <2>3, <2>4
  <1>2. ASSUME NEW r \in Route, NEW v, InFlightStep(r, v) PROVE WaitInv'
    <2>1. /\ UNCHANGED <<appended, todo, at>>
          /\ \A q \in Route : rstate'[q] = "appended" <=> rstate[q] = "appended"
      BY <1>0, <1>2 DEF InFlightStep, InFlight
    <2>2. QED
      BY <2>1 DEF WaitInv, Queued
  <1>3. CASE \/ \E r \in Route : VerifyFailed(r)
             \/ \E e \in Emitter : RegisterEmitter(e)
             \/ StartCommit \/ Ready
             \/ \E n \in Node : Manage(n)
             \/ UNCHANGED allVars
    <2>1. UNCHANGED <<appended, todo, at, rstate>>
      BY <1>3 DEF VerifyFailed, RegisterEmitter, StartCommit, Ready, Manage, allVars, bootVars
    <2>2. QED
      BY <2>1 DEF WaitInv, Queued
  <1>4. CASE CommitRoutes
    <2> DEFINE next == Servers[at + 1]
    <2>0. PICK s : s = next
      OBVIOUS
    <2>1. /\ at + 1 \in 1..Len(Servers) /\ s \in Server /\ at' = at + 1
          /\ OnceIn(todo') /\ Elems(todo) = {} /\ Elems(todo') = Queued(s)
          /\ OnceIn(appended'[s].queue) /\ OnceIn(appended'[s].subscription)
          /\ Queued(s)' = {}
          /\ \A t \in Server \ {s} : appended'[t] = appended[t] /\ Queued(t)' = Queued(t)
          /\ rstate' = rstate
      BY <1>4, <2>0, CommitEffect DEF Queued
    <2>2. ASSUME NEW t \in Server
          PROVE  /\ OnceIn(appended'[t].queue) /\ OnceIn(appended'[t].subscription)
                 /\ \A q \in Queued(t)' : ServerOf[q] = t /\ q \notin Elems(todo')
      <3>1. CASE t = s
        BY <2>1, <3>1
      <3>2. CASE t # s
        <4>1. \A q \in Queued(t) : ServerOf[q] = t
          BY DEF WaitInv
        <4>2. \A q \in Elems(todo') : ServerOf[q] = s
          BY <2>1 DEF WaitInv
        <4>3. QED
          BY <2>1, <3>2, <4>1, <4>2 DEF WaitInv
      <3>3. QED
        BY <3>1, <3>2
    <2>3. ASSUME NEW q \in Route
          PROVE  rstate'[q] = "appended" <=>
                    q \in Elems(todo') \/ (ServerOf[q] \in Server /\ q \in Queued(ServerOf[q])')
      <3>1. rstate[q] = "appended" <=> ServerOf[q] \in Server /\ q \in Queued(ServerOf[q])
        BY <2>1 DEF WaitInv
      <3>2. q \in Queued(s) => ServerOf[q] = s
        BY <2>1 DEF WaitInv
      <3>3. CASE ServerOf[q] = s
        BY <2>1, <3>1, <3>3
      <3>4. CASE ServerOf[q] # s
        BY <2>1, <3>1, <3>2, <3>4
      <3>5. QED
        BY <3>3, <3>4
    <2>4. ASSUME NEW i \in 1..at' PROVE Queued(Servers[i])' = {}
      <3>1. i \in 1..at \/ i = at + 1
        BY <1>0, <2>1
      <3>2. Servers[i] \in Server
        BY <1>0, <2>1, <3>1 DEF Server
      <3>3. CASE Servers[i] = s
        BY <2>1, <3>3
      <3>4. CASE Servers[i] # s
        BY <2>0, <2>1, <3>1, <3>2, <3>4 DEF WaitInv
      <3>5. QED
        BY <3>3, <3>4
    <2>5. QED
      BY <2>1, <2>2, <2>3, <2>4 DEF WaitInv
  <1>5. CASE ExecuteRoute
    <2>0. PICK r \in Route : r = Head(todo)
      BY <1>5, ExecuteEffect
    <2>1. /\ OnceIn(todo') /\ Elems(todo) = Elems(todo') \cup {r} /\ r \notin Elems(todo')
          /\ rstate[r] = "appended"
          /\ \E v \in {"verifying", "connecting", "refused"} : rstate' = [rstate EXCEPT ![r] = v]
          /\ UNCHANGED <<appended, at>>
      BY <1>5, <2>0, ExecuteEffect
    <2>2. \A t : Queued(t)' = Queued(t)
      BY <2>1 DEF Queued
    <2>3. \A q \in Route : rstate'[q] = "appended" <=> q # r /\ rstate[q] = "appended"
      BY <1>0, <2>1
    <2>4. ServerOf[r] \in Server => r \notin Queued(ServerOf[r])
      BY <2>1 DEF WaitInv
    <2>5. \A t \in Server : \A q \in Queued(t) : ServerOf[q] = t /\ q \notin Elems(todo')
      BY <2>1 DEF WaitInv
    <2>6. \A q \in Route : rstate'[q] = "appended" <=>
             q \in Elems(todo') \/ (ServerOf[q] \in Server /\ q \in Queued(ServerOf[q]))
      BY <2>1, <2>3, <2>4 DEF WaitInv
    <2>7. QED
      BY <2>1, <2>2, <2>5, <2>6 DEF WaitInv
  <1>6. QED
    BY <1>1, <1>2, <1>3, <1>4, <1>5, InFlightEffect DEF BootNext, RouteStep, BootStep

\* Events tell the truth: what they say of a verification was so and stays so,
\* for the call that a route waits for does not begin again.
LEMMA EventStep ==
    TypeOK /\ BootTypeOK /\ WaitInv /\ EventInv /\ [BootNext]_allVars => EventInv'
  <1> SUFFICES ASSUME TypeOK, BootTypeOK, WaitInv, EventInv, [BootNext]_allVars PROVE EventInv'
    OBVIOUS
  <1>0. rstate \in [Route -> RouteState]
    BY DEF BootTypeOK
  <1>a. ASSUME NEW r \in Route, NodeOf[r] # NoNode, pc[NodeOf[r]] \in Returned
        PROVE  pc'[NodeOf[r]] = pc[NodeOf[r]]
    <2>1. NodeOf[r] \in Root
      BY <1>a, RouteFacts
    <2>2. QED
      BY <1>a, <2>1, ConfiguratorSteps, RootStays
  <1>b. "failed" \in Returned /\ "done" \in Returned
    BY DEF Returned
  <1>1. CASE rstate' = rstate /\ events' = events
    BY <1>1, <1>a, <1>b DEF EventInv
  <1>2. ASSUME NEW r \in Route, RegisterRoute(r) PROVE EventInv'
    <2>1. /\ rstate[r] = "scanned" /\ pc' = pc /\ events' = events
          /\ \/ rstate' = [rstate EXCEPT ![r] = "appended"]
             \/ rstate' = [rstate EXCEPT ![r] = "invalid"]
      BY <1>2 DEF RegisterRoute, vars
    <2>2. QED
      BY <1>0, <2>1 DEF EventInv
  <1>3. ASSUME NEW r \in Route, NEW v, InFlightStep(r, v) PROVE EventInv'
    <2>1. /\ rstate[r] \in {"verifying", "connecting"} /\ pc' = pc
          /\ v \in {"connecting", "listening", "refused"}
          /\ rstate' = [rstate EXCEPT ![r] = v]
          /\ events' = IF v = "refused" THEN events \cup {<<"register", r>>} ELSE events
          /\ rstate[r] = "verifying" => pc[NodeOf[r]] = "done" \/ <<"verify", r>> \in events
      BY <1>3 DEF InFlightStep, InFlight, vars
    <2>2. \A q \in Route : /\ <<"verify", q>> \in events' <=> <<"verify", q>> \in events
                           /\ <<"register", q>> \in events' <=>
                                 <<"register", q>> \in events \/ (q = r /\ v = "refused")
      BY <2>1
    <2>3. NodeOf[r] # NoNode => /\ pc[NodeOf[r]] \in Returned
                                /\ pc[NodeOf[r]] = "failed" => <<"verify", r>> \in events
      BY <1>b, <2>1 DEF EventInv
    <2>4. ASSUME NEW q \in Route
          PROVE  /\ rstate'[q] = "refused" <=> <<"register", q>> \in events'
                 /\ rstate'[q] = "verifying" => NodeOf[q] # NoNode
                 /\ <<"verify", q>> \in events' => NodeOf[q] # NoNode /\ pc'[NodeOf[q]] = "failed"
                 /\ rstate'[q] \in {"connecting", "listening", "refused"} /\ NodeOf[q] # NoNode =>
                       /\ pc'[NodeOf[q]] \in Returned
                       /\ pc'[NodeOf[q]] = "failed" => <<"verify", q>> \in events'
      <3>1. CASE q = r
        BY <1>0, <2>1, <2>2, <2>3, <3>1 DEF EventInv
      <3>2. CASE q # r
        BY <1>0, <2>1, <2>2, <3>2 DEF EventInv
      <3>3. QED
        BY <3>1, <3>2
    <2>5. QED
      BY <2>4 DEF EventInv
  <1>4. ASSUME NEW r \in Route, VerifyFailed(r) PROVE EventInv'
    <2>1. /\ rstate[r] = "verifying" /\ pc[NodeOf[r]] = "failed" /\ pc' = pc /\ rstate' = rstate
          /\ events' = events \cup {<<"verify", r>>}
      BY <1>4 DEF VerifyFailed, vars
    <2>2. \A q \in Route : /\ <<"register", q>> \in events' <=> <<"register", q>> \in events
                           /\ <<"verify", q>> \in events' <=> <<"verify", q>> \in events \/ q = r
      BY <2>1
    <2>3. QED
      BY <2>1, <2>2 DEF EventInv
  <1>5. CASE ExecuteRoute
    <2>0. PICK r \in Route : r = Head(todo)
      BY <1>5, ExecuteEffect
    <2>1. PICK v \in {"verifying", "connecting", "refused"} :
             /\ rstate[r] = "appended" /\ rstate' = [rstate EXCEPT ![r] = v]
             /\ v = "verifying" <=> NodeOf[r] # NoNode
             /\ events' = IF v = "refused" THEN events \cup {<<"register", r>>} ELSE events
      BY <1>5, <2>0, ExecuteEffect
    <2>2. \A q \in Route : /\ <<"verify", q>> \in events' <=> <<"verify", q>> \in events
                           /\ <<"register", q>> \in events' <=>
                                 <<"register", q>> \in events \/ (q = r /\ v = "refused")
      BY <2>1
    <2>3. ASSUME NEW q \in Route
          PROVE  /\ rstate'[q] = "refused" <=> <<"register", q>> \in events'
                 /\ rstate'[q] = "verifying" => NodeOf[q] # NoNode
                 /\ <<"verify", q>> \in events' => NodeOf[q] # NoNode /\ pc'[NodeOf[q]] = "failed"
                 /\ rstate'[q] \in {"connecting", "listening", "refused"} /\ NodeOf[q] # NoNode =>
                       /\ pc'[NodeOf[q]] \in Returned
                       /\ pc'[NodeOf[q]] = "failed" => <<"verify", q>> \in events'
      <3>1. <<"verify", q>> \in events' => NodeOf[q] # NoNode /\ pc'[NodeOf[q]] = "failed"
        BY <1>a, <1>b, <2>2 DEF EventInv
      <3>2. CASE q = r
        BY <1>0, <2>1, <2>2, <3>1, <3>2 DEF EventInv
      <3>3. CASE q # r
        BY <1>0, <1>a, <2>1, <2>2, <3>1, <3>3 DEF EventInv
      <3>4. QED
        BY <3>2, <3>3
    <2>4. QED
      BY <2>3 DEF EventInv
  <1>6. CASE \/ \E e \in Emitter : RegisterEmitter(e)
             \/ StartCommit \/ CommitRoutes \/ Ready
             \/ \E n \in Node : Manage(n)
             \/ UNCHANGED allVars
    BY <1>1, <1>6 DEF RegisterEmitter, StartCommit, CommitRoutes, Ready, Manage, allVars, bootVars
  <1>7. QED
    BY <1>2, <1>3, <1>4, <1>5, <1>6, InFlightEffect DEF BootNext, RouteStep, BootStep

\* A route that provisioned its entity is not refused for want of it.
LEMMA ProvidedStep == BootInv /\ [BootNext]_allVars => ProvidedInv'
  <1> SUFFICES ASSUME BootInv, [BootNext]_allVars, NEW r \in Route, Provided(r)'
               PROVE  rstate'[r] # "refused"
    BY DEF ProvidedInv
  <1>0. BootTypeOK /\ WaitInv /\ EventInv /\ rstate \in [Route -> RouteState]
    BY DEF BootInv, BootTypeOK
  <1>1. CASE rstate' = rstate /\ events \subseteq events'
    BY <1>1 DEF BootInv, ProvidedInv, Provided
  <1>2. ASSUME NEW q \in Route, RegisterRoute(q) PROVE rstate'[r] # "refused"
    <2>1. rstate'[r] \in {rstate[r], "appended", "invalid"} /\ events' = events
      BY <1>0, <1>2 DEF RegisterRoute
    <2>2. QED
      BY <2>1 DEF BootInv, ProvidedInv, Provided
  <1>3. ASSUME NEW q \in Route, NEW v, InFlightStep(q, v) PROVE rstate'[r] # "refused"
    <2>1. /\ rstate[q] \in {"verifying", "connecting"}
          /\ rstate' = [rstate EXCEPT ![q] = v] /\ events \subseteq events'
          /\ v = "refused" => \/ \E p \in Route : rstate[p] = "listening" /\ EntityOf[p] = EntityOf[q]
                              \/ rstate[q] = "connecting" /\ ~Exists(EntityOf[q])
      BY <1>3 DEF InFlightStep, InFlight
    <2>2. Provided(r)
      BY <2>1 DEF Provided
    <2>3. CASE q # r
      BY <1>0, <2>1, <2>2, <2>3 DEF BootInv, ProvidedInv
    <2>4. CASE q = r /\ v = "refused"
      <3>1. rstate[r] = "connecting" /\ ~Exists(EntityOf[r])
        BY <2>1, <2>2, <2>4 DEF Provided
      <3>2. pc[NodeOf[r]] = "done"
        BY <1>0, <2>2, <3>1 DEF EventInv, Provided, Returned
      <3>3. There(EntOf[NodeOf[r]])
        BY <2>2, <3>2, RouteFacts DEF BootInv, ProvisionInv, Provided
      <3>4. Exists(EntityOf[r])
        BY <2>2, <3>3, RouteFacts DEF BootInv, There, Provided
      <3>5. QED
        BY <3>1, <3>4
    <2>5. CASE q = r /\ v # "refused"
      BY <1>0, <2>1, <2>5
    <2>6. QED
      BY <2>3, <2>4, <2>5
  <1>4. CASE ExecuteRoute
    <2>0. PICK q \in Route : q = Head(todo)
      BY <1>0, <1>4, ExecuteEffect
    <2>1. PICK v \in {"verifying", "connecting", "refused"} :
             /\ rstate' = [rstate EXCEPT ![q] = v] /\ events \subseteq events'
             /\ v = "verifying" <=> NodeOf[q] # NoNode
      BY <1>0, <1>4, <2>0, ExecuteEffect
    <2>2. Provided(r)
      BY <2>1 DEF Provided
    <2>3. QED
      BY <1>0, <2>1, <2>2 DEF BootInv, ProvidedInv, Provided
  <1>5. CASE \/ \E q \in Route : VerifyFailed(q)
             \/ \E e \in Emitter : RegisterEmitter(e)
             \/ StartCommit \/ CommitRoutes \/ Ready
             \/ \E n \in Node : Manage(n)
             \/ UNCHANGED allVars
    BY <1>1, <1>5
    DEF VerifyFailed, RegisterEmitter, StartCommit, CommitRoutes, Ready, Manage, allVars, bootVars
  <1>6. QED
    BY <1>0, <1>2, <1>3, <1>4, <1>5, InFlightEffect DEF BootNext, RouteStep, BootStep

LEMMA BootInvStarts == BootInit => BootInv
  <1> SUFFICES ASSUME BootInit PROVE BootInv
    OBVIOUS
  <1>1. ProvisionInv /\ deleted = {}
    BY TypeInit DEF BootInit, Init, ProvisionInv
  <1>2. \A s \in Server : appended[s].queue = <<>> /\ appended[s].subscription = <<>>
    BY DEF BootInit
  <1>3. \A s \in Server : Queued(s) = {}
    BY <1>2, ElemsOfEmpty DEF Queued
  <1>4. BootTypeOK
    <2>1. [queue |-> <<>>, subscription |-> <<>>] \in [queue : Seq(QueueRoute), subscription : Seq(TopicRoute)]
      OBVIOUS
    <2>2. 0 \in 0..Len(Servers)
      BY BootConstantsOK
    <2>3. QED
      BY <2>1, <2>2, StateFacts DEF BootInit, BootTypeOK
  <1>5. WaitInv
    BY <1>2, <1>3, ElemsOfEmpty DEF BootInit, WaitInv
  <1>6. PhaseInv /\ EventInv /\ ProvidedInv
    BY DEF BootInit, PhaseInv, EventInv, ProvidedInv
  <1>7. QED
    BY <1>1, <1>4, <1>5, <1>6 DEF BootInv

LEMMA BootInvStep == BootInv /\ [BootNext]_allVars => BootInv'
  <1> SUFFICES ASSUME BootInv, [BootNext]_allVars PROVE BootInv'
    OBVIOUS
  <1>1. TypeOK /\ BootTypeOK /\ PhaseInv /\ WaitInv /\ EventInv /\ ProvisionInv
    BY DEF BootInv, ProvisionInv
  <1>2. [Next]_vars /\ deleted' = {}
    BY <1>1, ConfiguratorSteps DEF BootInv
  <1>3. ProvisionInv'
    BY <1>1, <1>2, TypeStep, ProvisionStep
  <1>4. QED
    BY <1>1, <1>2, <1>3, BootTypeStep, PhaseStep, WaitStep, EventStep, ProvidedStep DEF BootInv

LEMMA BootInvariant == BootSpec => []BootInv
  BY BootInvStarts, BootInvStep, PTL DEF BootSpec

-----------------------------------------------------------------------------
(* Bootstrap: theorems *)

\* Every variable of the boot keeps its type.
THEOREM BootTypeCorrect == BootSpec => []BootTypeOK
  <1>1. BootInv => BootTypeOK
    BY DEF BootInv
  <1>2. QED
    BY <1>1, BootInvariant, PTL

LEMMA AllSettled == BootInv => EveryRouteSettles
  <1> SUFFICES ASSUME BootInv, phase = "ready", NEW r \in Route
               PROVE  /\ rstate[r] \in {"listening", "refused"}
                      /\ rstate[r] = "refused" <=> <<"register", r>> \in events
                      /\ NodeOf[r] # NoNode =>
                            (pc[NodeOf[r]] = "failed" <=> <<"verify", r>> \in events)
    BY DEF EveryRouteSettles
  <1>1. /\ at = Len(Servers) /\ todo = <<>> /\ rstate[r] \in RouteState
        /\ rstate[r] \notin InFlight \cup {"scanned", "invalid"}
    BY DEF BootInv, PhaseInv, BootTypeOK
  <1>2. rstate[r] # "appended"
    <2>1. SUFFICES ASSUME ServerOf[r] \in Server, r \in Queued(ServerOf[r]) PROVE FALSE
      BY <1>1, ElemsOfEmpty DEF BootInv, WaitInv
    <2>2. PICK i \in 1..at : Servers[i] = ServerOf[r]
      BY <1>1, <2>1 DEF Server
    <2>3. QED
      BY <2>1, <2>2 DEF BootInv, WaitInv
  <1>3. rstate[r] \in {"listening", "refused"}
    BY <1>1, <1>2 DEF RouteState, InFlight
  <1>4. QED
    BY <1>3 DEF BootInv, EventInv

\* A boot that is over has settled every route, and the error handler was told
\* of every route that does not listen and of every verification that failed,
\* and of nothing else.
THEOREM RoutesSettle == BootSpec => []EveryRouteSettles
  BY AllSettled, BootInvariant, PTL

\* A route that provisions its entity and has it for itself listens after the
\* boot, unless its verification was reported as failed.
THEOREM ProvisionedRoutesAreServed == BootSpec => []ProvisionedRoutesListen
  <1>1. BootInv => ProvisionedRoutesListen
    BY AllSettled DEF BootInv, ProvidedInv, Provided, EveryRouteSettles, ProvisionedRoutesListen
  <1>2. QED
    BY <1>1, BootInvariant, PTL

\* A boot that one registration fails connects no route.
THEOREM AbortedBootsAreSilent == BootSpec => []AbortedBootIsSilent
  <1>1. BootInv => AbortedBootIsSilent
    BY DEF BootInv, PhaseInv, AbortedBootIsSilent
  <1>2. QED
    BY <1>1, BootInvariant, PTL

\* A list without repetition has at most one place for a route.
LEMMA PlacesOfOnce ==
    ASSUME NEW list, NEW r, OnceIn(list)
    PROVE  LET P == {i \in DOMAIN list : list[i] = r}
           IN  /\ r \in Elems(list) => Cardinality(P) = 1
               /\ r \notin Elems(list) => P = {} /\ Cardinality(P) = 0
  <1> DEFINE P == {i \in DOMAIN list : list[i] = r}
  <1>1. ASSUME r \in Elems(list) PROVE Cardinality(P) = 1
    <2>1. PICK i \in DOMAIN list : list[i] = r
      BY <1>1 DEF Elems
    <2>2. P = {i}
      BY <2>1 DEF OnceIn
    <2>3. QED
      BY <2>2, FS_Singleton
  <1>2. ASSUME r \notin Elems(list) PROVE P = {} /\ Cardinality(P) = 0
    <2>1. P = {}
      BY <1>2 DEF Elems
    <2>2. QED
      BY <2>1, FS_EmptySet
  <1>3. QED
    BY <1>1, <1>2

\* No route is lost, or left to be executed twice, between its registration and
\* its execution.
THEOREM RoutesAreExecutedOnce == BootSpec => []RoutesWaitOnce
  <1> DEFINE Places(list, r) == {i \in DOMAIN list : list[i] = r}
             Waits(s, r) == Places(appended[s].queue, r) \cup Places(appended[s].subscription, r)
             Own(r) == IF ServerOf[r] \in Server THEN Cardinality(Waits(ServerOf[r], r)) ELSE 0
  <1>1. ASSUME BootInv, NEW s \in Server, NEW r \in Route
        PROVE  /\ r \in Queued(s) => Cardinality(Waits(s, r)) = 1
               /\ r \notin Queued(s) => Waits(s, r) = {} /\ Cardinality(Waits(s, r)) = 0
    <2> DEFINE q == appended[s].queue
               b == appended[s].subscription
    <2>1. /\ q \in Seq(QueueRoute) /\ b \in Seq(TopicRoute) /\ OnceIn(q) /\ OnceIn(b)
          /\ Queued(s) = Elems(q) \cup Elems(b)
          /\ Waits(s, r) = Places(q, r) \cup Places(b, r)
      BY <1>1 DEF BootInv, BootTypeOK, WaitInv, Queued
    <2> HIDE DEF q, b, Waits
    <2>2. r \notin Elems(q) \/ r \notin Elems(b)
      <3>1. Elems(q) \subseteq QueueRoute /\ Elems(b) \subseteq TopicRoute
        BY <2>1 DEF Elems
      <3>2. QED
        BY <3>1, BootConstantsOK
    <2>3. /\ r \in Elems(q) => Cardinality(Places(q, r)) = 1
          /\ r \notin Elems(q) => Places(q, r) = {} /\ Cardinality(Places(q, r)) = 0
          /\ r \in Elems(b) => Cardinality(Places(b, r)) = 1
          /\ r \notin Elems(b) => Places(b, r) = {} /\ Cardinality(Places(b, r)) = 0
      BY <2>1, PlacesOfOnce
    <2> HIDE DEF Places
    <2>4. CASE r \notin Elems(b)
      <3>1. Waits(s, r) = Places(q, r)
        BY <2>1, <2>3, <2>4
      <3>2. QED
        BY <2>1, <2>3, <2>4, <3>1
    <2>5. CASE r \notin Elems(q)
      <3>1. Waits(s, r) = Places(b, r)
        BY <2>1, <2>3, <2>5
      <3>2. QED
        BY <2>1, <2>3, <2>5, <3>1
    <2>6. QED
      BY <2>2, <2>4, <2>5
  <1>2. ASSUME BootInv, NEW r \in Route
        PROVE  /\ Own(r) + Cardinality(Places(todo, r)) = IF rstate[r] = "appended" THEN 1 ELSE 0
               /\ \A s \in Server \ {ServerOf[r]} : Waits(s, r) = {}
    <2>1. /\ r \in Elems(todo) => Cardinality(Places(todo, r)) = 1
          /\ r \notin Elems(todo) => Cardinality(Places(todo, r)) = 0
      BY <1>2, PlacesOfOnce DEF BootInv, WaitInv
    <2>2. /\ \A s \in Server : r \in Queued(s) => ServerOf[r] = s /\ r \notin Elems(todo)
          /\ rstate[r] = "appended" <=>
                r \in Elems(todo) \/ (ServerOf[r] \in Server /\ r \in Queued(ServerOf[r]))
      BY <1>2 DEF BootInv, WaitInv
    <2> HIDE DEF Places, Waits
    <2>3. /\ ServerOf[r] \in Server /\ r \in Queued(ServerOf[r]) => Own(r) = 1
          /\ ~(ServerOf[r] \in Server /\ r \in Queued(ServerOf[r])) => Own(r) = 0
      BY <1>1, <1>2
    <2>4. \A s \in Server \ {ServerOf[r]} : Waits(s, r) = {}
      BY <1>1, <1>2, <2>2
    <2> HIDE DEF Own
    <2>5. QED
      BY <2>1, <2>2, <2>3, <2>4
  <1>3. BootInv => RoutesWaitOnce
    BY <1>2 DEF RoutesWaitOnce
  <1>4. QED
    BY <1>3, BootInvariant, PTL
=============================================================================
