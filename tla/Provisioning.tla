---------------------------- MODULE Provisioning ----------------------------
(***************************************************************************)
(* What provisioning promises to the routes and emitters that ask for it,  *)
(* whatever the caches, the order of requests and the failures are:        *)
(* entities come into being only because some open call demands them, and  *)
(* a call that returns has what it was promised.                           *)
(***************************************************************************)
CONSTANTS
    Caller,     \* the calls made by routes and emitters
    Entity,
    Demand,     \* Demand[r]: the entities call r may create
    Promise     \* Promise[r]: the entities that are there when r returns

VARIABLES
    present,    \* the entities of the namespace
    lost,       \* those deleted at some time
    call        \* call[r]: "idle", "open", "done" or "failed"

vars == <<present, lost, call>>

Init ==
    /\ present \subseteq Entity
    /\ lost = {}
    /\ call = [r \in Caller |-> "idle"]

Open(r) ==
    /\ call[r] = "idle"
    /\ call' = [call EXCEPT ![r] = "open"]
    /\ UNCHANGED <<present, lost>>

\* An entity is created for r; the answer may get lost, and r fail.
Provide(r, e) ==
    /\ call[r] # "idle"
    /\ e \in Demand[r] \ present
    /\ present' = present \cup {e}
    /\ call' \in {call, [call EXCEPT ![r] = "failed"]}
    /\ call[r] = "done" => call' = call
    /\ UNCHANGED lost

Return(r) ==
    /\ call[r] \in {"idle", "open"}
    /\ Promise[r] \subseteq present \cup lost
    /\ call' = [call EXCEPT ![r] = "done"]
    /\ UNCHANGED <<present, lost>>

Fail(r) ==
    /\ call[r] = "open"
    /\ call' = [call EXCEPT ![r] = "failed"]
    /\ UNCHANGED <<present, lost>>

\* Some entities are deleted, an owner with all it owns.
Remove ==
    \E gone \in SUBSET present :
        /\ present' = present \ gone
        /\ lost' = lost \cup gone
        /\ UNCHANGED call

Next ==
    \/ \E r \in Caller : Open(r) \/ Return(r) \/ Fail(r) \/ \E e \in Entity : Provide(r, e)
    \/ Remove

\* A call that is open comes to an end.
Close(r) == call[r] = "open" /\ (Return(r) \/ Fail(r))

Spec == Init /\ [][Next]_vars /\ \A r \in Caller : WF_vars(Close(r))
=============================================================================
