----------------------- MODULE ConfiguratorRefinement -----------------------
(* SbConfigurator keeps the promise of Provisioning. *)
EXTENDS Configurator

\* The calls that n's provision tree leads to, n included: what every set that
\* contains n and is closed under Child contains.
Tree(n) ==
    {m \in Node : \A S \in SUBSET Node :
        (n \in S /\ \A k \in S : \A s \in Stage : Child[k][s] \subseteq S) => m \in S}

Created(S) == {EntOf[n] : n \in {m \in S : TypeOf[m] = "verifyCreate"}}

\* The entities the call r may create, and those it promises.
DemandOf  == [r \in Root |-> Created(Tree(r))]
PromiseOf == [r \in Root |-> Created({r})]

CallState(n) ==
    CASE pc[n] = "idle" -> "idle" [] pc[n] \in Returned -> pc[n] [] OTHER -> "open"

Abstract == INSTANCE Provisioning WITH
    Caller  <- Root,
    Demand  <- DemandOf,
    Promise <- PromiseOf,
    present <- {e \in Entity : Exists(e)},
    lost    <- deleted,
    call    <- [r \in Root |-> CallState(r)]

\* Every behaviour of the configurator is one of Provisioning: entities come
\* into being only where an open call demands them, and a call that returns
\* has its entity, under the races, lost answers and deletions modelled.
ImplementsProvisioning == Abstract!Spec
=============================================================================
