--------------------------- MODULE MCConfigurator ---------------------------
(* A provisioning scenario of Configurator for TLC: two replicas of an
   application, c1 and c2, provision one subscription with different links.
   The first also provisions its topic, two rules and the queue it dead-letters
   to, which an emitter on its connector verifies too. *)
EXTENDS ConfiguratorRefinement

MCEntity == {"t", "s", "r1", "r2", "d"}
MCOwner  == [e \in MCEntity |->
    CASE e = "s" -> "t" [] e \in {"r1", "r2"} -> "s" [] OTHER -> Absent]

\* An empty namespace, one with everything in place (the subscription without
\* its link), and one with a topic and a queue left over from an earlier version.
MCNamespace ==
    { [e \in MCEntity |-> Absent],
      [e \in MCEntity |-> {}],
      [e \in MCEntity |-> IF e \in {"t", "d"} THEN {} ELSE Absent] }

NoCalls  == [s \in Stage |-> {}]
MCNode   == {"sub1", "top1", "rule1", "rule2", "dead1", "sub2", "emit"}
MCConn   == [n \in MCNode |-> IF n = "sub2" THEN "c2" ELSE "c1"]
\* One replica in which two routes subscribe to the same subscription.
OneConn  == [n \in MCNode |-> "c1"]

MCEnt    == [n \in MCNode |->
    CASE n \in {"sub1", "sub2"} -> "s"    [] n = "top1" -> "t"
      [] n \in {"dead1", "emit"} -> "d"   [] n = "rule1" -> "r1"
      [] n = "rule2" -> "r2"]
MCType   == [n \in MCNode |-> IF n = "emit" THEN "verify" ELSE "verifyCreate"]
MCChild  == [n \in MCNode |->
    IF n = "sub1"
    THEN [NoCalls EXCEPT !["topic"] = {"top1"}, !["deadLetter"] = {"dead1"},
                         !["rules"] = {"rule1", "rule2"}]
    ELSE NoCalls]
MCParams == [n \in MCNode |->
    CASE n = "sub1" -> {"deadLetter"} [] n = "sub2" -> {"forward"} [] OTHER -> {}]
=============================================================================
