---------------------------- MODULE MCBootstrap ----------------------------
(* The boot of one application for TLC.  Its first server commits in sequence
   and has a queue subscriber and two subscribers of a topic, the second of
   which does not provision it; its second server commits in parallel and has
   two subscribers of the same queue.  An emitter provisions the topic too, and
   the metadata of another one, and of one route, comes of a factory. *)
EXTENDS Bootstrap

MCEntity == {"t", "sA", "sB", "q"}
MCOwner  == [e \in MCEntity |-> IF e \in {"sA", "sB"} THEN "t" ELSE Absent]

\* Nothing there but the queue, or everything.
MCNamespace ==
    { [e \in MCEntity |-> IF e = "q" THEN {} ELSE Absent],
      [e \in MCEntity |-> {}] }

NoCalls == [s \in Stage |-> {}]
MCNode  == {"nA", "nT", "nB", "nQ", "nE"}
MCConn  == [n \in MCNode |->
    CASE n = "nE" -> "client" [] n = "nQ" -> "c2" [] OTHER -> "c1"]
MCEnt   == [n \in MCNode |->
    CASE n = "nA" -> "sA" [] n = "nB" -> "sB" [] n = "nQ" -> "q" [] OTHER -> "t"]
MCType  == [n \in MCNode |-> IF n = "nQ" THEN "skip" ELSE "verifyCreate"]
MCChild == [n \in MCNode |->
    IF n = "nA" THEN [NoCalls EXCEPT !["topic"] = {"nT"}] ELSE NoCalls]
MCParams == [n \in MCNode |-> {}]

MCRoutes   == {"q1", "q2", "q3", "subA", "subB"}
MCServers  == <<"main", "other">>
MCServerOf == [r \in MCRoutes |-> IF r \in {"q2", "q3"} THEN "other" ELSE "main"]
MCEntityOf == [r \in MCRoutes |->
    CASE r = "subA" -> "sA" [] r = "subB" -> "sB" [] OTHER -> "q"]
MCNodeOf   == [r \in MCRoutes \cup {"emit1", "emit2"} |->
    CASE r = "subA" -> "nA" [] r = "subB" -> "nB" [] r = "q3" -> "nQ"
      [] r = "emit1" -> "nE" [] OTHER -> NoNode]
MCClientOf == [e \in {"emit1", "emit2"} |-> "client"]
=============================================================================
