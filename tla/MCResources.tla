----------------------------- MODULE MCResources -----------------------------
\* A group whose client shares its server's connection, with a queue both ways, and
\* one whose client has its own, with a topic and a subscription.
EXTENDS ResourceManager

U(g, k, e, s) == [group |-> g, kind |-> k, entity |-> e, side |-> s]

MCClientOptions == <<"g1", "g2">>
MCServerOptions == <<"g2", "g1">>
MCCredentials   == {"g2"}
MCRoute   == {U("g1", "queue", "q", "rx"), U("g2", "subscription", "s", "rx")}
MCEmitter == {U("g1", "queue", "q", "tx"), U("g2", "topic", "t", "tx")}
=============================================================================
