-------------------------------- MODULE MCAtom --------------------------------
\* A namespace with a queue, a topic, a subscription and a rule, or nothing, and two
\* calls at a time: every field is set or kept in some of them.
EXTENDS AtomManagement

\* A value for a field.
Sql(x)  == <<"sql", [expression |-> x, parameters |-> <<"int">>]>>
Some(f) ==
    CASE f \in Forwards -> <<"peer">>
      [] f = "authorizationRules" -> <<"rules", <<[rights |-> <<"Send">>]>>>>
      [] f = "filter" -> Sql("size > 3")
      [] f = "action" -> Sql("SET size = 1")
      [] OTHER -> <<"set">>

\* One field is given, or all that a value passes through unchanged, or one without a
\* value.
Converted == Forwards \cup {"authorizationRules", "filter", "action"}
Given(fields) == [f \in fields |-> Some(f)]
Options(kind) ==
    {Given({f}) : f \in OptionsOf[kind] \cap Converted} \cup
    {Given(OptionsOf[kind] \ Converted)} \cup
    {[f \in {"userMetadata"} \cap OptionsOf[kind] |-> Undefined]}

MCAsk ==
    UNION {QueueRequests("q", o) : o \in Options("queue")} \cup
    UNION {TopicRequests("t", o) : o \in Options("topic")} \cup
    UNION {SubscriptionRequests("t", "s", o) : o \in Options("subscription")} \cup
    UNION {RuleRequests("t", "s", "r", o) : o \in Options("rule")} \cup
    {Asked("get", "queue", <<"t">>, <<>>), Asked("get", "topic", <<"q">>, <<>>)}

Stored(kind, o) == [kind |-> kind, raw |-> PutResource(BuildOptions(kind, o))]
Namespace(o) ==
    [p \in {<<"q">>, <<"t">>, <<"t", "s">>, <<"t", "s", "r">>} |->
        LET k == IF p = <<"q">> THEN "queue"
                 ELSE <<"topic", "subscription", "rule">>[Len(p)]
        IN Stored(k, o[k])]

MCStores ==
    {[p \in {} |-> 0], Namespace([k \in Kind |-> <<>>]), Namespace([k \in Kind |-> Given(OptionsOf[k])])}
=============================================================================
