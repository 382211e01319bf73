----------------------------- MODULE ResourceFields -----------------------------
(***************************************************************************)
(* What a queue, a topic, a subscription and a rule consist of, and how the  *)
(* management client writes and reads them (serializers/*, util/utils.ts,     *)
(* util/atomXmlHelper.ts).  A description is a function from the fields that   *)
(* are defined to their values; a value is a tuple, and texts are members of   *)
(* a small set.                                                              *)
(***************************************************************************)
EXTENDS Naturals, Sequences, FiniteSets

Default   == <<"default">>      \* what the service gives a field that is not set
Undefined == <<"undefined">>    \* a field that an option names without a value

-----------------------------------------------------------------------------
\* Queues: what can be set, what a description must have and what it may have.
QueueOptions ==
    {"lockDuration", "maxSizeInMegabytes", "requiresDuplicateDetection", "requiresSession",
     "defaultMessageTtl", "deadLetteringOnMessageExpiration",
     "duplicateDetectionHistoryTimeWindow", "maxDeliveryCount", "enableBatchedOperations",
     "authorizationRules", "status", "forwardTo", "userMetadata", "autoDeleteOnIdle",
     "enablePartitioning", "forwardDeadLetteredMessagesTo"}

QueueRequired ==
    {"queueName", "lockDuration", "maxSizeInMegabytes", "maxDeliveryCount",
     "enablePartitioning", "requiresSession", "enableBatchedOperations", "defaultMessageTtl",
     "requiresDuplicateDetection", "duplicateDetectionHistoryTimeWindow",
     "deadLetteringOnMessageExpiration"}

QueueDetails == QueueRequired \cup
    {"forwardTo", "userMetadata", "sizeInBytes", "messageCount", "autoDeleteOnIdle",
     "forwardDeadLetteredMessagesTo", "messageCountDetails", "supportOrdering",
     "enableExpress", "authorizationRules", "isAnonymousAccessible",
     "entityAvailabilityStatus", "status", "createdOn", "updatedOn", "accessedOn"}

-----------------------------------------------------------------------------
\* Topics.
TopicOptions ==
    {"defaultMessageTtl", "maxSizeInMegabytes", "requiresDuplicateDetection",
     "duplicateDetectionHistoryTimeWindow", "enableBatchedOperations", "authorizationRules",
     "status", "userMetadata", "supportOrdering", "autoDeleteOnIdle", "enablePartitioning"}

TopicRequired ==
    {"topicName", "maxSizeInMegabytes", "enablePartitioning", "supportOrdering",
     "enableBatchedOperations", "defaultMessageTtl", "requiresDuplicateDetection",
     "duplicateDetectionHistoryTimeWindow"}

TopicDetails == TopicRequired \cup
    {"sizeInBytes", "messageCount", "maxDeliveryCount", "subscriptionCount",
     "autoDeleteOnIdle", "filteringMessagesBeforePublishing",
     "enableSubscriptionPartitioning", "messageCountDetails", "isExpress", "enableExpress",
     "authorizationRules", "isAnonymousAccessible", "userMetadata",
     "entityAvailabilityStatus", "status", "createdOn", "updatedOn", "accessedOn"}

-----------------------------------------------------------------------------
\* Subscriptions.
SubscriptionOptions ==
    {"lockDuration", "requiresSession", "defaultMessageTtl",
     "deadLetteringOnMessageExpiration", "deadLetteringOnFilterEvaluationExceptions",
     "maxDeliveryCount", "enableBatchedOperations", "status", "forwardTo", "userMetadata",
     "forwardDeadLetteredMessagesTo", "autoDeleteOnIdle"}

SubscriptionRequired ==
    {"subscriptionName", "topicName", "lockDuration", "messageCount", "maxDeliveryCount",
     "requiresSession", "enableBatchedOperations", "defaultMessageTtl", "autoDeleteOnIdle",
     "deadLetteringOnMessageExpiration", "deadLetteringOnFilterEvaluationExceptions",
     "entityAvailabilityStatus", "status", "createdOn", "updatedOn"}

SubscriptionDetails == SubscriptionRequired \cup
    {"sizeInBytes", "maxSizeInMegabytes", "enablePartitioning",
     "forwardDeadLetteredMessagesTo", "defaultRuleDescription", "messageCountDetails",
     "forwardTo", "userMetadata", "accessedOn"}

-----------------------------------------------------------------------------
\* Rules: a filter, on an SQL expression or on properties, and an action.
RuleOptions  == {"filter", "action"}
RuleRequired == {"ruleName", "topicName", "subscriptionName", "filter", "createdOn"}
RuleDetails  == RuleRequired \cup {"action"}

OptionsOf  == [queue |-> QueueOptions, topic |-> TopicOptions,
               subscription |-> SubscriptionOptions, rule |-> RuleOptions]
RequiredOf == [queue |-> QueueRequired, topic |-> TopicRequired,
               subscription |-> SubscriptionRequired, rule |-> RuleRequired]
DetailsOf  == [queue |-> QueueDetails, topic |-> TopicDetails,
               subscription |-> SubscriptionDetails, rule |-> RuleDetails]
Kind == DOMAIN OptionsOf

\* setName: the fields that come from the path.
NameProperties == [queue |-> {"queueName"}, topic |-> {"topicName"},
                   subscription |-> {"topicName", "subscriptionName"},
                   rule |-> {"topicName", "subscriptionName", "ruleName"}]

-----------------------------------------------------------------------------
Defined(o) == {f \in DOMAIN o : o[f] # Undefined}

\* Mutant of Merged: the options replace what was read.
MergedNothing(got, options) == options

\* Object.assign({}, got, options): an option wins even when it is undefined.
Merged(got, options) ==
    [f \in DOMAIN got \cup DOMAIN options |-> IF f \in DOMAIN options THEN options[f] ELSE got[f]]

\* A list in XML: one element does not come back as a list of one.
Listed(list) == IF Len(list) = 1 THEN [many |-> FALSE, element |-> list[1]]
                ELSE [many |-> TRUE, element |-> list]
Unlisted(x)  == IF x.many THEN x.element ELSE <<x.element>>

\* The rules of authorization, written and read: each has its access rights.
RawAuthorizationRules(rules) ==
    Listed([i \in DOMAIN rules |-> [rights |-> Listed(rules[i].rights)]])
AuthorizationRulesOf(raw) ==
    LET rules == Unlisted(raw) IN [i \in DOMAIN rules |-> [rights |-> Unlisted(rules[i].rights)]]

\* The parameters of an SQL expression, which has none when they are not defined.
RawSqlParameters(parameters) == Listed(parameters)
SqlParametersOf(raw)         == Unlisted(raw)
RawSql(e) == [e EXCEPT !.parameters = RawSqlParameters(@)]
SqlOf(e)  == [e EXCEPT !.parameters = SqlParametersOf(@)]

\* A rule without a filter gets one that is always true, one without an action an empty
\* one: <<what, of what>>.
AlwaysTrue  == <<"sql", [expression |-> "1=1", parameters |-> <<>>]>>
EmptyAction == <<"sql", [expression |-> "", parameters |-> <<>>]>>
RuleOf(o) ==
    [filter |-> IF "filter" \in Defined(o) THEN o["filter"] ELSE AlwaysTrue,
     action |-> IF "action" \in Defined(o) THEN o["action"] ELSE EmptyAction]

\* A filter by properties: its user properties are written under one name, and looked
\* for under another.
CorrelationFilterOf(e) == [e EXCEPT !.userProperties = "undefined"]

-----------------------------------------------------------------------------
\* The value of a field as it is written, and as it is read.
Written(f, v) ==
    IF f = "authorizationRules" THEN <<v[1], RawAuthorizationRules(v[2])>>
    ELSE IF f \in {"filter", "action"} /\ v[1] = "sql" THEN <<v[1], RawSql(v[2])>>
    ELSE v
Read(f, v) ==
    IF f = "authorizationRules" /\ v # Default THEN <<v[1], AuthorizationRulesOf(v[2])>>
    ELSE IF f \in {"filter", "action"}
    THEN <<v[1], IF v[1] = "sql" THEN SqlOf(v[2]) ELSE CorrelationFilterOf(v[2])>>
    ELSE v

\* buildXOptions, and the serializer: what is not defined is not sent.
BuildOptions(kind, o) ==
    LET given == IF kind = "rule" THEN RuleOf(o) ELSE o
    IN [f \in Defined(given) \cap OptionsOf[kind] |-> Written(f, given[f])]

\* Mutant of Missing: fields are not required.
MissingNever(kind, raw) == {}

\* buildX: getString, getInteger and getBoolean throw when a field is missing.
Missing(kind, raw) == RequiredOf[kind] \ DOMAIN raw
Build(kind, raw)   == [f \in DetailsOf[kind] \cap DOMAIN raw |-> Read(f, raw[f])]
=============================================================================
