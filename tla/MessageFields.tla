----------------------------- MODULE MessageFields -----------------------------
(***************************************************************************)
(* What becomes of the fields of a message (atom-client/src/               *)
(* serviceBusMessage.ts): they are checked and written to an AMQP message  *)
(* when it is sent, read from it when it is received, and copied to the    *)
(* clone with which the task of the retries sends it again.                *)
(***************************************************************************)
CONSTANTS
    Absent,     \* a field that is null or undefined
    Long,       \* a string beyond the length the library allows
    Forever,    \* maxDurationValue: the message does not expire
    Later       \* the time a retry is scheduled for

\* The fields of a message that can be sent.
Field == {"body", "messageId", "contentType", "correlationId", "partitionKey",
          "viaPartitionKey", "sessionId", "replyToSessionId", "timeToLive", "label",
          "to", "replyTo", "scheduledEnqueueTimeUtc", "userProperties"}

\* The fields whose length is checked.
Sized == {"sessionId", "messageId", "partitionKey", "viaPartitionKey"}

\* What toAmqpMessage throws for.
TooLong(m) == \E f \in Sized : m[f] = Long

\* Where a field travels: in the properties, or in the annotations (x-opt-).
AmqpName ==
    [f \in Field |->
        CASE f = "messageId"        -> "message_id"
          [] f = "contentType"      -> "content_type"
          [] f = "correlationId"    -> "correlation_id"
          [] f = "sessionId"        -> "group_id"
          [] f = "replyToSessionId" -> "reply_to_group_id"
          [] f = "timeToLive"       -> "ttl"
          [] f = "label"            -> "subject"
          [] f = "replyTo"          -> "reply_to"
          [] f = "userProperties"   -> "application_properties"
          [] f = "partitionKey"     -> "x-opt-partition-key"
          [] f = "viaPartitionKey"  -> "x-opt-via-partition-key"
          [] f = "scheduledEnqueueTimeUtc" -> "x-opt-scheduled-enqueue-time"
          [] OTHER -> f]

\* The fields that are written: those that are there, and a lifetime only if it ends.
Written(m) == {f \in Field : /\ f = "body" \/ m[f] # Absent
                             /\ f = "timeToLive" => m[f] # Forever}

\* toAmqpMessage: the lifetime goes with the times it is reckoned from.
ToAmqp(m) ==
    LET names == {AmqpName[f] : f \in Written(m)}
        times == IF "ttl" \in names THEN {"creation_time", "absolute_expiry_time"} ELSE {}
    IN  [n \in names \cup times |->
            IF n \in times THEN "now" ELSE m[CHOOSE f \in Written(m) : AmqpName[f] = n]]

\* The fields fromAmqpMessage reads.
ReadFields == {"body", "userProperties", "contentType", "sessionId", "replyTo", "to",
               "timeToLive", "label", "messageId", "correlationId", "replyToSessionId",
               "partitionKey", "viaPartitionKey", "scheduledEnqueueTimeUtc"}

\* fromAmqpMessage, and the object made of it.
FromAmqp(w) ==
    [f \in Field |-> IF f \in ReadFields /\ AmqpName[f] \in DOMAIN w THEN w[AmqpName[f]] ELSE Absent]

\* Mutant of CloneFields: the clone forgets the session it answers to.
CloneFieldsFew == Field \ {"replyToSessionId"}

\* The fields clone() copies.
CloneFields == {"body", "contentType", "correlationId", "label", "messageId", "partitionKey",
                "replyTo", "replyToSessionId", "scheduledEnqueueTimeUtc", "sessionId",
                "timeToLive", "to", "userProperties", "viaPartitionKey"}

Clone(r) == [f \in Field |-> IF f \in CloneFields THEN r[f] ELSE Absent]

\* The user properties: the keys that are there.
Props(m) == IF m["userProperties"] = Absent THEN {} ELSE m["userProperties"]

\* createBackoffClone: the count among the user properties, and the time of the retry.
BackoffClone(r) ==
    [Clone(r) EXCEPT !["scheduledEnqueueTimeUtc"] = Later,
                     !["userProperties"] = Props(r) \cup {"SB_BACKOFF_RETRY_COUNT"}]

\* A retry of a message says what the message says.
SameButRetry(a, b) ==
    /\ \A f \in Field \ {"scheduledEnqueueTimeUtc", "userProperties", "timeToLive"} : a[f] = b[f]
    /\ a["timeToLive"] = b["timeToLive"] \/ {a["timeToLive"], b["timeToLive"]} = {Forever, Absent}
    /\ Props(a) \ {"SB_BACKOFF_RETRY_COUNT"} = Props(b) \ {"SB_BACKOFF_RETRY_COUNT"}

=============================================================================
