----------------------------- MODULE AtomManagement -----------------------------
(***************************************************************************)
(* The client of the management service (serviceBusAtomManagementClient.ts,  *)
(* util/atomXmlHelper.ts, and the adapter that the configurator calls it by): *)
(* requests over HTTP that create, get, list, update and delete the queues,    *)
(* topics, subscriptions and rules of a namespace.  An update reads the entity *)
(* before it writes it; several programs do this at once, and an answer may be  *)
(* an error or be lost.                                                      *)
(***************************************************************************)
EXTENDS ResourceFields, SequencesExt

CONSTANTS
    Ask,        \* what is asked: records [op, kind, path, options], see the MC module
    Stores,     \* what the namespace may hold at first
    MaxCalls,   \* bound: calls that are made
    MaxFaults   \* bound: errors of the service, answers that are lost

ASSUME AtomOK == {MaxCalls, MaxFaults} \subseteq Nat /\ MaxCalls > 0

Call == 1..MaxCalls

VARIABLES
    store,      \* store[p]: the entity at path p: [kind, raw]; a path is <<t, s, r>>
    step,       \* step[c]: "idle", "reading", "read", "sending", "answered", "over"
    ask,        \* ask[c]: what is asked
    body,       \* body[c]: what a PUT sends
    answer,     \* answer[c]: [status, subcode, entries]
    result,     \* result[c]: how the call ended: [code, details]
    was,        \* was[c]: was the entity there when its requests were served
    met,        \* the calls whose entity another one changed meanwhile
    faults

atomVars == <<store, step, ask, body, answer, result, was, met, faults>>

NoAsk    == [op |-> "none", kind |-> "queue", path |-> <<>>, options |-> <<>>]
NoAnswer == [status |-> 0, subcode |-> FALSE, entries |-> {}]
NoResult == [code |-> "none", details |-> {}]

AtomInit ==
    /\ store \in Stores
    /\ step = [c \in Call |-> "idle"] /\ ask = [c \in Call |-> NoAsk]
    /\ body = [c \in Call |-> <<>>]
    /\ answer = [c \in Call |-> NoAnswer] /\ result = [c \in Call |-> NoResult]
    /\ was = [c \in Call |-> {}] /\ met = {} /\ faults = 0

-----------------------------------------------------------------------------
\* The operations on each kind of entity.  upsert is the adapter's, which knows
\* whether the entity is new.
Asked(op, kind, path, options) == [op |-> op, kind |-> kind, path |-> path, options |-> options]
Upsert(kind, path, options, isNew) ==
    Asked(IF isNew THEN "create" ELSE "update", kind, path, options)

QueueRequests(q, options) ==
    {Upsert("queue", <<q>>, options, isNew) : isNew \in BOOLEAN} \cup
    {Asked("get", "queue", <<q>>, <<>>), Asked("delete", "queue", <<q>>, <<>>),
     Asked("list", "queue", <<>>, <<>>)}
TopicRequests(t, options) ==
    {Upsert("topic", <<t>>, options, isNew) : isNew \in BOOLEAN} \cup
    {Asked("get", "topic", <<t>>, <<>>), Asked("delete", "topic", <<t>>, <<>>),
     Asked("list", "topic", <<>>, <<>>)}
SubscriptionRequests(t, s, options) ==
    {Upsert("subscription", <<t, s>>, options, isNew) : isNew \in BOOLEAN} \cup
    {Asked("get", "subscription", <<t, s>>, <<>>), Asked("list", "subscription", <<t>>, <<>>),
     Asked("delete", "subscription", <<t, s>>, <<>>)}
RuleRequests(t, s, r, options) ==
    {Upsert("rule", <<t, s, r>>, options, isNew) : isNew \in BOOLEAN} \cup
    {Asked("get", "rule", <<t, s, r>>, <<>>), Asked("list", "rule", <<t, s>>, <<>>),
     Asked("delete", "rule", <<t, s, r>>, <<>>)}

-----------------------------------------------------------------------------
\* putResource: what is forwarded to goes by its URL.
IsAbsoluteUrl(url) == url[1] = "sb://"

\* Mutant of Absolute: the URL is made absolute each time.
AbsoluteAgain(url) == <<"sb://">> \o url

Absolute(url) == IF IsAbsoluteUrl(url) THEN url ELSE <<"sb://">> \o url
Forwards == {"forwardTo", "forwardDeadLetteredMessagesTo"}
PutResource(fields) ==
    [f \in DOMAIN fields |-> IF f \in Forwards THEN Absolute(fields[f]) ELSE fields[f]]

\* A name, or a URL: the scheme comes first, and once.
IsTarget(url) ==
    /\ url \in Seq(Range(url)) /\ Len(url) > (IF IsAbsoluteUrl(url) THEN 1 ELSE 0)
    /\ \A k \in 2..Len(url) : url[k] # "sb://"
IsUrl(url) == IsTarget(url) /\ IsAbsoluteUrl(url)

\* Rules of authorization; and a value as a namespace keeps it: one that was written.
IsRules(v) == v \in STRING \X Seq([rights : Seq(STRING)])
IsStored(f, v) ==
    /\ v # Undefined
    /\ f = "authorizationRules" =>
          v # Default /\ IsRules(Read(f, v)) /\ Written(f, Read(f, v)) = v

\* What is in the namespace at first was put there by such requests.
ASSUME InputsOK ==
    /\ \A a \in Ask : /\ a.kind \in Kind /\ a.op \in {"create", "update", "get", "list", "delete"}
                      /\ \A f \in Forwards \cap DOMAIN a.options : IsTarget(a.options[f])
                      /\ "authorizationRules" \in Defined(a.options)
                            => IsRules(a.options["authorizationRules"])
    /\ \A s \in Stores :
          /\ IsFiniteSet(DOMAIN s)
          /\ \A p \in DOMAIN s :
                /\ s[p].kind \in Kind /\ DOMAIN s[p].raw \subseteq OptionsOf[s[p].kind]
                /\ \A f \in Forwards \cap DOMAIN s[p].raw : IsUrl(s[p].raw[f])
                /\ \A f \in DOMAIN s[p].raw : IsStored(f, s[p].raw[f])

GoTo(c, s) == step' = [step EXCEPT ![c] = s]

\* Which calls read before they write: a rule is replaced as a whole.
ReadsFirst(a) == a.op = "update" /\ a.kind # "rule"

Begin(c, a) ==
    /\ step[c] = "idle" /\ \A d \in Call : d < c => step[d] # "idle"
    /\ ask' = [ask EXCEPT ![c] = a]
    /\ body' = [body EXCEPT ![c] =
           IF a.op \in {"create", "update"} /\ ~ReadsFirst(a)
           THEN PutResource(BuildOptions(a.kind, a.options)) ELSE <<>>]
    /\ GoTo(c, IF ReadsFirst(a) THEN "reading" ELSE "sending")
    /\ UNCHANGED <<store, answer, result, was, met, faults>>

-----------------------------------------------------------------------------
\* The service, as the client uses it.
Exists(p)    == p \in DOMAIN store
Parent(p)    == SubSeq(p, 1, Len(p) - 1)
HasParent(p) == Len(p) = 1 \/ Exists(Parent(p))
Below(p)     == {q \in DOMAIN store : IsPrefix(p, q)}
Children(kind, p) ==
    {q \in Below(p) : Len(q) = Len(p) + 1 /\ store[q].kind = kind}

\* What the service shows of an entity: a required field that was not set has its
\* default.  kind is what the entity is, which the answer does not say.
Shown(p, e) ==
    [path |-> p, kind |-> e.kind,
     raw  |-> [f \in DOMAIN e.raw \cup (RequiredOf[e.kind] \ NameProperties[e.kind]) \cup
                     (IF e.kind = "queue" THEN {"supportOrdering"} ELSE {})
                 |-> IF f \in DOMAIN e.raw THEN e.raw[f] ELSE Default]]

Answered(c, status, entries) ==
    answer' = [answer EXCEPT ![c] = [status |-> status, subcode |-> FALSE, entries |-> entries]]

Seen(c) == was' = [was EXCEPT ![c] = @ \cup {Exists(ask[c].path)}]

\* Another call on the entity, or on what it is part of, is disturbed.
Disturbs(c, p) ==
    met' = met \cup {d \in Call \ {c} : step[d] \in {"read", "sending"}
                        /\ IsPrefix(p, ask[d].path)}

Found(c) == IF Exists(ask[c].path) THEN {Shown(ask[c].path, store[ask[c].path])} ELSE {}

ServeRead(c) ==
    /\ step[c] = "reading" /\ GoTo(c, "read")
    /\ Seen(c) /\ Answered(c, 200, Found(c))
    /\ UNCHANGED <<store, ask, body, result, met, faults>>

ServePut(c, a, e) ==
    /\ store' = [q \in DOMAIN store \cup {a.path} |-> IF q = a.path THEN e ELSE store[q]]
    /\ Disturbs(c, a.path)
    /\ Answered(c, 200, {Shown(a.path, e)})

Serve(c) ==
    LET a == ask[c] p == a.path IN
    /\ step[c] = "sending" /\ GoTo(c, "answered")
    /\ Seen(c)
    /\ UNCHANGED <<ask, body, result, faults>>
    /\ \/ /\ a.op = "get" /\ Answered(c, 200, Found(c))
          /\ UNCHANGED <<store, met>>
       \/ /\ a.op = "list"
          /\ Answered(c, 200, {Shown(q, store[q]) : q \in Children(a.kind, p)})
          /\ UNCHANGED <<store, met>>
       \/ /\ a.op = "create" /\ ~Exists(p) /\ HasParent(p)
          /\ ServePut(c, a, [kind |-> a.kind, raw |-> body[c]])
       \/ /\ a.op = "update" /\ Exists(p) /\ store[p].kind = a.kind
          /\ ServePut(c, a, [kind |-> a.kind, raw |-> body[c]])
       \/ /\ a.op = "delete" /\ Exists(p)
          /\ store' = [q \in DOMAIN store \ Below(p) |-> store[q]]
          /\ Disturbs(c, p) /\ Answered(c, 200, {})
       \/ /\ a.op = "create" /\ Exists(p)
          /\ Answered(c, 409, {}) /\ UNCHANGED <<store, met>>
       \/ /\ a.op = "update" /\ Exists(p) /\ store[p].kind # a.kind
          /\ Answered(c, 400, {}) /\ UNCHANGED <<store, met>>
       \/ /\ a.op \in {"create", "update", "delete"} /\ ~Exists(p)
          /\ a.op = "create" => ~HasParent(p)
          /\ Answered(c, 404, {}) /\ UNCHANGED <<store, met>>

\* The service refuses a request; a text in the answer says more of a 403 or a 409.
\* Only a request that writes can be in conflict with another.
Refusals(a, writes) ==
    {<<401, FALSE>>, <<403, TRUE>>, <<403, FALSE>>, <<503, FALSE>>, <<599, FALSE>>} \cup
    (IF writes THEN {<<409, TRUE>>} ELSE {}) \cup
    (IF writes /\ a.op \in {"update", "delete"} THEN {<<409, FALSE>>} ELSE {})

Refuse(c) ==
    /\ step[c] \in {"reading", "sending"} /\ faults < MaxFaults /\ faults' = faults + 1
    /\ \E r \in Refusals(ask[c], step[c] = "sending" /\ ask[c].op \notin {"get", "list"}) :
          answer' = [answer EXCEPT ![c] = [status |-> r[1], subcode |-> r[2], entries |-> {}]]
    /\ GoTo(c, IF step[c] = "reading" THEN "read" ELSE "answered")
    /\ UNCHANGED <<store, ask, body, result, was, met>>

-----------------------------------------------------------------------------
\* parseFeedResult: the feed of one entry is not a list.
ParseFeed(entries) == Range(Unlisted(Listed(SetToSeq(entries))))

\* setName, by the kind that was asked for.
Named(kind, raw) ==
    [f \in NameProperties[kind] \cup DOMAIN raw |-> IF f \in DOMAIN raw THEN raw[f] ELSE Default]

\* getErrorCode, buildError.
IsKnown(status) == status \in {400, 401, 403, 404, 409, 503}

\* Mutant of ConflictCode: every conflict is with an entity that exists.
ConflictExists(a, subcode) == "MessageEntityAlreadyExistsError"

ConflictCode(a, subcode) ==
    IF a.op \in {"delete", "update"} \/ subcode THEN "ServiceError"
    ELSE "MessageEntityAlreadyExistsError"
ErrorCode(a, status, subcode) ==
    IF ~IsKnown(status) THEN "ServiceError"
    ELSE IF status = 401 THEN "UnauthorizedRequestError"
    ELSE IF status = 404 THEN "MessageEntityNotFoundError"
    ELSE IF status = 409 THEN ConflictCode(a, subcode)
    ELSE IF status = 403
    THEN IF subcode THEN "InvalidOperationError" ELSE "QuotaExceededError"
    ELSE IF status = 400 THEN "ServiceError" ELSE "ServerBusyError"

\* executeAtomXmlOperation and what is done with the parsed answer: getResource takes
\* an empty one for an entity that is not there, and a description that lacks a field
\* is an error.
Failed(code)   == [code |-> code, details |-> {}]
Incomplete(a, entries) == \E e \in entries : Missing(a.kind, Named(a.kind, e.raw)) # {}
Descriptions(a, entries) ==
    {[path |-> e.path, kind |-> e.kind, fields |-> Build(a.kind, Named(a.kind, e.raw))] : e \in entries}
Outcome(a, ans, reads) ==
    IF ans.status # 200 THEN Failed(ErrorCode(a, ans.status, ans.subcode))
    ELSE IF reads /\ ans.entries = {} THEN Failed("MessageEntityNotFoundError")
    ELSE IF Incomplete(a, ParseFeed(ans.entries)) THEN Failed("PARSE_ERROR")
    ELSE [code |-> "ok", details |-> Descriptions(a, ParseFeed(ans.entries))]

End(c, r) ==
    /\ result' = [result EXCEPT ![c] = r]
    /\ GoTo(c, "over")
    /\ UNCHANGED body

\* The entity was read: the options are put over what it is, and sent.
Updated(a, details) ==
    PutResource(BuildOptions(a.kind, Merged((CHOOSE d \in details : TRUE).fields, a.options)))

HasRead(c) ==
    LET r == Outcome(ask[c], answer[c], TRUE) IN
    /\ step[c] = "read"
    /\ IF r.code # "ok" THEN End(c, r)
       ELSE /\ body' = [body EXCEPT ![c] = Updated(ask[c], r.details)]
            /\ GoTo(c, "sending") /\ UNCHANGED result
    /\ UNCHANGED <<store, ask, answer, was, met, faults>>

Ends(c) ==
    /\ step[c] = "answered"
    /\ End(c, Outcome(ask[c], answer[c], ask[c].op = "get"))
    /\ UNCHANGED <<store, ask, answer, was, met, faults>>

\* The request or its answer is lost: the client does not know what happened.
Lost(c) ==
    /\ step[c] \in {"reading", "read", "sending", "answered"}
    /\ faults < MaxFaults /\ faults' = faults + 1
    /\ End(c, Failed("REQUEST_SEND_ERROR"))
    /\ UNCHANGED <<store, ask, answer, was, met>>

AtomNext ==
    \E c \in Call :
        \/ \E a \in Ask : Begin(c, a)
        \/ ServeRead(c) \/ Serve(c) \/ Refuse(c) \/ HasRead(c) \/ Ends(c) \/ Lost(c)

AtomSpec == AtomInit /\ [][AtomNext]_atomVars

-----------------------------------------------------------------------------
\* The value of a field as the client sees it.
Value(e, f) ==
    IF f \in DOMAIN e.raw THEN Read(f, e.raw[f])
    ELSE IF f \in RequiredOf[e.kind] THEN Default ELSE Undefined

\* What an update should leave in a field.
Wanted(a, e, f) ==
    IF f \notin DOMAIN a.options THEN Value(e, f)
    ELSE IF a.options[f] = Undefined THEN IF f \in RequiredOf[e.kind] THEN Default ELSE Undefined
    ELSE IF f \in Forwards THEN Absolute(a.options[f]) ELSE a.options[f]

Updates(c, kinds) ==
    /\ step[c] = "sending" /\ step'[c] = "answered" /\ answer'[c].status = 200
    /\ ask[c].op = "update" /\ ask[c].kind \in kinds /\ c \notin met

Exact(c) == LET a == ask[c] IN \A f \in OptionsOf[a.kind] :
    Value(store'[a.path], f) = Wanted(a, store[a.path], f)

(* An update that meets no other writer changes the options it is given and no     *)
(* other: every field survives being read, built, merged and written again         *)
(* (serializers/*, updateQueue, updateTopic, updateSubscription).                   *)
UpdateIsExact == [][\A c \in Call : Updates(c, Kind \ {"rule"}) => Exact(c)]_atomVars

(* A call ends with "not found" only when the entity was absent when one of its    *)
(* requests was served, and with "already exists" only when a create met one: not   *)
(* for conflicts with other operations (getErrorCode, getResource).                 *)
VerdictIsHonest ==
    \A c \in Call :
        /\ result[c].code = "MessageEntityNotFoundError" => FALSE \in was[c]
        /\ result[c].code = "MessageEntityAlreadyExistsError" =>
              ask[c].op = "create" /\ TRUE \in was[c]

(* What is described as a queue, a subscription or a rule is one: the path of a     *)
(* topic can be asked for as a queue, and its description lacks what a queue has.   *)
KindIsRight ==
    \A c \in Call : ask[c].kind # "topic" => \A d \in result[c].details : d.kind = ask[c].kind

(* The entities that messages are forwarded to go by one absolute URL, however often *)
(* the entity is read and written again (putResource).                               *)
ForwardsAreUrls ==
    \A p \in DOMAIN store : \A f \in Forwards \cap DOMAIN store[p].raw :
        ~IsAbsoluteUrl(Tail(store[p].raw[f]))

(* What updateRule says (serviceBusAtomManagementClient.ts:1021): properties of the *)
(* rule are updated, based on the given options.                                    *)
RuleUpdateIsExact == [][\A c \in Call : Updates(c, {"rule"}) => Exact(c)]_atomVars
=============================================================================
