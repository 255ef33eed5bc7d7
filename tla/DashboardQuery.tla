--------------------------- MODULE DashboardQuery ---------------------------
(***************************************************************************)
(* Which snapshot a poll of the dashboard is answered with: the canonical  *)
(* form of its query string and the cache key, in                          *)
(* src/middleware/dashboard.cache.ts.  DashboardCache has the time and the *)
(* races; here polls run one after the other and what matters is what they *)
(* ask for.                                                                *)
(*                                                                         *)
(* A query gives every parameter the sequence of values it was sent with.  *)
(* A number was sent as a text, of which only two things matter: what      *)
(* Number() makes of it, and that several texts make the same number.      *)
(***************************************************************************)
EXTENDS Integers, Sequences

CONSTANTS
    QueueName,         \* registeredQueueNames
    UnknownText,       \* texts that are neither queue names nor statuses
    AllowedStatus,     \* ALLOWED_STATUSES
    NotText,           \* a nested parameter: neither a string nor a list of them
    Undefined,         \* JavaScript's undefined
    NaN,               \* Number() of a text that is no integer
    MaxPage,           \* MAX_PAGE
    MaxJobsPerPage,    \* MAX_JOBS_PER_PAGE
    DefaultJobsPerPage,\* DEFAULT_JOBS_PER_PAGE
    Number,            \* bound: what the numbers sent can be
    MaxPolls           \* bound: polls between two expiries

Spelling == {"plain", "other"}
Text(n)  == [number |-> n, spelling |-> "plain"]
NumberText == [number : Number, spelling : Spelling]

\* The query strings clients send; the last one repeats a parameter.
NameQuery(names) == {<<>>, <<NotText>>} \union {<<t>> : t \in names \union UnknownText}
NumberQuery == {<<>>} \union {<<t>> : t \in NumberText} \union {<<Text(n), Text(n)>> : n \in Number}

Query == [activeQueue : NameQuery(QueueName), status : NameQuery(AllowedStatus),
          page : NumberQuery, jobsPerPage : NumberQuery]

ASSUME ParameterAssumption ==
    /\ {MaxPage, MaxJobsPerPage, DefaultJobsPerPage, MaxPolls} \subseteq Nat \ {0}
    /\ DefaultJobsPerPage <= MaxJobsPerPage
    /\ Number \subseteq Int \union {NaN}
    /\ NaN \notin Int
    /\ NotText \notin QueueName \union AllowedStatus \union UnknownText
    /\ Undefined \notin QueueName \union AllowedStatus \union UnknownText
    /\ UnknownText \intersect (QueueName \union AllowedStatus) = {}
    /\ NotText \notin [number : Int \union {NaN}, spelling : Spelling]
    /\ Undefined \notin [number : Int \union {NaN}, spelling : Spelling]

VARIABLES
    snapshots,  \* snapshotCache: a function from the keys it holds to bodies
    served,     \* ghost: the last poll since the last expiry, and its answer
    polls       \* bound: polls since the last expiry

vars == <<snapshots, served, polls>>

-----------------------------------------------------------------------------
(* canonicalizeQuery and buildSnapshotKey.                                 *)

FirstValue(values) ==
    IF values # <<>> /\ values[1] # NotText THEN values[1] ELSE Undefined

ToNumber(text) == IF text = Undefined THEN NaN ELSE text.number

\* Slip: page sizes snapped to the default instead of clamped to a range.
ClampIntSnapped(text, min, max, fallback) ==
    IF ToNumber(text) = min THEN min ELSE fallback

ClampInt(text, min, max, fallback) ==
    IF ToNumber(text) \in min .. max THEN ToNumber(text) ELSE fallback

\* A recognised name is echoed, any other dropped.
Recognised(values, names) ==
    IF FirstValue(values) \in names THEN <<FirstValue(values)>> ELSE <<>>

CanonicalizeQuery(query) ==
    [activeQueue |-> Recognised(query.activeQueue, QueueName),
     status      |-> Recognised(query.status, AllowedStatus),
     page        |-> <<Text(ClampInt(FirstValue(query.page), 1, MaxPage, 1))>>,
     jobsPerPage |-> <<Text(ClampInt(FirstValue(query.jobsPerPage),
                                     1, MaxJobsPerPage, DefaultJobsPerPage))>>]

\* The key spells the four canonical values out, separated; one that is absent
\* is the empty text.
BuildSnapshotKey(canonical) ==
    <<canonical.activeQueue, canonical.status, canonical.page, canonical.jobsPerPage>>

\* Slips: the key of what was sent, and the rewriting of req.query left out.
SnapshotKeyOfSent(query) ==
    <<Recognised(query.activeQueue, QueueName), Recognised(query.status, AllowedStatus),
      query.page, query.jobsPerPage>>
RewrittenNot(query) == query

SnapshotKey(query) == BuildSnapshotKey(CanonicalizeQuery(query))

\* req.query as Bull Board's adapter will read it.
Rewritten(query) == CanonicalizeQuery(query)

-----------------------------------------------------------------------------
(* Bull Board's handler reads these four parameters and no other: a        *)
(* non-zero number counts as it is, anything else as the default.          *)

BoardNumber(values, default) ==
    IF Len(values) = 1 /\ values[1].number \in Int \ {0}
    THEN values[1].number ELSE default

BoardView(query) ==
    [activeQueue |-> FirstValue(query.activeQueue),
     status      |-> FirstValue(query.status),
     page        |-> BoardNumber(query.page, 1),
     jobsPerPage |-> BoardNumber(query.jobsPerPage, DefaultJobsPerPage)]

-----------------------------------------------------------------------------
NoAnswer == [query |-> Undefined, body |-> Undefined]

Init ==
    /\ snapshots = <<>>
    /\ served = NoAnswer
    /\ polls = 0

Poll(query) ==
    /\ polls < MaxPolls
    /\ polls' = polls + 1

\* The snapshot is there and current.
Hit(query) ==
    /\ Poll(query)
    /\ SnapshotKey(query) \in DOMAIN snapshots
    /\ served' = [query |-> query, body |-> snapshots[SnapshotKey(query)]]
    /\ UNCHANGED snapshots

\* The board is asked, and its answer cached under the key of the poll.
Miss(query) ==
    LET body == BoardView(Rewritten(query)) IN
    /\ Poll(query)
    /\ SnapshotKey(query) \notin DOMAIN snapshots
    /\ snapshots' = [key \in DOMAIN snapshots \union {SnapshotKey(query)} |->
                        IF key \in DOMAIN snapshots THEN snapshots[key] ELSE body]
    /\ served' = [query |-> query, body |-> body]

\* The TTL, or an invalidation.
Expire ==
    /\ polls > 0
    /\ snapshots' = <<>>
    /\ served' = NoAnswer
    /\ polls' = 0

Next ==
    \/ \E query \in Query : Hit(query) \/ Miss(query)
    \/ Expire

Spec == Init /\ [][Next]_vars

-----------------------------------------------------------------------------
(* Properties.                                                             *)

Answered == served.query # Undefined

\* However polls are mixed, a poll is answered with the view its own canonical
\* query names, never with one cached for somebody else's out-of-range page
\* (dashboard.cache.ts:37).
ServedOwnView == Answered => served.body = BoardView(CanonicalizeQuery(served.query))

\* The queries a visitor of the board's own interface sends, within its limits.
WithinLimits(query) ==
    /\ \A t \in {query.activeQueue, query.status} : t # <<NotText>>
    /\ query.activeQueue \notin {<<t>> : t \in UnknownText}
    /\ query.status \notin {<<t>> : t \in UnknownText}
    /\ Len(query.page) = 1 /\ query.page[1].number \in 1 .. MaxPage
    /\ Len(query.jobsPerPage) = 1 /\ query.jobsPerPage[1].number \in 1 .. MaxJobsPerPage

\* Such a visitor sees exactly what Bull Board alone would have shown: one who
\* chooses 15 per page gets 15 (dashboard.cache.ts:121).
VisitorSeesWhatWasAsked ==
    Answered /\ WithinLimits(served.query) => served.body = BoardView(served.query)

\* No way of writing a query costs a second rebuild of a view already cached:
\* one key per distinct view (dashboard.cache.ts:29, 201).
OneSnapshotPerView ==
    \A k1, k2 \in DOMAIN snapshots : snapshots[k1] = snapshots[k2] => k1 = k2

=============================================================================
