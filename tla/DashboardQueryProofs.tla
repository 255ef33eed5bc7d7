------------------------ MODULE DashboardQueryProofs -------------------------
(***************************************************************************)
(* Theorems about DashboardQuery, for any queue names, statuses, texts and *)
(* numbers, and any limits.                                                *)
(***************************************************************************)
EXTENDS DashboardQuery, TLAPS

-----------------------------------------------------------------------------
(* What the helpers return.                                                *)

LEMMA RecognisedIs ==
  ASSUME NEW values, NEW names \in {QueueName, AllowedStatus}
  PROVE  /\ \/ Recognised(values, names) = <<>>
            \/ \E t \in names : Recognised(values, names) = <<t>>
         /\ FirstValue(<<>>) = Undefined /\ Undefined \notin names
         /\ \A t \in names : FirstValue(<<t>>) = t /\ t # Undefined
  <1>1. Undefined \notin names /\ NotText \notin names
    BY ParameterAssumption
  <1>2. \A t \in names : <<t>> # <<>> /\ <<t>>[1] = t
    OBVIOUS
  <1> QED BY <1>1, <1>2 DEF Recognised, FirstValue

\* A recognised parameter reads the same as what it was recognised from.
LEMMA RecognisedTwice ==
  ASSUME NEW values, NEW names \in {QueueName, AllowedStatus}
  PROVE  Recognised(Recognised(values, names), names) = Recognised(values, names)
  <1>1. CASE Recognised(values, names) = <<>>
    BY <1>1, RecognisedIs DEF Recognised
  <1>2. ASSUME NEW t \in names, Recognised(values, names) = <<t>>
        PROVE  Recognised(<<t>>, names) = <<t>>
    BY RecognisedIs DEF Recognised
  <1> QED BY <1>1, <1>2, RecognisedIs

LEMMA RecognisedTells ==
  ASSUME NEW v, NEW w, NEW names \in {QueueName, AllowedStatus},
         FirstValue(Recognised(v, names)) = FirstValue(Recognised(w, names))
  PROVE  Recognised(v, names) = Recognised(w, names)
  <1>1. \/ Recognised(v, names) = <<>>
        \/ \E t \in names : Recognised(v, names) = <<t>>
    BY RecognisedIs
  <1>2. \/ Recognised(w, names) = <<>>
        \/ \E t \in names : Recognised(w, names) = <<t>>
    BY RecognisedIs
  <1>3. /\ FirstValue(<<>>) = Undefined
        /\ \A t \in names : FirstValue(<<t>>) = t /\ t # Undefined
    BY RecognisedIs
  <1> QED BY <1>1, <1>2, <1>3

\* Clamping ends in range, so Bull Board takes the number for what it is.
LEMMA ClampInRange ==
  ASSUME NEW text, NEW max \in Nat, NEW fallback \in 1 .. max
  PROVE  ClampInt(text, 1, max, fallback) \in 1 .. max
  BY DEF ClampInt

LEMMA BoardReads ==
  ASSUME NEW n \in Nat \ {0}, NEW default
  PROVE  BoardNumber(<<Text(n)>>, default) = n
  BY DEF BoardNumber, Text

LEMMA TextReads ==
  ASSUME NEW n \in Int
  PROVE  FirstValue(<<Text(n)>>) = Text(n) /\ ToNumber(Text(n)) = n
  <1>1. Text(n) \in [number : Int \union {NaN}, spelling : Spelling]
    BY DEF Text, Spelling
  <1>2. Text(n) # NotText /\ Text(n) # Undefined
    BY <1>1, ParameterAssumption
  <1> QED BY <1>2 DEF FirstValue, ToNumber, Text

LEMMA Limits ==
  /\ MaxPage \in Nat \ {0} /\ 1 \in 1 .. MaxPage
  /\ MaxJobsPerPage \in Nat \ {0} /\ DefaultJobsPerPage \in 1 .. MaxJobsPerPage
  BY ParameterAssumption

Page(query) == ClampInt(FirstValue(query.page), 1, MaxPage, 1)
JobsPerPage(query) ==
    ClampInt(FirstValue(query.jobsPerPage), 1, MaxJobsPerPage, DefaultJobsPerPage)

LEMMA PagesInRange ==
  ASSUME NEW query
  PROVE  /\ Page(query) \in 1 .. MaxPage /\ Page(query) \in Nat \ {0}
         /\ JobsPerPage(query) \in 1 .. MaxJobsPerPage /\ JobsPerPage(query) \in Nat \ {0}
  <1>1. Page(query) \in 1 .. MaxPage
    BY Limits, ClampInRange DEF Page
  <1>2. JobsPerPage(query) \in 1 .. MaxJobsPerPage
    BY Limits, ClampInRange DEF JobsPerPage
  <1> QED BY <1>1, <1>2, Limits

LEMMA CanonicalFields ==
  ASSUME NEW query, NEW c, c = CanonicalizeQuery(query)
  PROVE  /\ c.activeQueue = Recognised(query.activeQueue, QueueName)
         /\ c.status = Recognised(query.status, AllowedStatus)
         /\ c.page = <<Text(Page(query))>>
         /\ c.jobsPerPage = <<Text(JobsPerPage(query))>>
  BY DEF CanonicalizeQuery, Page, JobsPerPage

LEMMA CanonicalView ==
  ASSUME NEW query
  PROVE  BoardView(CanonicalizeQuery(query)) =
           [activeQueue |-> FirstValue(Recognised(query.activeQueue, QueueName)),
            status      |-> FirstValue(Recognised(query.status, AllowedStatus)),
            page        |-> Page(query),
            jobsPerPage |-> JobsPerPage(query)]
  <1>1. /\ BoardNumber(<<Text(Page(query))>>, 1) = Page(query)
        /\ BoardNumber(<<Text(JobsPerPage(query))>>, DefaultJobsPerPage) = JobsPerPage(query)
    <2>1. Page(query) \in Nat \ {0} /\ JobsPerPage(query) \in Nat \ {0}
      BY PagesInRange
    <2> QED BY <2>1, BoardReads
  <1>2. PICK c : c = CanonicalizeQuery(query)
    OBVIOUS
  <1> QED BY <1>1, <1>2, CanonicalFields DEF BoardView

\* Bull Board's adapter reads the rewritten query, and a proxy may send it back:
\* a canonical query is its own canonical form, so it keeps its cache key.
THEOREM CanonicalFormIsFixed ==
  ASSUME NEW query
  PROVE  CanonicalizeQuery(CanonicalizeQuery(query)) = CanonicalizeQuery(query)
  <1>0. PICK c : c = CanonicalizeQuery(query)
    OBVIOUS
  <1>1. /\ c.activeQueue = Recognised(query.activeQueue, QueueName)
        /\ c.status = Recognised(query.status, AllowedStatus)
        /\ c.page = <<Text(Page(query))>> /\ c.jobsPerPage = <<Text(JobsPerPage(query))>>
    BY <1>0, CanonicalFields
  <1>2. /\ Page(query) \in 1 .. MaxPage /\ Page(query) \in Int
        /\ JobsPerPage(query) \in 1 .. MaxJobsPerPage /\ JobsPerPage(query) \in Int
    BY PagesInRange
  <1>3. Page(c) = Page(query)
    BY <1>1, <1>2, TextReads DEF Page, ClampInt
  <1>4. JobsPerPage(c) = JobsPerPage(query)
    BY <1>1, <1>2, TextReads DEF JobsPerPage, ClampInt
  <1>5. /\ Recognised(c.activeQueue, QueueName) = c.activeQueue
        /\ Recognised(c.status, AllowedStatus) = c.status
    BY <1>1, RecognisedTwice
  <1>6. CanonicalizeQuery(c) = CanonicalizeQuery(query)
    BY <1>1, <1>3, <1>4, <1>5 DEF CanonicalizeQuery, Page, JobsPerPage
  <1> QED BY <1>0, <1>6

-----------------------------------------------------------------------------
(* One key per view.                                                       *)

\* Queries with the same canonical view have the same key.
LEMMA ViewTellsKey ==
  ASSUME NEW p, NEW q,
         BoardView(CanonicalizeQuery(p)) = BoardView(CanonicalizeQuery(q))
  PROVE  SnapshotKey(p) = SnapshotKey(q)
  <1>1. /\ FirstValue(Recognised(p.activeQueue, QueueName))
             = FirstValue(Recognised(q.activeQueue, QueueName))
        /\ FirstValue(Recognised(p.status, AllowedStatus))
             = FirstValue(Recognised(q.status, AllowedStatus))
        /\ Page(p) = Page(q) /\ JobsPerPage(p) = JobsPerPage(q)
    BY CanonicalView
  <1>2. /\ Recognised(p.activeQueue, QueueName) = Recognised(q.activeQueue, QueueName)
        /\ Recognised(p.status, AllowedStatus) = Recognised(q.status, AllowedStatus)
    BY <1>1, RecognisedTells
  <1>3. CanonicalizeQuery(p) = CanonicalizeQuery(q)
    BY <1>1, <1>2 DEF CanonicalizeQuery, Page, JobsPerPage
  <1> QED BY <1>3 DEF SnapshotKey

\* And queries with the same key have the same canonical view.
LEMMA KeyTellsView ==
  ASSUME NEW p, NEW q, SnapshotKey(p) = SnapshotKey(q)
  PROVE  BoardView(CanonicalizeQuery(p)) = BoardView(CanonicalizeQuery(q))
  <1> DEFINE c == CanonicalizeQuery(p)
             d == CanonicalizeQuery(q)
  <1>1. /\ c.activeQueue = d.activeQueue /\ c.status = d.status
        /\ c.page = d.page /\ c.jobsPerPage = d.jobsPerPage
    BY DEF SnapshotKey, BuildSnapshotKey
  <1> QED BY <1>1 DEF BoardView

-----------------------------------------------------------------------------
(* The inductive invariant behind all three: every snapshot is the view of *)
(* a query that has its key, and the last answer came from one.            *)

SnapshotOfQuery(key, query) ==
    /\ key = SnapshotKey(query)
    /\ snapshots[key] = BoardView(CanonicalizeQuery(query))

ViewInv ==
    /\ \A key \in DOMAIN snapshots : \E query \in Query : SnapshotOfQuery(key, query)
    /\ Answered => served.query \in Query
    /\ ServedOwnView

LEMMA ViewOfInit == Init => ViewInv
  <1> SUFFICES ASSUME Init PROVE ViewInv
    OBVIOUS
  <1>1. DOMAIN snapshots = {} /\ served.query = Undefined
    BY DEF Init, NoAnswer
  <1> QED BY <1>1 DEF ViewInv, ServedOwnView, Answered

LEMMA ViewOfStep == ViewInv /\ [Next]_vars => ViewInv'
  <1> SUFFICES ASSUME ViewInv, [Next]_vars PROVE ViewInv'
    OBVIOUS
  <1>1. ASSUME NEW query \in Query, Hit(query) PROVE ViewInv'
    <2>1. PICK q \in Query : SnapshotOfQuery(SnapshotKey(query), q)
      BY <1>1 DEF ViewInv, Hit
    <2>2. snapshots[SnapshotKey(query)] = BoardView(CanonicalizeQuery(query))
      BY <2>1, KeyTellsView DEF SnapshotOfQuery
    <2>3. /\ served'.query = query
          /\ served'.body = BoardView(CanonicalizeQuery(query))
          /\ UNCHANGED snapshots
      BY <1>1, <2>2 DEF Hit
    <2> QED BY <2>3 DEF ViewInv, ServedOwnView, Answered, SnapshotOfQuery
  <1>2. ASSUME NEW query \in Query, Miss(query) PROVE ViewInv'
    <2>1. /\ served'.query = query
          /\ served'.body = BoardView(CanonicalizeQuery(query))
      BY <1>2 DEF Miss, Rewritten
    <2>2. /\ DOMAIN snapshots' = DOMAIN snapshots \union {SnapshotKey(query)}
          /\ \A key \in DOMAIN snapshots : snapshots'[key] = snapshots[key]
          /\ snapshots'[SnapshotKey(query)] = BoardView(CanonicalizeQuery(query))
      BY <1>2 DEF Miss, Rewritten
    <2>3. ASSUME NEW key \in DOMAIN snapshots' PROVE \E q \in Query : SnapshotOfQuery(key, q)'
      <3>1. CASE key \in DOMAIN snapshots
        BY <2>2, <3>1 DEF ViewInv, SnapshotOfQuery
      <3>2. CASE key = SnapshotKey(query)
        BY <2>2, <3>2 DEF SnapshotOfQuery
      <3> QED BY <2>2, <3>1, <3>2
    <2> QED BY <2>1, <2>3 DEF ViewInv, ServedOwnView, Answered
  <1>3. CASE Expire
    <2>1. DOMAIN snapshots' = {} /\ served'.query = Undefined
      BY <1>3 DEF Expire, NoAnswer
    <2> QED BY <2>1 DEF ViewInv, ServedOwnView, Answered
  <1>4. CASE UNCHANGED vars
    BY <1>4 DEF ViewInv, ServedOwnView, Answered, SnapshotOfQuery, vars
  <1> QED BY <1>1, <1>2, <1>3, <1>4 DEF Next

\* A poll is answered with the view its own canonical query names, whatever
\* other polls left in the cache.
THEOREM AnswersAreOwnView == Spec => []ServedOwnView
  <1>1. ViewInv => ServedOwnView
    BY DEF ViewInv
  <1> QED BY <1>1, ViewOfInit, ViewOfStep, PTL DEF Spec

LEMMA OneKeyPerView == ViewInv => OneSnapshotPerView
  <1> SUFFICES ASSUME ViewInv, NEW k1 \in DOMAIN snapshots, NEW k2 \in DOMAIN snapshots,
                      snapshots[k1] = snapshots[k2]
               PROVE  k1 = k2
    BY DEF OneSnapshotPerView
  <1>1. PICK p \in Query : SnapshotOfQuery(k1, p)
    BY DEF ViewInv
  <1>2. PICK q \in Query : SnapshotOfQuery(k2, q)
    BY DEF ViewInv
  <1> QED BY <1>1, <1>2, ViewTellsKey DEF SnapshotOfQuery

\* No way of writing a query caches a view a second time.
THEOREM ViewsAreCachedOnce == Spec => []OneSnapshotPerView
  BY ViewOfInit, ViewOfStep, OneKeyPerView, PTL DEF Spec

-----------------------------------------------------------------------------
(* What the cache does not change for a visitor within its limits.         *)

LEMMA NameKept ==
  ASSUME NEW names \in {QueueName, AllowedStatus}, NEW values \in NameQuery(names),
         values # <<NotText>>, values \notin {<<t>> : t \in UnknownText}
  PROVE  FirstValue(Recognised(values, names)) = FirstValue(values)
  <1>1. values = <<>> \/ \E t \in names : values = <<t>>
    BY DEF NameQuery
  <1> QED BY <1>1, RecognisedIs DEF Recognised

LEMMA NumberKept ==
  ASSUME NEW values \in NumberQuery, NEW max \in Nat, NEW default,
         Len(values) = 1, values[1].number \in 1 .. max
  PROVE  /\ ClampInt(FirstValue(values), 1, max, default) = values[1].number
         /\ BoardNumber(values, default) = values[1].number
  <1>1. PICK t \in NumberText : values = <<t>>
    <2>1. CASE values = <<>>
      BY <2>1
    <2>2. CASE \E t \in NumberText : values = <<t>>
      BY <2>2
    <2>3. ASSUME NEW n \in Number, values = <<Text(n), Text(n)>> PROVE FALSE
      <3> HIDE DEF Text
      <3>1. Len(<<Text(n), Text(n)>>) = 2
        OBVIOUS
      <3> QED BY <2>3, <3>1
    <2> QED BY <2>1, <2>2, <2>3 DEF NumberQuery
  <1>2. t \in [number : Int \union {NaN}, spelling : Spelling]
    BY ParameterAssumption DEF NumberText
  <1>3. t # NotText /\ t # Undefined
    BY <1>2, ParameterAssumption
  <1>4. FirstValue(values) = t /\ ToNumber(t) = t.number /\ values[1] = t
    BY <1>1, <1>3 DEF FirstValue, ToNumber
  <1> QED BY <1>1, <1>4 DEF ClampInt, BoardNumber

LEMMA WithinLimitsKept ==
  ASSUME NEW query \in Query, WithinLimits(query)
  PROVE  BoardView(CanonicalizeQuery(query)) = BoardView(query)
  <1>1. /\ query.activeQueue \in NameQuery(QueueName)
        /\ query.status \in NameQuery(AllowedStatus)
        /\ query.page \in NumberQuery /\ query.jobsPerPage \in NumberQuery
    BY DEF Query
  <1>2. FirstValue(Recognised(query.activeQueue, QueueName)) = FirstValue(query.activeQueue)
    BY <1>1, NameKept DEF WithinLimits
  <1>3. FirstValue(Recognised(query.status, AllowedStatus)) = FirstValue(query.status)
    BY <1>1, NameKept DEF WithinLimits
  <1>4. Page(query) = BoardNumber(query.page, 1)
    BY <1>1, Limits, NumberKept DEF WithinLimits, Page
  <1>5. JobsPerPage(query) = BoardNumber(query.jobsPerPage, DefaultJobsPerPage)
    BY <1>1, Limits, NumberKept DEF WithinLimits, JobsPerPage
  <1> QED BY <1>2, <1>3, <1>4, <1>5, CanonicalView DEF BoardView

LEMMA ViewIsWhatWasAsked == ViewInv => VisitorSeesWhatWasAsked
  BY WithinLimitsKept DEF ViewInv, ServedOwnView, VisitorSeesWhatWasAsked, Answered

\* A visitor of the board's own interface, within its limits, sees exactly what
\* Bull Board would have shown without the cache and its rewriting.
THEOREM CacheIsTransparent == Spec => []VisitorSeesWhatWasAsked
  BY ViewOfInit, ViewOfStep, ViewIsWhatWasAsked, PTL DEF Spec

=============================================================================
