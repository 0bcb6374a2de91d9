---------------------------- MODULE AgentSurface ----------------------------
(***************************************************************************)
(* What an agent gets from the MCP server: the middleware in front of      *)
(* every request (auth.rs), the tools that count, list and write           *)
(* (server.rs), and the statements of the store behind them (store.rs).    *)
(* VaultReaders has the stages of the tools that show capture text, and    *)
(* the audit log.                                                          *)
(*                                                                         *)
(* Each of these tools makes one statement, under the mutex, and is then   *)
(* audited: a request is one step, and the owner, who is another process,  *)
(* captures between two of them.                                           *)
(*                                                                         *)
(* Time is counted in ticks, for the gate's second as for the timeline's   *)
(* hours, and begins at Epoch, above every offset (no instant before 1970).*)
(* Applications are numbered in the order of their names.                  *)
(***************************************************************************)
EXTENDS Integers, FiniteSets, FiniteSetsExt, Sequences, SequencesExt

CONSTANTS
    Captures,       \* [app, words, target]; apps are naturals
    Credentials,    \* requests' [host, origin, token], as CheckRequest reads them
    Queries,        \* sequences of terms; a term is the sequence of its words
    TimelineArgs, DeltaLimits, RecallArgs, ExplainLimits, StaleAfter, Statements,
    RateLimit,      \* max_requests_per_second
    Second,         \* ticks of a second
    HourTicks, DayTicks,
    OffsetRange,    \* offsets a timeline accepts
    ModelConfigured, \* TRUE iff the server was launched with an embedding model
    TimelineCap, AppCap, RecallCap, SearchCap, StoreCap,
    Epoch, MaxTime, MaxSetBack, MaxRecords, MaxRows, MaxRequests   \* bounds

ASSUME LimitsAssumption ==
    /\ RateLimit \in Nat /\ Second \in Nat \ {0}
    /\ HourTicks \in Nat \ {0} /\ DayTicks \in Nat \ {0} /\ OffsetRange \subseteq Int
    /\ TimelineCap \in Nat /\ RecallCap \in Nat
    /\ ModelConfigured \in BOOLEAN
    /\ SearchCap \in Nat /\ StoreCap \in Nat /\ StoreCap <= SearchCap

ASSUME ArgumentsAssumption ==
    /\ TimelineArgs \subseteq [from : Int, to : Int, grain : {"hour", "day"}, offset : Int,
                               limit : Nat]
    /\ RecallArgs \subseteq [kind : STRING, since : Int, limit : Nat]
    /\ ExplainLimits \subseteq Nat /\ StaleAfter \subseteq Int

ASSUME CapturesAssumption ==
    /\ Epoch \in Nat \ {0} /\ MaxTime \in Nat /\ Epoch <= MaxTime /\ MaxSetBack \in Nat
    /\ Captures \subseteq [app : Nat, words : SUBSET STRING, target : SUBSET {"url", "app"}]

VARIABLES
    now,      \* what Instant tells, which is never set back
    setBack,  \* how far the wall clock was set back
    window,   \* RateWindow: when it began, how many requests it has seen
    memory,   \* memory_records: the sequence of [at, app, words, target]
    ledger,   \* decision_ledger, in the order of id: [at, statement]
    ratings,  \* result_feedback: [at, query]
    cursor,   \* the polling agent's next since_ms
    reply     \* the last answer, until anything else happens

\* Auxiliary
VARIABLES
    told,     \* the captures, [id, at], that polls have counted
    passed,   \* the instants of the requests the rate limit let through
    asked     \* requests made (bound)

store == <<memory, ledger, ratings>>
gate  == <<window, passed, asked>>
vars  == <<now, setBack, gate, store, cursor, told, reply>>

Times   == Epoch .. MaxTime
Wall    == now - setBack   \* now_ms()
NoReply == [tool |-> "none"]
None    == 0          \* no instant: absent newest_captured_at_ms
Rows    == [app : Nat, words : SUBSET STRING, target : SUBSET {"url", "app"}, at : Times]

TypeOK ==
    /\ now \in Times /\ setBack \in Nat /\ Wall \in Times /\ cursor \in Times
    /\ window \in [start : Times, count : Nat]
    /\ memory \in Seq(Rows)
    /\ told \subseteq [id : Nat, at : Times]
    /\ asked \in Nat /\ passed \in Seq(Times)

Init ==
    /\ now = Epoch /\ setBack = 0
    /\ window = [start |-> Epoch, count |-> 0]
    /\ memory = <<>> /\ ledger = <<>> /\ ratings = <<>>
    /\ cursor = Epoch /\ reply = NoReply
    /\ told = {} /\ passed = <<>> /\ asked = 0

-----------------------------------------------------------------------------
(* auth.rs                                                                 *)

\* Regression: a new window does not remember when it began.
AllowKeepsStart(w) ==
    LET fresh == IF now - w.start >= Second THEN [w EXCEPT !.count = 0] ELSE w
    IN  [fresh EXCEPT !.count = @ + 1]

\* RateWindow::allow.  Whole seconds; refused requests are counted too.
Allow(w) ==
    LET fresh == IF now - w.start >= Second THEN [start |-> now, count |-> 0] ELSE w
    IN  [fresh EXCEPT !.count = @ + 1]

Allowed(w) == w.count <= RateLimit

\* check_request, after the rate: host, then origin (a browser), then token.
Verdict(c) ==
    IF ~c.host \/ c.origin # "none" THEN 403
    ELSE IF ~c.token THEN 401 ELSE 200

Counted ==
    /\ asked < MaxRequests
    /\ asked' = asked + 1
    /\ window' = Allow(window)
    /\ passed' = IF Allowed(window') THEN Append(passed, now) ELSE passed
    /\ UNCHANGED <<now, setBack>>

\* auth_middleware: a refused request reaches no tool.
Denied(c) ==
    /\ Counted
    /\ ~Allowed(window') \/ Verdict(c) # 200
    /\ reply' = [tool |-> "denied", status |-> IF Allowed(window') THEN Verdict(c) ELSE 429]
    /\ UNCHANGED <<store, cursor, told>>

Admitted(c) == Counted /\ Allowed(window') /\ Verdict(c) = 200

-----------------------------------------------------------------------------
(* Statements                                                              *)

Ids == DOMAIN memory

\* The elements of a set in a total order; the provers do not see how SortSeq sorts.
Sorted(S, Before(_, _)) ==
    CHOOSE s \in SetToSeqs(S) : \A i, j \in DOMAIN s : i < j => Before(s[i], s[j])

\* LIMIT
UpTo(seq, limit) == SubSeq(seq, 1, Min({Len(seq), limit}))

\* ORDER BY at DESC, id DESC LIMIT: recent_decisions, recent_feedback, recent_tool_calls.
NewestFirst(table, since, limit) ==
    LET newer(i, j) == table[i].at > table[j].at \/ (table[i].at = table[j].at /\ i > j)
    IN  UpTo(Sorted({i \in DOMAIN table : table[i].at >= since}, newer), limit)

\* The apps of some captures, the busiest first.
Busiest(ids) ==
    LET count(a) == Cardinality({i \in ids : memory[i].app = a})
    IN  Sorted({memory[i].app : i \in ids},
               LAMBDA a, b : count(a) > count(b) \/ (count(a) = count(b) /\ a < b))

\* Regression: a poll begins after the newest capture it has seen.
ChangesAfter(since, limit) ==
    LET ids == {i \in Ids : memory[i].at > since}
    IN  [ids |-> ids, records |-> Cardinality(ids),
         newest |-> IF ids = {} THEN None ELSE Max({memory[i].at : i \in ids}),
         apps |-> UpTo(Busiest(ids), limit)]

\* changes_since; ids are auxiliary, the agent gets their number.
ChangesSince(since, limit) ==
    LET ids == {i \in Ids : memory[i].at >= since}
    IN  [ids |-> ids, records |-> Cardinality(ids),
         newest |-> IF ids = {} THEN None ELSE Max({memory[i].at : i \in ids}),
         apps |-> UpTo(Busiest(ids), limit)]

\* ORDER BY captured_at_ms DESC, id DESC LIMIT 1, in a vault that is not empty.
LatestRecord ==
    CHOOSE i \in Ids : \A j \in Ids :
        memory[j].at < memory[i].at \/ (memory[j].at = memory[i].at /\ j <= i)

Width(grain) == IF grain = "hour" THEN HourTicks ELSE DayTicks

\* Regression: the bucket stays on the shifted clock.
BucketStartShifted(at, width, offset) == ((at + offset) \div width) * width

BucketStart(at, width, offset) == ((at + offset) \div width) * width - offset

\* activity_buckets: GROUP BY bucket and app, in order, up to the limit.
ActivityBuckets(from, to, width, offset, limit) ==
    LET inside == {i \in Ids : from <= memory[i].at /\ memory[i].at <= to}
        start(i) == BucketStart(memory[i].at, width, offset)
        row(i) == [start |-> start(i), app |-> memory[i].app,
                   records |-> Cardinality({j \in inside : /\ start(j) = start(i)
                                                           /\ memory[j].app = memory[i].app})]
        before(a, b) == \/ a.start < b.start
                        \/ a.start = b.start /\ a.records > b.records
                        \/ a.start = b.start /\ a.records = b.records /\ a.app < b.app
    IN  UpTo(Sorted({row(i) : i \in inside}, before), limit)

\* fts_terms: punctuation inside a term is dropped and its words become one.
FtsTerms(query) == {query[i] : i \in {j \in DOMAIN query : query[j] # <<>>}}

\* fts_query over chunks_fts: every term, and nothing for no term.
Matches(query) ==
    IF FtsTerms(query) = {} THEN {}
    ELSE {i \in Ids : \A t \in FtsTerms(query) : \E w \in memory[i].words : t = <<w>>}

\* How many hits fndr.search may return of each route: keyword hits first, up to the cap
\* of search_chunks, then what the index finds near the query, whatever its words.
SearchHits(query, limit) ==
    LET keyword == Min({Cardinality(Matches(query)), Min({limit, StoreCap})})
    IN  {[keyword |-> keyword, vector |-> n] :
            n \in IF ModelConfigured
                  THEN {k \in 0 .. Cardinality(Ids) : keyword + k <= Min({limit, Cardinality(Ids)})}
                  ELSE {0}}

-----------------------------------------------------------------------------
(* Tools                                                                   *)

\* What audit makes of an answer: a failed audit write fails the call.
Refused(tool) == [tool |-> tool, status |-> "refused"]
Failed(tool)  == [tool |-> tool, status |-> "failed"]
Answer(tool, out) ==
    \/ reply' = [tool |-> tool, status |-> "ok", out |-> out]
    \/ reply' = Failed(tool)

Timeline(q) ==
    /\ IF q.to < q.from \/ q.offset \notin OffsetRange
       THEN reply' \in {Refused("timeline"), Failed("timeline")}
       ELSE LET limit   == Min({q.limit, TimelineCap})
                buckets == ActivityBuckets(q.from, q.to, Width(q.grain), q.offset, limit)
            IN  Answer("timeline", [args |-> q, buckets |-> buckets,
                                    truncated |-> Len(buckets) = limit])
    /\ UNCHANGED <<store, cursor, told>>

\* The agent feeds newest_captured_at_ms back, unless there is none or the call failed.
Delta(limit) ==
    LET summary == ChangesSince(cursor, Min({limit, AppCap}))
    IN  /\ Answer("delta", [records |-> summary.records, apps |-> summary.apps])
        /\ IF reply'.status = "ok"
           THEN /\ cursor' = IF summary.newest = None THEN cursor ELSE summary.newest
                /\ told' = told \cup {[id |-> i, at |-> memory[i].at] : i \in summary.ids}
           ELSE UNCHANGED <<cursor, told>>
        /\ UNCHANGED store

ExplainRetrieval(query, limit) ==
    LET total == Cardinality(Matches(query))
        would == Min({total, Min({limit, StoreCap})})
    IN  [query |-> query, limit |-> limit, terms |-> FtsTerms(query), total |-> total,
         would |-> would, dropped |-> total - would]

Explain(query, limit) ==
    /\ Answer("explain_retrieval", ExplainRetrieval(query, limit))
    /\ UNCHANGED <<store, cursor, told>>

\* open_target: the page, else the application, else a reason why not.
OpenTarget(i) ==
    /\ IF i \notin Ids
       THEN reply' \in {Refused("open_target"), Failed("open_target")}
       ELSE Answer("open_target", [kind |-> CASE "url" \in memory[i].target -> "url"
                                              [] "app" \in memory[i].target -> "app"
                                              [] OTHER                     -> "unavailable"])
    /\ UNCHANGED <<store, cursor, told>>

\* A capture that is ahead of the clock is of this instant.
Age(at) == IF at > Wall THEN 0 ELSE Wall - at

\* active_focus: the newest capture, and whether it is recent enough.
ActiveFocus(stale) ==
    /\ IF stale < 0
       THEN reply' \in {Refused("active_focus"), Failed("active_focus")}
       ELSE Answer("active_focus",
              [stale |-> stale,
               status |-> IF memory = <<>> THEN "none"
                          ELSE IF Age(memory[LatestRecord].at) > stale THEN "stale"
                          ELSE "active"])
    /\ UNCHANGED <<store, cursor, told>>

\* Only decisions have a data model; the other kinds are refused, not empty.
Recall(q) ==
    /\ IF q.kind # "decision"
       THEN reply' \in {Refused("recall"), Failed("recall")}
       ELSE Answer("recall", [args |-> q,
                              ids |-> NewestFirst(ledger, q.since, Min({q.limit, RecallCap}))])
    /\ UNCHANGED <<store, cursor, told>>

AppendDecision(at, s) == ledger' = Append(ledger, [at |-> at, statement |-> s])
RecordFeedback(query) == ratings' = Append(ratings, [at |-> Wall, query |-> query])

\* A decision is made now or at the instant the agent names.  It is written before
\* the audit row: a call that failed may have left it, and its retry leaves another.
RememberDecision(s, at) ==
    /\ Len(ledger) + Len(ratings) < MaxRows
    /\ IF s = "" THEN /\ reply' \in {Refused("remember_decision"), Failed("remember_decision")}
                      /\ UNCHANGED ledger
       ELSE /\ AppendDecision(at, s)
            /\ Answer("remember_decision", [id |-> Len(ledger')])
    /\ UNCHANGED <<memory, ratings, cursor, told>>

\* No tool reads a rating: ranking_changed is always false.
Feedback(query) ==
    /\ Len(ledger) + Len(ratings) < MaxRows
    /\ IF query = <<>> THEN /\ reply' \in {Refused("feedback"), Failed("feedback")}
                            /\ UNCHANGED ratings
       ELSE /\ RecordFeedback(query)
            /\ Answer("feedback", [id |-> Len(ratings')])
    /\ UNCHANGED <<memory, ledger, cursor, told>>

Request ==
    \/ \E q \in TimelineArgs : Timeline(q)
    \/ \E limit \in DeltaLimits : Delta(limit)
    \/ \E query \in Queries, limit \in ExplainLimits : Explain(query, limit)
    \/ \E i \in 1 .. MaxRecords : OpenTarget(i)
    \/ \E stale \in StaleAfter : ActiveFocus(stale)
    \/ \E q \in RecallArgs : Recall(q)
    \/ \E s \in Statements, at \in {Epoch, Wall} : RememberDecision(s, at)
    \/ \E query \in Queries : Feedback(query)

-----------------------------------------------------------------------------
(* The owner, whose worker captures one frame after the other              *)

Newest == Max({Epoch} \cup {memory[i].at : i \in Ids})

\* Captures are committed in their order, unless the clock was set back.
Instants == IF setBack = 0 THEN Newest .. now ELSE {Wall}

\* A capture becomes a record, or renews the instant of one (a merge).
Capture ==
    /\ \E c \in Captures, at \in Instants :
         LET row == [app |-> c.app, words |-> c.words, target |-> c.target, at |-> at]
         IN  \/ Len(memory) < MaxRecords /\ memory' = Append(memory, row)
             \/ \E i \in Ids :
                   /\ memory[i].app = c.app /\ memory[i].target = c.target
                   /\ memory' = [memory EXCEPT ![i].at = at, ![i].words = @ \cup c.words]
    /\ reply' = NoReply
    /\ UNCHANGED <<now, setBack, gate, ledger, ratings, cursor, told>>

SetClockBack ==
    /\ setBack < MaxSetBack /\ Wall > Epoch
    /\ setBack' = setBack + 1
    /\ reply' = NoReply
    /\ UNCHANGED <<now, gate, store, cursor, told>>

Tick ==
    /\ now < MaxTime
    /\ now' = now + 1
    /\ reply' = NoReply
    /\ UNCHANGED <<setBack, gate, store, cursor, told>>

Next ==
    \/ \E c \in Credentials : Denied(c) \/ (Admitted(c) /\ Request)
    \/ Capture
    \/ SetClockBack
    \/ Tick

Spec == Init /\ [][Next]_vars

-----------------------------------------------------------------------------
(* Properties                                                              *)

Through(from, to) == Cardinality({k \in DOMAIN passed : passed[k] \in from .. to})

\* auth.rs:63: no span shorter than a second lets more than two windows' worth of
\* requests through, and a request is told to slow down only if a full window's worth
\* has gone through in the second before.
RateIsHonest ==
    /\ \A t \in Times : Through(t, t + Second - 1) <= 2 * RateLimit
    /\ reply.tool = "denied" /\ reply.status = 429
         => Through(now - Second + 1, now) >= RateLimit

\* server.rs:369: an agent that feeds newest_captured_at_ms back has been told of every
\* capture older than it, however many fell on one instant, were renewed by a merge, or
\* came between two polls of which some failed.  Behind a clock set back it can miss some.
PollMissesNothing ==
    setBack = 0 =>
        \A i \in Ids : memory[i].at < cursor => [id |-> i, at |-> memory[i].at] \in told

TimelineAddsUp(out) ==
    LET q      == out.args
        inside == {i \in Ids : memory[i].at \in q.from .. q.to}
        of(b)  == {i \in inside : /\ memory[i].app = b.app
                                  /\ memory[i].at \in b.start .. b.start + Width(q.grain) - 1}
    IN  /\ \A b \in ToSet(out.buckets) : /\ Cardinality(of(b)) = b.records
                                         /\ (b.start + q.offset) % Width(q.grain) = 0
        /\ \A b, c \in ToSet(out.buckets) : of(b) \cap of(c) # {} => b = c
        /\ inside # UNION {of(b) : b \in ToSet(out.buckets)} => out.truncated

RecallIsNewest(out) ==
    LET older == {i \in DOMAIN ledger : ledger[i].at >= out.args.since} \ ToSet(out.ids)
    IN  /\ \A i \in older, j \in ToSet(out.ids) : ledger[i].at <= ledger[j].at
        /\ older # {} => Len(out.ids) = Min({out.args.limit, RecallCap})

FocusIsCurrent(out) ==
    /\ out.status = "none" <=> Ids = {}
    /\ out.status = "active" <=> \E i \in Ids : memory[i].at >= Wall - out.stale

ExplanationHolds(out) ==
    /\ \A hits \in SearchHits(out.query, Min({out.limit, SearchCap})) : hits.keyword = out.would
    /\ out.would + out.dropped = Cardinality(Matches(out.query))

\* server.rs:126, :194: the tools that count agree with the records: a timeline counts
\* each capture of its window once, in the hour or day of the caller, and all of them if
\* it is not marked truncated; an explanation announces the keyword hits a search would
\* return, and none of those a model finds besides (server.rs:569); a recall leaves out
\* only the oldest decisions; the focus is active as long as any capture is that recent,
\* and one ahead of a clock set back is (server.rs:1009 means to rule that out).
AnswersAddUp ==
    "out" \in DOMAIN reply =>
        /\ reply.tool = "timeline" => TimelineAddsUp(reply.out)
        /\ reply.tool = "explain_retrieval" => ExplanationHolds(reply.out)
        /\ reply.tool = "active_focus" => FocusIsCurrent(reply.out)
        /\ reply.tool = "recall" => RecallIsNewest(reply.out)
=============================================================================
