---------------------------- MODULE VaultIndex ----------------------------
(***************************************************************************)
(* The two stores of the vault and the one owner that writes both: SQLite  *)
(* (records, chunks, flush stamps) and the derived Lance table.  Models    *)
(* Store (store.rs), LanceWriter (lance_writer.rs), delete_everywhere      *)
(* (deletion.rs) and the write path's insert-or-merge (write_path.rs).     *)
(*                                                                         *)
(* The owner holds `&mut Store` across every await, so an operation is     *)
(* never interleaved with another one, but each of its durable writes is a *)
(* step of its own: the process may die, or the call may fail, between     *)
(* any two of them.                                                        *)
(*                                                                         *)
(* A chunk's text is the set of capture moments whose evidence it carries. *)
(* The write path gives every record one chunk, so a chunk is named by its *)
(* record.                                                                 *)
(***************************************************************************)
EXTENDS Naturals, FiniteSets

CONSTANTS Records,        \* record identities
          MaxClock,       \* number of captures the model makes (bound)
          SiteOf,         \* SiteOf[m]: the site shown at capture moment m
          Window,         \* continuity window (45 minutes in the code)
          BatchSize,      \* FLUSH_BATCH_SIZE
          FlushStamps,    \* values of now_ms a flush may stamp with
          MaxInterrupts   \* number of crashes and failed calls (bound)

Moments == 1..MaxClock
Texts   == SUBSET Moments
Sites   == {SiteOf[m] : m \in Moments}

ASSUME BoundsAssumption ==
    /\ MaxClock \in Nat \ {0}
    /\ Window \in Nat
    /\ BatchSize \in Nat \ {0}
    /\ FlushStamps \subseteq Nat
    /\ MaxInterrupts \in Nat

\* The value of chunks.flushed_at_ms that means "not in Lance yet".
Pending == 0

VARIABLES
    live,        \* rows of memory_records
    text,        \* chunks.text, meaningful for live records
    capturedAt,  \* memory_records.captured_at_ms
    flushedAt,   \* chunks.flushed_at_ms
    rows,        \* the Lance table: [record, text, copy], copy 2 = any further copy
    table,       \* the Lance table on disk: "none", "bare" (no BTree/FTS), "indexed"
    phase,       \* what the owner's current operation does next
    goal,        \* why it flushes: "once" (a tick), "drain", "rebuild"
    batch,       \* the chunks read by pending_chunks, with the text read
    scope,       \* the scope of the deletion in progress
    targets,     \* the record ids it resolved to
    clock,       \* the next capture moment
    interrupts   \* crashes and failed calls so far

\* Auxiliary: what an interruption left behind.
VARIABLES
    torn,        \* records whose index rows were removed but not their stamp
    unstamped    \* records whose rows were committed but not their stamp

truthVars == <<live, text, capturedAt, flushedAt>>
indexVars == <<rows, table>>
opVars    == <<phase, goal, batch, scope, targets>>
auxVars   == <<torn, unstamped>>
vars      == <<truthVars, indexVars, opVars, auxVars, clock, interrupts>>

-----------------------------------------------------------------------------
Row     == [record : Records, text : Texts, copy : {1, 2}]
Chunk   == [record : Records, text : Texts]
NoScope == [kind |-> "none"]
Scopes  == [kind : {"records"}, ids : SUBSET Records]
           \cup {s \in [kind : {"range"}, from : Moments, to : Moments] : s.from <= s.to}
           \cup [kind : {"site"}, site : Sites]
           \cup {[kind |-> "all"]}
FlushPhases == {"open", "indexes", "add", "mark", "next"}
Phases  == FlushPhases \cup {"idle", "delIndex", "delTruth", "drop", "reset"}

TypeOK ==
    /\ live \subseteq Records
    /\ text \in [Records -> Texts]
    /\ capturedAt \in [Records -> 0..MaxClock]
    /\ flushedAt \in [Records -> FlushStamps \cup {Pending}]
    /\ rows \subseteq Row
    /\ table \in {"none", "bare", "indexed"}
    /\ phase \in Phases
    /\ goal \in {"once", "drain", "rebuild"}
    /\ batch \subseteq Chunk
    /\ scope \in Scopes \cup {NoScope}
    /\ targets \subseteq Records
    /\ clock \in 1..(MaxClock + 1)
    /\ interrupts \in 0..MaxInterrupts
    /\ torn \subseteq Records
    /\ unstamped \subseteq Records

Init ==
    /\ live = {}
    /\ text = [r \in Records |-> {}]
    /\ capturedAt = [r \in Records |-> 0]
    /\ flushedAt = [r \in Records |-> Pending]
    /\ rows = {}
    /\ table = "none"
    /\ phase = "idle" /\ goal = "once" /\ batch = {}
    /\ scope = NoScope /\ targets = {}
    /\ clock = 1 /\ interrupts = 0
    /\ torn = {} /\ unstamped = {}

-----------------------------------------------------------------------------
(* Captures: persist_capture, with insert_capture or merge_pending_capture. *)

PendingChunks == {r \in live : flushedAt[r] = Pending}

\* Regressions: indexed chunks are offered for merging;
\* evidence of another site is folded in.
CandidatesEvenIfIndexed ==
    {r \in live : /\ clock <= capturedAt[r] + Window
                  /\ SiteOf[clock] = SiteOf[capturedAt[r]]}
CandidatesOfAnySite ==
    {r \in PendingChunks : clock <= capturedAt[r] + Window}

\* pending_continuity_candidates, and the part of should_merge that does not
\* depend on wording: with no vector similarity only an anchor match passes
\* the thresholds, and an anchor names the site.
ContinuityCandidates ==
    {r \in PendingChunks : /\ clock <= capturedAt[r] + Window
                           /\ SiteOf[clock] = SiteOf[capturedAt[r]]}

\* Regression: the record is stamped with the time at which it is written.
InsertCaptureLateStamp(r) ==
    /\ phase = "idle" /\ clock \in Moments
    /\ r \notin live
    /\ live' = live \cup {r}
    /\ text' = [text EXCEPT ![r] = {clock}]
    /\ capturedAt' = [capturedAt EXCEPT ![r] = clock + 1]
    /\ flushedAt' = [flushedAt EXCEPT ![r] = Pending]
    /\ clock' = clock + 1
    /\ UNCHANGED <<indexVars, opVars, auxVars, interrupts>>

InsertCapture(r) ==
    /\ phase = "idle" /\ clock \in Moments
    /\ r \notin live
    /\ live' = live \cup {r}
    /\ text' = [text EXCEPT ![r] = {clock}]
    /\ capturedAt' = [capturedAt EXCEPT ![r] = clock]
    /\ flushedAt' = [flushedAt EXCEPT ![r] = Pending]
    /\ clock' = clock + 1
    /\ UNCHANGED <<indexVars, opVars, auxVars, interrupts>>

\* Regression: the incoming text takes the place of the stored one.
MergeReplaces(r) ==
    /\ phase = "idle" /\ clock \in Moments
    /\ r \in ContinuityCandidates
    /\ text' = [text EXCEPT ![r] = {clock}]
    /\ capturedAt' = [capturedAt EXCEPT ![r] = clock]
    /\ clock' = clock + 1
    /\ UNCHANGED <<live, flushedAt, indexVars, opVars, auxVars, interrupts>>

\* merge_story_text folds the incoming evidence in, or leaves it out: already
\* contained, of short segments only, or beyond the cap.  Where the incoming text
\* contains the stored one, it carries the evidence of both.
MergeCapture(r) ==
    /\ phase = "idle" /\ clock \in Moments
    /\ r \in ContinuityCandidates
    /\ \E merged \in {text[r], text[r] \cup {clock}} :
         text' = [text EXCEPT ![r] = merged]
    /\ capturedAt' = [capturedAt EXCEPT ![r] = clock]
    /\ clock' = clock + 1
    /\ UNCHANGED <<live, flushedAt, indexVars, opVars, auxVars, interrupts>>

-----------------------------------------------------------------------------
(* Flushing: LanceWriter::flush_once, and the loops that drain with it.     *)

OldestPending ==
    {B \in SUBSET PendingChunks :
        /\ Cardinality(B) <= BatchSize
        /\ B # PendingChunks => Cardinality(B) = BatchSize
        /\ \A r \in B, s \in PendingChunks \ B : capturedAt[r] <= capturedAt[s]}

\* pending_chunks reads a batch; embedding it comes before Lance is touched.
ReadBatch ==
    /\ PendingChunks # {}
    /\ \E B \in OldestPending :
         batch' = {[record |-> r, text |-> text[r]] : r \in B}
    /\ phase' = "open"

StartFlush(g) ==
    /\ phase = "idle"
    /\ ReadBatch
    /\ goal' = g
    /\ UNCHANGED <<truthVars, indexVars, auxVars, scope, targets, clock, interrupts>>

\* open_or_create_table: an existing table is used as it is found.
OpenTable ==
    /\ phase = "open"
    /\ IF table = "none"
       THEN table' = "bare" /\ phase' = "indexes"
       ELSE phase' = "add" /\ UNCHANGED table
    /\ UNCHANGED <<truthVars, rows, goal, batch, scope, targets, auxVars, clock, interrupts>>

CreateIndexes ==
    /\ phase = "indexes"
    /\ table' = "indexed"
    /\ phase' = "add"
    /\ UNCHANGED <<truthVars, rows, goal, batch, scope, targets, auxVars, clock, interrupts>>

RowFor(c) ==
    [record |-> c.record, text |-> c.text,
     copy |-> IF [record |-> c.record, text |-> c.text, copy |-> 1] \in rows
              THEN 2 ELSE 1]

\* table.add commits the batch as one Lance version.
AddRows ==
    /\ phase = "add"
    /\ rows' = rows \cup {RowFor(c) : c \in batch}
    /\ phase' = "mark"
    /\ UNCHANGED <<truthVars, table, goal, batch, scope, targets, auxVars, clock, interrupts>>

BatchRecords == {c.record : c \in batch}

\* Regressions: the stamp reaches chunks that were not in the batch; the
\* stamping transaction is never committed.
MarkEverything ==
    /\ phase = "mark"
    /\ \E s \in FlushStamps :
         flushedAt' = [r \in Records |-> IF r \in live THEN s ELSE flushedAt[r]]
    /\ torn' = torn \ BatchRecords
    /\ batch' = {}
    /\ phase' = IF goal = "once" THEN "idle" ELSE "next"
    /\ UNCHANGED <<live, text, capturedAt, indexVars, goal, scope, targets,
                   unstamped, clock, interrupts>>
MarkWithoutCommit ==
    /\ phase = "mark"
    /\ batch' = {}
    /\ phase' = IF goal = "once" THEN "idle" ELSE "next"
    /\ UNCHANGED <<truthVars, indexVars, goal, scope, targets, auxVars, clock, interrupts>>

\* mark_chunks_flushed stamps by id, in one transaction.
MarkFlushed ==
    /\ phase = "mark"
    /\ \E s \in FlushStamps :
         flushedAt' = [r \in Records |->
                         IF r \in BatchRecords \cap live THEN s ELSE flushedAt[r]]
    /\ torn' = torn \ BatchRecords
    /\ batch' = {}
    /\ phase' = IF goal = "once" THEN "idle" ELSE "next"
    /\ UNCHANGED <<live, text, capturedAt, indexVars, goal, scope, targets,
                   unstamped, clock, interrupts>>

\* rebuild, flush_on_shutdown and the benchmark flush until nothing was written.
DrainNext ==
    /\ phase = "next"
    /\ \/ ReadBatch
       \/ PendingChunks = {} /\ phase' = "idle" /\ UNCHANGED batch
    /\ UNCHANGED <<truthVars, indexVars, goal, scope, targets, auxVars, clock, interrupts>>

-----------------------------------------------------------------------------
(* Deletion: delete_everywhere resolves, then Lance, then SQLite.           *)

InScope(r, s) ==
    CASE s.kind = "records" -> r \in s.ids
      [] s.kind = "range"   -> capturedAt[r] \in s.from .. s.to
      [] s.kind = "site"    -> SiteOf[capturedAt[r]] = s.site
      [] s.kind = "all"     -> TRUE

RecordIdsForDelete(s) == {r \in live : InScope(r, s)}

StartDelete(s) ==
    /\ phase = "idle"
    /\ scope' = s
    /\ targets' = RecordIdsForDelete(s)
    /\ phase' = "delIndex"
    /\ UNCHANGED <<truthVars, indexVars, goal, batch, auxVars, clock, interrupts>>

RecordsIn(R) == {w.record : w \in R}

\* Regression: an index error is logged and the deletion goes on.
DeleteIndexRowsBestEffort ==
    /\ phase = "delIndex"
    /\ rows' \in {rows, {w \in rows : w.record \notin targets}}
    /\ torn' = torn \cup (targets \cap RecordsIn(rows))
    /\ phase' = "delTruth"
    /\ UNCHANGED <<truthVars, table, goal, batch, scope, targets, unstamped, clock, interrupts>>

\* A missing table is a successful no-op.
DeleteIndexRows ==
    /\ phase = "delIndex"
    /\ rows' = {w \in rows : w.record \notin targets}
    /\ torn' = torn \cup (targets \cap RecordsIn(rows))
    /\ phase' = "delTruth"
    /\ UNCHANGED <<truthVars, table, goal, batch, scope, targets, unstamped, clock, interrupts>>

DeleteTruth ==
    /\ phase = "delTruth"
    /\ live' = live \ targets
    /\ torn' = torn \ targets
    /\ unstamped' = unstamped \ targets
    /\ phase' = "idle" /\ scope' = NoScope /\ targets' = {}
    /\ UNCHANGED <<text, capturedAt, flushedAt, indexVars, goal, batch, clock, interrupts>>

-----------------------------------------------------------------------------
(* Rebuild: drop the table, reset every stamp, flush everything.            *)

StartRebuild ==
    /\ phase = "idle"
    /\ goal' = "rebuild"
    /\ phase' = "drop"
    /\ UNCHANGED <<truthVars, indexVars, batch, scope, targets, auxVars, clock, interrupts>>

\* Regression: the rebuild forgets to drop the old table.
KeepTable ==
    /\ phase = "drop"
    /\ phase' = "reset"
    /\ UNCHANGED <<truthVars, indexVars, goal, batch, scope, targets, auxVars, clock, interrupts>>

DropTable ==
    /\ phase = "drop"
    /\ rows' = {} /\ table' = "none"
    /\ torn' = torn \cup RecordsIn(rows)
    /\ unstamped' = {}
    /\ phase' = "reset"
    /\ UNCHANGED <<truthVars, goal, batch, scope, targets, clock, interrupts>>

ResetFlushState ==
    /\ phase = "reset"
    /\ flushedAt' = [r \in Records |-> Pending]
    /\ torn' = {}
    /\ phase' = "next"
    /\ UNCHANGED <<live, text, capturedAt, indexVars, goal, batch, scope, targets,
                   unstamped, clock, interrupts>>

-----------------------------------------------------------------------------
\* The process dies, or the next call of the operation returns an error and
\* `?` leaves it: either way only what was already committed survives.
Interrupt ==
    /\ phase # "idle"
    /\ interrupts < MaxInterrupts
    /\ interrupts' = interrupts + 1
    /\ unstamped' = IF phase = "mark" THEN unstamped \cup BatchRecords ELSE unstamped
    /\ phase' = "idle" /\ goal' = "once" /\ batch' = {}
    /\ scope' = NoScope /\ targets' = {}
    /\ UNCHANGED <<truthVars, indexVars, torn, clock>>

FlushStep  == OpenTable \/ CreateIndexes \/ AddRows \/ MarkFlushed \/ DrainNext
DeleteStep == DeleteIndexRows \/ DeleteTruth
OwnerStep  == FlushStep \/ DeleteStep \/ DropTable \/ ResetFlushState

Next ==
    \/ \E r \in Records : InsertCapture(r) \/ MergeCapture(r)
    \/ \E g \in {"once", "drain"} : StartFlush(g)
    \/ \E s \in Scopes : StartDelete(s)
    \/ StartRebuild
    \/ OwnerStep
    \/ Interrupt

Spec == Init /\ [][Next]_vars

\* An operation that was started is carried on.  Between other operations the
\* worker's tick comes round again and starts a flush: strong fairness, because
\* deletions and rebuilds may come in between, but not for ever instead of it.
\* Nothing forces a capture, a deletion, a rebuild, or an interruption.
FairSpec ==
    /\ Spec
    /\ WF_vars(OwnerStep)
    /\ SF_vars(StartFlush("once"))

-----------------------------------------------------------------------------
(* Properties                                                               *)

\* No Lance row outlives its record: at no step of any operation, and after no
\* interruption, does the index hold text of a record SQLite has deleted
\* (deletion.rs: index first, truth second).
NoOrphanRows == RecordsIn(rows) \subseteq live

\* A stamped chunk is in the index with the text SQLite has, unless an
\* interrupted deletion or rebuild took its rows away (flush_once stamps only
\* after the Lance commit).
FlushedIsIndexed ==
    \A r \in live : flushedAt[r] # Pending /\ r \notin torn =>
        [record |-> r, text |-> text[r], copy |-> 1] \in rows

\* Stale and duplicate rows have one origin only: a flush interrupted between
\* the Lance commit and the stamp.
SingleCurrentRow ==
    \A w \in rows : w.record \notin unstamped =>
        w.text = text[w.record] /\ w.copy = 1

\* When a rebuild finishes, the index is exactly the truth: one row for each
\* chunk, with its current text, whatever was there before.
RebuildConverges ==
    [][(phase = "next" /\ goal = "rebuild" /\ phase' = "idle" /\ interrupts' = interrupts)
        => rows' = {[record |-> r, text |-> text[r], copy |-> 1] : r \in live}]_vars

\* What a deletion by domain, or of everything, promises is gone once it
\* completes: no stored text and no index row carries evidence in its scope,
\* merged evidence included (PRD P0.9).
MomentsOf(s) ==
    CASE s.kind = "site"  -> {m \in Moments : SiteOf[m] = s.site}
      [] s.kind = "range" -> s.from .. s.to
      [] s.kind = "all"   -> Moments
      [] OTHER            -> {}

Erased(m) == /\ \A r \in live : m \notin text[r]
             /\ \A w \in rows : m \notin w.text

SiteDeletionErases ==
    [][DeleteTruth /\ scope.kind \in {"site", "all"}
        => \A m \in MomentsOf(scope) : Erased(m)']_vars

\* The same promise for a deletion by time range: the text captured in the
\* range is gone when the deletion completes.
RangeDeletionErases ==
    [][DeleteTruth /\ scope.kind = "range"
        => \A m \in MomentsOf(scope) : Erased(m)']_vars

\* Every pending chunk is eventually stamped as indexed, or deleted.
PendingGetsIndexed ==
    \A r \in Records :
        (r \in live /\ flushedAt[r] = Pending)
            ~> (r \notin live \/ flushedAt[r] # Pending)

\* A drain (shutdown, rebuild) comes to an end where no flush stamps Pending.  The
\* benchmark's (fndr-bench lib.rs:234) stamps 0 and reads the same chunks for ever.
DrainEnds ==
    Pending \notin FlushStamps =>
        ((phase # "idle" /\ goal # "once") ~> (phase = "idle"))

\* What is captured: the evidence of live records' texts, and that of the rows.
StoredEvidence  == UNION {text[r] : r \in live}
IndexedEvidence == UNION {w.text : w \in rows}

\* The two stores keep the promise of a derived index for every piece of evidence: a
\* merge, a deletion or a rebuild after a cut-off flush takes nothing from SQLite that a
\* row the flush left behind still shows.
Promise == INSTANCE DerivedIndex
              WITH Evidence <- Moments, truth <- StoredEvidence, index <- IndexedEvidence
ImplementsPromise == Promise!Spec
=============================================================================
