# A verification of FNDR

FNDR is a local-first screen memory: a desktop host captures the screen, keeps
the evidence in a vault (SQLite) and in a search index derived from it (Lance),
and serves both to the owner and to agents.  This directory models the parts of
it where order, concurrency, failure and time decide whether it is correct, and
the rules that decide what is kept.  The TLA+ modules are translated from the
Rust sources under `src/crates/`; TLC checks them on small instances, and TLAPS
proves the most important properties for every value of the constants.

To check a module: `tlc -config MCVaultIndex.cfg MCVaultIndex.tla`.
To check its proofs: `tlapm VaultProofs.tla`.
`PROJECT.json` lists the runs, the source lines behind every definition, one
mutation of the code per property that the property detects, the hazards and
the theorems.

## The system

| Part | State it keeps | Operations |
|---|---|---|
| **Vault**: `fndr-store` (`store.rs`, `lance_writer.rs`, `deletion.rs`) | SQLite: records, one chunk each, the stamp `flushed_at_ms` of each chunk, audit log, decisions, feedback. Lance: a table of embedded chunks. | insert or merge a capture, flush a batch, delete by records, time range, domain or all, rebuild the index; the readers' statements |
| **Write path**: `fndr-memory` | none of its own | recheck privacy, redact, decide between inserting a capture and merging it into a pending chunk |
| **Foreground and frames**: `foreground.rs`, `source.rs` | none | the application, title and location in front; the display's pixels |
| **Recognition and cleanup**: `fndr-ocr`, `fndr-textsignal` | none | Vision's observations to lines, lines to evidence |
| **Safety gate and blocklist**: `fndr-privacy` | none | classify metadata and text, redact |
| **Capture pipeline**: `fndr-capture` (`pipeline.rs`, `dedup.rs`, `admission.rs`), `capture_adapters.rs` | two deduplication histories | metadata, privacy gate, admission, grab, perceptual dedup, OCR, semantic dedup, sink |
| **Sampling and cadence**: `sampling.rs`, `capture_scheduler.rs` | times of the last capture and the last successful flush | decide whether to capture or how long to wait; decide whether a tick flushes |
| **Capture threads**: `capture_worker.rs`, `capture_lifecycle.rs`, `app.rs`, `main.rs` | command channel, event channel, the published status and its copy in the sink, the instance lock | start, pause, resume, shutdown, exit, `--run-seconds` |
| **Model worker**: `fndr-inference` (`model_worker.rs`, `gguf_embedder.rs`) | a priority queue, a condition variable, a lazily loaded model | submit, embed, unload when idle, drop |
| **MCP server and search**: `fndr-mcp`, `fndr-retrieval`, `fndr-shell/src/search.rs` | the rate window, the store's mutex | the middleware, the tools, the desktop search |
| **Downloader**: `fndr-downloader` | a `.part` file and the file at the destination | resume, verify, rename |

How they interact.  The main thread starts a *worker thread*, which owns a
scheduler; the scheduler owns the pipeline, the vault and a handle of a *model
worker thread*.  A command channel of capacity one with a rendezvous
acknowledgement connects main thread and worker; a bounded event channel
connects the worker to a *dispatcher thread*, which publishes the status.  A
tick of the worker runs the pipeline and then, if it is due, a flush, which
submits the batch to the model worker and blocks for its answer.  The search
command has a model worker handle of its own.  The MCP server is another
process over the same SQLite file and Lance directory.

What is hard in it: every multi-store operation can be cut by a crash or an
error between two commits; five threads meet over two channels, three mutexes
and one condition variable; the status is published under two locks; decisions
are taken on metadata read earlier than the pixels they are about; text passes
half a dozen filters in three crates, each of which can undo what another
promises; and everything is timed by a wall clock that may be set back.

What each part has to guarantee:

* the vault: no index row outlives its record; a stamp does not lie; whatever
  a crash left, a rebuild repairs; a deletion erases; pending chunks are
  indexed and drains end;
* the capture threads: an acknowledged pause is obeyed and shown, nothing is
  published after `Stopped`, nothing exits over an undrained worker, every
  call returns;
* the model worker: no wakeup is lost, a person's query is not starved, the
  process-wide llama.cpp backend is not leaked, idle memory is given back;
* the cadence: an active operator is captured, commits are spaced, failures
  are retried at once;
* the pipeline: no bursts of the same content are stored, what is blocked is
  not stored;
* the evidence: what the gate refuses by the metadata it reads is never in the
  vault, no line of a text has a secret, what is there was legible on a frame, a
  story stays on its site, and prose is not lost on the way;
* the readers: no answer shows what was deleted before it began, a search
  misses nothing that was indexed throughout, the audit log has the row of an
  answer, with its outcome and what the tool declares released, before the
  answer is given, every call returns;
* the agent's surface: the rate limit is kept and not exceeded in its verdicts,
  polling misses nothing, the tools that count agree with the records;
* the downloader: only the pinned content lands, and in the end it does.

## Modules

Each component with state has a module with its state, `Init`, one action per
operation, handler or step, `Next`, `Spec`, and its properties at the end; an
`MC` module that gives the constants their values; and, where something is
proved, a `Proofs` module.  Operators marked *Regression* in a component's
module are not part of the specification: each is a variant of one action or
helper with a plausible bug in it, and shows which property notices that bug.

### DerivedIndex and VaultIndex

`DerivedIndex` is the promise of ADR-002 about the evidence, whichever records,
texts and rows carry it: the index shows nothing that SQLite does not hold
(`Publish`, `Retract`), and SQLite forgets nothing, by a deletion or a merge, that
the index still shows (`Revise`).  `VaultIndex` is mapped to it by the union of
the texts of its records and of its rows, so that a merge that replaced a text a
cut-off flush had already indexed would break the promise while every row still
has its record.

`VaultIndex` is what the code does.  The variables `live`, `text`,
`capturedAt` and `flushedAt` are the SQLite rows; `rows` and `table` the Lance
table.  The owner holds `&mut Store` across every await, so operations do not
interleave with one another, but every durable write is a step of its own, and
`phase` says which comes next: `OpenTable`, `CreateIndexes`, `AddRows`,
`MarkFlushed` are `LanceWriter::flush_once`; `DeleteIndexRows`, `DeleteTruth`
are `delete_everywhere`; `DropTable`, `ResetFlushState` and the drain loop are
`rebuild`.  `Interrupt` stands between any two of them: the process dies, or
the next call fails and `?` leaves the operation.  `InsertCapture` and
`MergeCapture` are the two ways of `persist_capture`.

Abstractions.  A text is the set of capture moments whose evidence it carries,
which is what deletion has to be about.  The merge candidates are the pending
chunks of the same site in the window: `Continuity` and `CaptureEvidence` have
the scores, and `StoryStaysOnSite` says why the site is enough here.  A record
has one chunk, as the write path gives it, and record identities are distinct
(the code builds them from the process id and a sequence).  `copy` is 1 or 2,
where 2 stands for any further copy of a row already there.

### VaultReaders

Extends `VaultIndex` with those who read the vault while its owner changes it:
a call of an MCP tool (`server.rs`), or of the desktop search (`search.rs`).
The MCP server is another process, so its mutex (`guard`) orders its own calls
only, and the owner's commits come between any two statements of a call:
`Keyword`, `Vector` and `Snippet` are the three phases of a search, `Latest`,
`EvidenceRow` and `Chunks` the statements behind `active_focus` and
`source_evidence`, `PackOne` one item of a context pack.  `Audit` is the row that
every tool writes after its handler has dropped the guard, `AuditFails` a row
that cannot be written, and `Answer` the answer that leaves afterwards.
`ServerStops` is Ctrl-C in the middle of anything, so also between the commit of
the row and the answer: then the log has a row of a call nobody was answered.  `route` is what the desktop shows of its
vector route: missing, failed or available.  `held` and `steady` are auxiliary:
what SQLite held during the call, and what the index held throughout.  A tool
of one statement goes through `Read` or `Write`; what it answers is in
`AgentSurface`.  A query is not blank, it asks for one capture moment or for
nothing, and the limit of a vector query is above the number of rows.

### AgentSurface

The other half of the MCP server: the middleware in front of every request
(`Denied`, `Admitted`, with the rate window of `auth.rs`) and the answers of
`timeline`, `delta`, `explain_retrieval`, `open_target`, `active_focus`,
`recall`, `remember_decision` and `feedback`, with the SQL statements behind
them as operators over the sequence of records.  Each request is one step: the
tool makes one statement under the mutex (`active_focus` two, whose race is in
`VaultReaders`) and is audited; an audit row that cannot be written fails the
call after its work is done.  The owner captures and merges between requests.
`SearchHits` is what a search with the same query may count: the keyword hits
and, when the server was launched with a model (`ModelConfigured`), as many
vector hits as the limit leaves, whichever they are; an explanation announces
only the keyword hits.  `now` is the rate window's clock, an `Instant` that only
moves on, and `Wall` the wall clock behind every other time, which `SetClockBack`
may set back, by no more than `MaxSetBack`.  `Age` is the difference of `Wall` and
the newest capture, clamped to 0 as in `active_focus`.  Until the clock is set
back, captures are committed in the order of `captured_at_ms`, because one worker
makes them; behind a clock set back a capture can be older than what the agent
was last told, and a poll from there does not see it, so that `PollMissesNothing`
is about an agent whose clock has not been set back.
Left out here: deletions.

### SafetyGate, CaptureAdmission, Foreground, OcrText, SignalCleanup, Continuity, LineSequences

The rules that decide what is captured, as operators.  `SafetyGate` has the
gate's verdicts, the URL sanitizer, the redaction and the blocklist's matching;
`CaptureAdmission` the classes of browser surfaces; `Foreground` which
application answers for the screen in front; `OcrText` the way from Vision's
observations to lines and their confidence; `SignalCleanup` the class of an
application and what is chrome; `Continuity` anchors, scores and the merged
text; `LineSequences` what they all do with sequences of lines.  A text is a
record of what the rules measure of it (its words, its
lengths, the substrings of interest it spells), a URL the record of its parts.

### CaptureEvidence

Composes them: `Look` is the foreground, gate and admission of a tick,
`ReadFrame` the recognition and cleanup, `Persist` the recheck, the redaction
and the insert or merge, `Close` the flush or the age that ends a story.
`context` is the metadata as the adapters read it, and every property speaks of
that: whether it is of the window in front is beyond what the code can tell.  The
instance has the screens where it is not, a pre-release of a browser that another
release answers for and a browser the adapter does not know, and a title with a
secret.  Titles are stored as they are read.
`CapturePipeline` has the stages it leaves out.  Simplifications: one line is
one segment (no sentence marks), the cut line of a story at its cap is left
out whole, scores are rounded down to ten-thousandths, texts are not trimmed to
1000 characters before their overlap is measured, sessions are not modelled,
and the sensitive-context policy is the default one: no caller constructs another.

### CaptureLifecycle

The main thread and the timer of `--run-seconds` are the callers, with a
program counter each; `worker` and `dispatcher` are the program counters of
the two threads; `commands` and `events` are the channels.  `status` is the
copy in `CaptureLifecycle`, `shown` the copy in the sink that the window and
the tray read: they are written under different locks, so `StorePaused` and
`EmitPaused`, `StoreEvent` and `EmitEvent`, `StoreStopped` and `EmitStopped`
are separate steps.  The acknowledgement of a pause is a rendezvous: it is part
of `ApplyCommand`.  A tick may panic, and the final drain may fail.

### ModelWorker

Two or more handles in one process, each with a queue and a thread; clients
submit one job at a time.  The sequence number is taken before the queue's
mutex, so `Submit` and `Push` are separate; the shutdown flag and the
notifications are outside the mutex, so `ReadShutdown`, `DropHandle`,
`NotifyAll` and `Notify` are separate too, while the look into the queue and
the beginning of `wait_timeout` hold the mutex together: a worker at `"look"`
has it, and `Push` waits.  Sequence numbers are kept as the set of waiting jobs
ahead of each one.  `LlamaBackend` is external: `init` fails while a backend
exists in the process, and dropping it gives it back.

### CaptureCadence

`SamplingPolicy::decide` and the flush decision, in time.  The code compares
wall-clock readings; the model keeps their ages.  `SetClockBack` makes ages
smaller, and `saturating_sub` reads a negative one as zero.  `Tick` takes the
reading, `TickEnds` is what happens when the pipeline and the embedding have
taken their time, up to `TickTime`: whether the flush is due, and what is kept
as the time of the last success, go by the reading at the tick's beginning, and
the commit comes at its end.  Otherwise threads react at once, and time passes
only in waits, ticks and pauses.  `sinceTick`, `sinceFlushed` (since the tick
that last flushed began), `sinceCommit` (since its commit) and `activeFor` are
auxiliary: real time, to compare with.

### CapturePipeline

One tick after the other through `run_tick_inner`, a stage per action, with
both deduplicators and the sink, while the operator switches screens.  A screen
stands for a foreground application, its image (a point on a line, so that
"near" is not transitive) and its text.  The verdicts of the privacy gate and
the admission policy are sets of screens: their rules are in `CaptureEvidence`.
`MaySwitch` says whether the foreground may change during a tick.

### ModelDownload

`download_verified`, called again and again as `fetch_model` does.  A file is a
sequence of blocks and its own digest.  `Resume` and `Restart` are the two
requests, `Receive` and `EndOfBody` the stream, `Check` and `Rename` the end.
`Breaks`, `Crash`, `PowerLoss` (which garbles what was not synced), `Truncated`
and `ServerChanges` are the faults, bounded by `MaxFaults`.  One download of a
destination runs at a time, which the code leaves to its caller.

## Runs

| Run | Question | Instance | Result |
|---|---|---|---|
| `vault` | Do the two stores stay in step through crashes; is everything pending indexed; do drains end? | 3 records, 3 captures of 2 sites, batches of 2, 1 interruption; 314,102 states | holds |
| `readers` | What does a call answer while the vault changes under it? | 1 call of any tool, 2 records, 2 captures, 1 interruption; 1,261,094 states | holds |
| `agent` | Is the rate limit honest, does polling miss nothing, do the counts agree? | 1 request a second of two ticks, 3 requests, 2 records, 4 instants, clock set back by up to 1; 1,355,619 states | holds |
| `evidence` | What can be in the vault after any two captures? | 21 screens, with pre-releases, an unknown browser and a title with a secret; 23 frames, 2 captures; 155,617 states | holds |
| `download` | What lands, and does it land? | 4 versions of the file, 3 faults; 9,296 states | holds |
| `lifecycle` | Pause, stop and exit in every order | timer thread, event buffer of 3, panics, failing drains; 15,498 states | holds |
| `worker` | Wakeups, priorities, memory, drop, backend | 2 handles, 3 clients, panics; 37,909 states | holds |
| `cadence` | Is the operator captured, are commits spaced and flushes timely? | intervals in the order of the defaults, ticks of up to 2, clock set back by up to 2; 1,051,992 states | holds |
| `pipeline` | Are bursts stored? | 6 screens, window of 1; 423,123 states | holds |
| `vault_range_delete` | Does a deletion by time range erase the range? | 2 records, 3 captures | violated |
| `lifecycle_paused` | Is the shown pause true? | event buffer of 2, no timer, no panics | violated |
| `pipeline_switch` | Does a switch during a tick store what is blocked? | 2 screens | violated |

Why these bounds are enough.  The vault's operations treat records alike and a
crash window concerns one batch: three records give a batch that is full, a
rest that is not, and a record outside both; one interruption can fall between
any two commits, and the next flush, merge, rebuild or deletion meets what it
left.  A larger instance with two interruptions (a flush cut twice, a rebuild cut
after it) also holds, in three minutes: set `MaxInterrupts = 2`.  One call is
enough for the readers: calls share nothing but the mutex, the log, to which each
adds its own row, and a vault that none of them changes; and a call that keeps
the mutex is caught waiting for itself.  Three captures over two sites let a
merge move a record past a range and let two sites meet in one window.  The
agent's two records and three requests let two captures fall on one instant on
either side of a poll, and let a window's limit be met, passed and reset; the
hour and the day have different widths, so that buckets begin before, in and
after the window.  The evidence needs two captures: a record is the product of
one capture or of a merge of two, and a merge of more is a merge of a merged
text.  Its screens are one of each kind the rules tell apart, its frames every
single line, every pair of evident lines, an evident line after a faint one, a
secret or a tab strip, and a line that comes back.  The download's versions differ from the pinned file in
content, in length by one and by a prefix, and three faults can break a
download, change the server and break the resumption.  The lifecycle has one of
each thread; an event buffer of three is more than the dispatcher can be behind
before the channel overflows, which happens.  The worker's two handles are
what the host has, one of them shared by a backfill and a query.  The cadence's
intervals 1 < 2 < 3 < 4 < 5 < 6 keep the order of the defaults (2, 15, 30, 60,
120 and 300 seconds), so that every comparison of the code goes both ways.
The pipeline's screens are one of each kind: captured, animated (another image,
the same text), kept by URL, with a title the final check refuses, blocked and
skipped; the perceptual history of three fills and is trimmed.
`CHECK_DEADLOCK FALSE` is set where the system stops or a bound is reached: the
process exits, all handles are dropped, the readers' calls have ended, the
artifact is there, the last capture or request was made.

### Fairness

`vault`: an operation that was started is carried on (weak fairness of
`OwnerStep`), because it is one `await` chain of one thread; and the worker's
tick comes round again between other operations (strong fairness of a single
flush), because nothing in the code requests deletions or rebuilds in a loop
without ever letting the loop of the worker go on.  Captures, deletions,
rebuilds and interruptions are never forced.
`readers`: a call that was begun is carried on (weak fairness, an HTTP task or
a thread of its own); nobody has to call, and the owner owes nothing.
`lifecycle`: every thread that can run does; nobody has to call anything.
`worker`: threads run, `wait_timeout` returns in the end (its time-out is
finite); no client has to submit, no handle has to be dropped, no panic has to
happen.
`download`: somebody tries again and a download that runs goes on (weak fairness
of its steps); no fault is forced, and the server need never have the file:
`DownloadCompletes` is about those that come to have it.
The remaining runs check safety only.

## What the runs show, and what they found

The passing runs say that the design of the vault does what its comments
promise: deletion takes the index first, the stamp follows the Lance commit,
so that a crash costs at most duplicate rows and missing rows, both repaired by
a rebuild, and never an index row of a deleted record.  A drain ends if its
stamps are not 0.  A search that overlaps a deletion or a rebuild shows nothing
that was gone before it began and misses nothing that was indexed throughout, on
the server and wherever the desktop says its vector route was available.  An
audit row is there before the answer it is about.  Pauses are obeyed, `Stopped`
is final, drains are waited for except where `--run-seconds` is already stopping;
no wakeup is lost; queries overtake backfill; the backend is not leaked by a
failing load.  Commits keep their distance up to the length of a tick, and
neither captures nor flushes are later than the clock was set back.  Nothing that
the gate refuses by the metadata it reads, no line of text with a secret and no
hidden part of a URL gets into the vault, through the metadata, the frame or a
merge; each line of a record was legible on a frame of it; merges keep to a site.
No `.part` file stands in the way of the pinned one.

Three runs have the result *violated*: each shows on a short trace that a statement
of the repository does not hold of the code; `PROJECT.json` quotes the line:

* **Range deletion leaves text behind** (`vault_range_delete`).  A merge moves
  `captured_at_ms` to the newest capture, and a deletion by time range selects
  by that column: evidence captured inside the range survives when it was
  merged with a later capture.  PRD.md:173 promises the opposite.  Deletions by
  site do not have the problem, because merges stay within a site
  (`SiteDeletionErases`).
* **A pause can be shown while captures go on** (`lifecycle_paused`).  The
  dispatcher reads the published state, releases the mutex and publishes later;
  a resume in between is overwritten, and every later event renews `Paused`.
* **A blocked screen can be stored** (`pipeline_switch`).  The gate decides on
  metadata read before the grab; the grab takes whatever is in front later.

## Behaviour of the code worth knowing

What follows is in the code, and in the models where they reach that far; no run
is spent on it.

*Vault and cadence.*  The benchmark stamps its batches with 0 (`fndr-bench`
`lib.rs:234`), the value that means pending, so each batch is read again and its
drain never ends; `DrainEnds` is about the nonzero stamps of every other caller,
and the instance stamps one of them.  The row of a cut-off flush goes stale when a merge follows
(`SingleCurrentRow` allows it for `unstamped` records).  A crash between creating
the Lance table and its indexes leaves a table without them until a rebuild.
`lance_writer.rs:54-55` says a full batch should be followed by another flush
soon; `batch_was_full` is reported and never read.  A merge drops segments of
fewer than 12 bytes.  Two processes that open a fresh vault at once race through
its migrations, and the second one's open fails.

*Threads.*  The `--run-seconds` timer takes the lifecycle out of its mutex before it
drains it, so a Quit meanwhile finds none, returns at once and ends the process
over the drain (`app.rs:336-342`), although `capture_lifecycle.rs:42-43` promises the
drain before the exit: `DrainBeforeExit` has this one exception.  When the flush of a
shutdown fails, `shutdown` returns before it publishes a terminal status
(`capture_lifecycle.rs:188`): `StoppedIsFinal` is about what is published, not that
something is.  A comment in `search.rs:77-80` expects two copies of the model when
capture and search are both active; the backend can be initialized once at a time, so
the second load is refused and its job fails (`gguf_embedder.rs:42`), and
`BackendHeldByModel` holds because it is refused cleanly.  Clients of a model worker that panicked wait for ever: the
queue lives on in the handle's `Arc`, so the senders of its jobs are never
dropped (`model_worker.rs:121`).  A wall clock set back delays captures and
flushes by as much (`setBack` in `ActiveIsCaptured` and `FlushIsTimely`).  The
semantic window slides, so content that keeps coming is suppressed for as long
as it does.  The forced-capture threshold of the sampling policy has no effect
on an active operator, because the active interval is shorter.

*Evidence.*  A Chrome Canary in front is asked as Google Chrome (`foreground.rs:76`),
so a Chrome behind it can answer, and its title and location are judged and stored as
the screen's, which `foreground.rs:94-103` says exact matching is there to rule out.
Vivaldi and Chromium (`fndr-textsignal` `app.rs:99,104`) are unknown to
`foreground.rs:66-92` and read by their window titles, without a URL, so that no rule
on URLs applies to them: a bank or a blocked site is stored from there, against
PRD.md:168, unless its title gives it away.  Only the text is redacted: a title is
stored with a secret in it (`write_path.rs:81`).  `PrivateStaysOut` therefore says what
the gate refuses *by the metadata it reads*, and speaks of the lines of the text and the
URL; `TextIsEvidence` says what was legible or *read*.  The low-confidence marker is put before a line before the noise
rules see it, so rules anchored at the beginning never match lines at 0.50.  The
pattern for "AM" and "PM" matches inside any line.  The desktop is given an empty
blocklist (`app.rs`).

*Readers.*  A search returns excerpts of stored text, and its audit row has
`raw_released` false (`server.rs:538`), although `store.rs:738` says that the flag marks
the calls that handed back stored capture text: `AuditIsExact` is about what each tool
declares.  An explanation says that only the keyword route exists (`server.rs:805`),
also on a server with a vector route: `AnswersAddUp` is about the keyword hits.  A clock
set back behind the newest capture makes its age 0 and the focus active
(`server.rs:1010`), which the comment above that line rules out: `AnswersAddUp` counts a
capture ahead of the clock as recent, as the code does.  A hit whose record is deleted before its snippet is read stays in
the answer with an empty snippet.  `active_focus` answers "none" when the newest
record is deleted between its two statements, although others exist.  While
the Lance table is missing, as in a rebuild, the MCP search refuses the whole
call and the desktop shows its keyword hits beside the state `Failed`.  A
decision stays in the ledger when its audit row could not be written, as the
comment of `audit` accepts, and a retry leaves a second one.
`fts_terms` joins words divided by punctuation: "main.rs" is looked
for as "mainrs".  A timeline is marked truncated when it has exactly as many
buckets as its limit.

## Proofs

| Module | Theorems | Inductive invariant |
|---|---|---|
| `VaultProofs` | `VaultIndex`: types; `NoOrphanRows`; a stamp implies a current row; duplicates only from a cut flush; a rebuild reaches the truth; a deletion by site erases; every step is a step of `DerivedIndex` or a stutter | `OrphanInv`: a batch in flight is pending and current, only the phases between read and stamp have one, and after the index step of a deletion no row of a target is left. `PromiseInv` adds that the text of a row is part of the text of its record, whatever flush was cut off before: a merge only adds. `IndexInv` adds that rows exist before the stamp, that a pending chunk has rows only in that window or after a cut there, and that a rebuild starts clean. `SiteInv`: every text, in a record or in a row, is of the site of its record, and the targets of a deletion are those of its scope until it ends. |
| `VaultProofs` | `VaultReaders`: types; answers were true; a chunk appears once; the audit log has the row of an answer before the answer; searches miss nothing | `CallInv`: at each stage of a call, what its hits are worth: held by SQLite at some moment, one for each record, none before it has read; and what the log has of it: nothing before the row, one row from there to the answer. `SearchInv` adds that what is steady is current until the call ends, and seen once its vector stage is over. Both rest on `OrphanInv` and `IndexInv`, which hold because every step of the composition is a step of `VaultIndex` or a stutter. |
| `AgentSurfaceProofs` | types; while the clock is not set back a polling agent misses nothing; the rate limit is honest; the tools that count agree with the records | `PollInv` adds `CursorReached`: while the clock is not set back, some record is as new as the cursor. `RateInv` adds `GateInv`: the count is how many requests passed in the window, as far as the limit goes, and at most one window's worth passed in the second before the window began, hence at most two in any second. `AnswersInv` adds the type of the ledger: an answer is about the records at its instant; what is shown is that ordering, `LIMIT`, buckets and counts of finitely many rows agree. |
| `CaptureEvidenceProofs` | what the gate refuses by the metadata it reads is not in the vault; a story stays on its site; each line was legible on a frame; prose is kept | `EvidenceInv`: the contexts of every record are allowed and on its site, and every line is clean and was legible on one of its frames (`Sound`); a capture in progress has these of its own. A merge keeps it because the write path has no embeddings (`Vector = 0`), so that no score but the one of equal anchors passes, and equal anchors are one site. `KeptInv` adds that the text of a capture about to be persisted has each line of prose its frame showed, free of secrets and long enough to be a segment, and that no line in progress or in the vault is longer than `LongestLine`: what trimming leaves below the cap by more than that was not trimmed. |
| `ModelDownloadProofs` | types; only the pinned content lands | `IInv`: a `.part` file exists while it is streamed, and is the pinned content once the check has passed. |
| `CaptureLifecycleProofs` | types; pauses obeyed; `Stopped` final; drain before exit | `CoreInv`: who may hold the lock, one stopper, at most one command with a caller behind it, what `told` means. `StopInv`: the order in which a stop ends worker, dispatcher and status. |
| `ModelWorkerProofs` | types, and a job stays with the handle it was submitted to; no lost wakeup; backend never leaked | `IInv`: every queued or popped job has a client inside `submit`, and a thread about to load has no model. |
| `CaptureCadenceProofs` | types; commits spaced; flushes timely; failures retried; an active operator is captured | `FlushInv`: the wall clock never makes a flush look older than it is, nor younger by more than the clock was set back; the reading of a tick is no older than the tick; a failed flush stays due. `ActiveInv`: the age of the last capture lags by no more than the clock was set back, and a wait ends before the operator has been active for an idle interval, or when the active interval is over. |
| `CapturePipelineProofs` | types; no stored burst | `WindowCovers`: the semantic window is never older than the last stored capture; `SinkIsClear`: a capture that reaches the sink passed it. |

Why the strengthenings are needed: the checked invariants speak of stores and
answers, and what keeps them true is what an operation in progress may rely on
half-way, so each invariant adds what holds at each phase.

Assumptions.  The `ASSUME`s of the modules give the types of the constants, and
what the code fixes of them: `LimitsAssumption` has that the store's limit of a
search is not above the tool's (both are 50, `store.rs:32` and `server.rs:547`),
`WritePathAssumption` that captures are persisted without embeddings and that the
placeholder of a redaction is no secret.  `InputsAssumption` says also that the
empty title and location are texts, which the provers cannot see: none of them
gives the literal `""` a type.  Some theorems need a hypothesis that
the code leaves to its surroundings, and name it:

* `ClockRuns`, no flush stamps 0: `StampImpliesIndexed`,
  `DuplicatesOnlyFromCutFlush`, `RebuildReachesTruth`, `SearchesMissNothing`;
* `DeepIdleIsDeeper`, the longer idle time is the deep one, as in the defaults
  (`ActiveIsCapturedAlways`);
* `TitlesAreNoPlaces`, no title that is read is its own location:
  `TextIsEvidenceAlways`;
* `LinesAreTexts`, `LongestLineBounds`, `SegmentsAreEnough`, which say of the model's
  records what a text has by being one (no more characters than bytes, a path in it
  is a symbol in it, equal names measure the same), that a frame is within the
  220 lines that are kept, and that 12 bytes, the length of a segment, are enough
  for a line (7) and for a frame (12 characters): `ProseIsKeptAlways`.

The instance of `evidence` asserts the last four of itself, the others are
evident in the configurations.

What the provers have no rule for is written so that they need none: the
selections and sums of `LineSequences` are `Picked`, by positions, and `Total`, both
recursive functions, and the ordered statements of the agent's surface are `Sorted`,
some enumeration in that order, instead of the library's `SelectSeq`, `SortSeq` and
folds, which have no definition in the prover's library.
The same for `Min` and `Max` of sets, whose existence is proved by well-founded
minima, and for the functions defined by recursion, of which only what they
return is used (`PickedElements`, `PickedAll`, `TotalGrows`, `SegmentsSaid`).

Model-checked only: the liveness properties (`PendingGetsIndexed`, `DrainEnds`,
`ControlReturns`, `StopReturns`, `InteractiveAnswered`, `IdleModelReclaimed`,
`DropReturns`, `CallReturns`, `DownloadCompletes`), which are beyond the prover.
Every other property of the passing runs is a theorem.

## Not modelled, and why

* Ranking and limits of searches, and the application names the desktop adds to
  its hits: nothing a property here could be about without the scores.
* Vision, AppKit, the scripts, ScreenCaptureKit and llama.cpp: external; their
  answers and failures are what the models begin with.
* Embedding vectors, pooling and truncation: floating-point arithmetic without
  state.
* Perceptual hashes: `CapturePipeline` takes their distances as given.
* The fallback snippets, the salience scores and the noise score of
  `cleanup.rs`: the capture path does not use them.
* The schema migrations: one transaction each at open; the race of two first
  openers is described above.
* Sensitive-context policies other than the default, which no caller constructs,
  and the session key of the write path.
* UI, IPC wrappers, benchmark metrics, the early skeleton, and the crates that
  are placeholders.

## Plan

1. The instance lock against a second process, and a blocked start, in
   `CaptureLifecycle`; the migrations of two first openers.
2. The desktop's application names as a fourth phase of its search.
3. The seven hazards without a property: `PROJECT.json` says of each why it has none,
   and which model would have to reach further.
