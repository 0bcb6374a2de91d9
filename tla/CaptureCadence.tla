-------------------------- MODULE CaptureCadence --------------------------
(***************************************************************************)
(* When the capture worker captures and when it flushes: the sampling      *)
(* policy (sampling.rs), the worker's loop around it (capture_worker.rs)   *)
(* and the flush cadence of a tick (capture_scheduler.rs), in real time.   *)
(*                                                                         *)
(* The code compares readings of the wall clock.  Only their differences   *)
(* matter, so the state keeps ages: how long ago the reading was taken, as *)
(* the wall clock tells it.  A clock set back makes ages smaller; below    *)
(* zero, saturating_sub reads zero.  An age at Cap means "longer than any  *)
(* threshold".                                                             *)
(*                                                                         *)
(* Threads react at once and time passes only while nothing is due.        *)
(***************************************************************************)
EXTENDS Integers

CONSTANTS ActiveInterval, IdleInterval, IdleAfter, DeepIdleAfter, ForcedAfter,
                          \* SamplingPolicy
          FlushInterval,  \* flush_interval
          BatchSize,      \* FLUSH_BATCH_SIZE
          MaxPending,     \* chunks the model counts (bound)
          TickTime,       \* longest tick (bound)
          MaxSetBack      \* how far the wall clock is set back in all (bound)

ASSUME PolicyAssumption ==
    /\ ActiveInterval \in Nat \ {0} /\ IdleInterval \in Nat \ {0}
    /\ IdleAfter \in Nat /\ DeepIdleAfter \in Nat /\ ForcedAfter \in Nat
    /\ FlushInterval \in Nat \ {0} /\ BatchSize \in Nat \ {0}
    /\ MaxPending \in Nat \ {0} /\ TickTime \in Nat /\ MaxSetBack \in Nat

Least(a, b)    == IF a < b THEN a ELSE b
Greatest(a, b) == IF a < b THEN b ELSE a
Elapsed(age)   == Greatest(age, 0)        \* saturating_sub
Threshold == Greatest(Greatest(IdleInterval, ActiveInterval),
             Greatest(Greatest(IdleAfter, DeepIdleAfter), Greatest(ForcedAfter, FlushInterval)))
Cap       == Threshold + IdleInterval + TickTime + MaxSetBack + 1

VARIABLES
    pc,           \* "decide", "tick" (in the pipeline or the flush), "wait", "paused"
    left,         \* time left of the recv_timeout, or spent in the tick
    idle,         \* input_idle: real time since the last input
    sinceCapture, \* age of last_capture_ms
    sinceFlush,   \* age of last_successful_flush_ms
    pending,      \* chunks not in Lance yet
    flush,        \* the last tick's FlushTickOutcome, and its batch_was_full
    setBack       \* how far the wall clock was set back so far

\* Auxiliary, in real time.
VARIABLES
    sinceTick,    \* since the last tick began
    sinceFlushed, \* since the tick of the last successful flush began
    sinceCommit,  \* since the last successful flush committed
    activeFor     \* how long nobody paused and the operator was not idle

loopVars == <<pc, left>>
wallVars == <<sinceCapture, sinceFlush>>
flushedVars == <<sinceFlushed, sinceCommit>>
realVars == <<sinceTick, flushedVars, activeFor>>
vars == <<loopVars, idle, wallVars, pending, flush, setBack, realVars>>

Ages     == (-MaxSetBack)..Cap
Outcomes == {"not_due", "flushed", "flushed_full", "failed"}

TypeOK ==
    /\ pc \in {"decide", "tick", "wait", "paused"}
    /\ left \in 0..Cap /\ idle \in 0..Cap
    /\ sinceCapture \in Ages /\ sinceFlush \in Ages
    /\ pending \in 0..MaxPending
    /\ flush \in Outcomes
    /\ setBack \in 0..MaxSetBack
    /\ sinceTick \in 0..Cap /\ sinceFlushed \in 0..Cap /\ sinceCommit \in 0..Cap
    /\ activeFor \in 0..Cap

\* last_capture_ms starts at 0, ages ago; last_successful_flush_ms at started_at_ms.
\* The vault may hold chunks an earlier process left pending.
Init ==
    /\ pc = "decide" /\ left = 0
    /\ idle = 0
    /\ sinceCapture = Cap /\ sinceFlush = 0
    /\ pending \in 0..MaxPending
    /\ flush = "not_due"
    /\ setBack = 0
    /\ sinceTick = 0 /\ sinceFlushed = 0 /\ sinceCommit = Cap /\ activeFor = 0

-----------------------------------------------------------------------------
(* SamplingPolicy::decide                                                  *)

\* Regression: deep idle sleeps as long as it takes to count as deep idle.
DecideSleepsLong ==
    IF idle >= DeepIdleAfter THEN [kind |-> "wait", for |-> DeepIdleAfter]
    ELSE LET interval == IF idle >= IdleAfter THEN IdleInterval ELSE ActiveInterval
             wait     == interval - Elapsed(sinceCapture)
         IN  IF Elapsed(sinceCapture) < ForcedAfter /\ wait > 0
             THEN [kind |-> "wait", for |-> wait]
             ELSE [kind |-> "capture", for |-> 0]

Decision ==
    IF idle >= DeepIdleAfter THEN [kind |-> "wait", for |-> IdleInterval]
    ELSE LET interval == IF idle >= IdleAfter THEN IdleInterval ELSE ActiveInterval
             wait     == interval - Elapsed(sinceCapture)
         IN  IF Elapsed(sinceCapture) < ForcedAfter /\ wait > 0
             THEN [kind |-> "wait", for |-> wait]
             ELSE [kind |-> "capture", for |-> 0]

-----------------------------------------------------------------------------
(* CaptureScheduler::tick: the pipeline, then the flush if it is due by the *)
(* reading of the clock that decided on the tick, now_ms.  The flush ends   *)
(* when the pipeline and the embedding have taken their time.              *)

\* run_capture_loop sets last_capture_ms to now_ms, so that its age is now_ms's.
Tick ==
    /\ pc = "decide" /\ Decision.kind = "capture"
    /\ pc' = "tick" /\ left' = 0
    /\ sinceCapture' = 0 /\ sinceTick' = 0
    /\ UNCHANGED <<idle, sinceFlush, pending, flush, setBack, flushedVars, activeFor>>

\* Regression: every tick flushes.
EveryTick == TRUE

Due == Elapsed(sinceFlush - sinceCapture) >= FlushInterval

\* last_successful_flush_ms becomes now_ms, not the time of the commit.
Flushed(chunks) ==
    /\ flush' = IF chunks >= BatchSize THEN "flushed_full" ELSE "flushed"
    /\ pending' = chunks - Least(chunks, BatchSize)
    /\ sinceFlush' = sinceCapture
    /\ sinceFlushed' = sinceTick /\ sinceCommit' = 0

\* Regression: a failed flush counts as the last one.
FlushFailedCounts(chunks) ==
    /\ flush' = "failed"
    /\ pending' = chunks
    /\ sinceFlush' = sinceCapture
    /\ UNCHANGED flushedVars

FlushFailed(chunks) ==
    /\ flush' = "failed"
    /\ pending' = chunks
    /\ UNCHANGED <<sinceFlush, flushedVars>>

\* Regression: the tick's time is kept as the last flush's whether it flushed or not.
NotDueCounts(chunks) ==
    /\ flush' = "not_due"
    /\ pending' = chunks
    /\ sinceFlush' = sinceCapture
    /\ UNCHANGED flushedVars

NotDue(chunks) ==
    /\ flush' = "not_due"
    /\ pending' = chunks
    /\ UNCHANGED <<sinceFlush, flushedVars>>

FlushTick(chunks) ==
    \/ Due /\ (Flushed(chunks) \/ FlushFailed(chunks))
    \/ ~Due /\ NotDue(chunks)

\* The pipeline stored the capture, or some stage of it skipped or failed the tick;
\* then the flush, and the command read after the tick, or none.
TickEnds(stored) ==
    /\ pc = "tick"
    /\ FlushTick(IF stored THEN Least(pending + 1, MaxPending) ELSE pending)
    /\ pc' \in {"decide", "paused"} /\ left' = 0
    /\ activeFor' = IF pc' = "paused" THEN 0 ELSE activeFor
    /\ UNCHANGED <<idle, sinceCapture, setBack, sinceTick>>

-----------------------------------------------------------------------------
(* run_capture_loop: waits and commands                                    *)

StartWait ==
    /\ pc = "decide" /\ Decision.kind = "wait"
    /\ pc' = "wait" /\ left' = Decision.for
    /\ UNCHANGED <<idle, wallVars, pending, flush, setBack, realVars>>

\* recv_timeout times out, or returns a resume to an unpaused worker.
WaitEnds ==
    /\ pc = "wait"
    /\ pc' = "decide" /\ left' = 0
    /\ UNCHANGED <<idle, wallVars, pending, flush, setBack, realVars>>

Pause ==
    /\ pc = "wait"
    /\ pc' = "paused" /\ left' = 0
    /\ activeFor' = 0
    /\ UNCHANGED <<idle, wallVars, pending, flush, setBack, sinceTick,
                   flushedVars>>

Resume ==
    /\ pc = "paused"
    /\ pc' = "decide" /\ left' = 0
    /\ UNCHANGED <<idle, wallVars, pending, flush, setBack, realVars>>

-----------------------------------------------------------------------------
(* The operator, the clock and time                                        *)

Input ==
    /\ idle > 0 /\ pc # "decide"
    /\ idle' = 0
    /\ activeFor' = IF idle >= IdleAfter THEN 0 ELSE activeFor
    /\ UNCHANGED <<loopVars, wallVars, pending, flush, setBack, sinceTick,
                   flushedVars>>

SetClockBack(by) ==
    /\ setBack + by <= MaxSetBack /\ pc # "decide"
    /\ setBack' = setBack + by
    /\ sinceCapture' = Greatest(sinceCapture - by, -MaxSetBack)
    /\ sinceFlush' = Greatest(sinceFlush - by, -MaxSetBack)
    /\ UNCHANGED <<loopVars, idle, pending, flush, realVars>>

Older(age) == Least(age + 1, Cap)

TimePasses ==
    /\ \/ pc = "wait" /\ left > 0 /\ left' = left - 1
       \/ pc = "tick" /\ left < TickTime /\ left' = left + 1
       \/ pc = "paused" /\ UNCHANGED left
    /\ idle' = Older(idle)
    /\ sinceCapture' = Older(sinceCapture) /\ sinceFlush' = Older(sinceFlush)
    /\ sinceTick' = Older(sinceTick)
    /\ sinceFlushed' = Older(sinceFlushed) /\ sinceCommit' = Older(sinceCommit)
    /\ activeFor' = IF pc = "paused" \/ idle' >= IdleAfter THEN 0 ELSE Older(activeFor)
    /\ UNCHANGED <<pc, pending, flush, setBack>>

Next ==
    \/ Tick
    \/ \E stored \in BOOLEAN : TickEnds(stored)
    \/ StartWait \/ WaitEnds
    \/ Pause \/ Resume \/ Input
    \/ \E by \in 1..MaxSetBack : SetClockBack(by)
    \/ TimePasses

Spec == Init /\ [][Next]_vars

-----------------------------------------------------------------------------
(* Properties                                                              *)

TickDone == pc = "tick" /\ pc' # "tick"

\* An active operator is captured: once nobody paused and the operator was not
\* idle for an idle interval, the last tick began no longer ago than an active
\* interval, or a tick that took longer, even right after deep idle or a pause.
\* The clock is no monotonic one: set back, it stalls capture by as much, and by
\* no more.
ActiveIsCaptured ==
    activeFor > IdleInterval =>
        sinceTick <= Greatest(ActiveInterval + setBack, TickTime)

\* Ordinary ticks never churn Lance commits: in real time, and also when the clock
\* is set back, the ticks of two successful flushes begin a flush interval apart or
\* more, so that the commits fall short of one by no more than the earlier tick took.
CommitsAreSpaced ==
    [][TickDone /\ flush' \in {"flushed", "flushed_full"} =>
          /\ sinceFlushed - sinceTick >= FlushInterval
          /\ sinceCommit >= FlushInterval - TickTime]_vars

\* A clock set back stalls the flush by as much and by no more: a tick that does not
\* try to flush began within a flush interval and what the clock was set back of the
\* tick that last flushed, or of the start of the worker.
FlushIsTimely ==
    [][TickDone /\ flush' = "not_due" =>
          sinceFlushed - sinceTick < FlushInterval + setBack]_vars

\* A failed flush is tried again on the very next tick, unless the clock was set
\* back.
FailureIsRetried ==
    [][TickDone /\ flush = "failed" /\ setBack = 0 => flush' # "not_due"]_vars
=============================================================================
