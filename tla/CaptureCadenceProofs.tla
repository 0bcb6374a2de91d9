----------------------- MODULE CaptureCadenceProofs -----------------------
(***************************************************************************)
(* The flush cadence of CaptureCadence, for every policy and every flush   *)
(* interval.                                                               *)
(***************************************************************************)
EXTENDS CaptureCadence, TLAPS

\* What the numbers are: Cap is above every threshold.
LEMMA CapBounds ==
    /\ Cap \in Nat
    /\ FlushInterval <= Cap /\ IdleInterval <= Cap /\ ActiveInterval <= Cap
    /\ TickTime <= Cap /\ MaxSetBack <= Cap
    /\ FlushInterval <= Cap - TickTime
  BY PolicyAssumption DEF Cap, Threshold, Greatest

\* A decision to wait never waits longer than an interval.
LEMMA DecisionBounds ==
  ASSUME TypeOK
  PROVE  Decision.kind = "wait" => Decision.for \in 0..Cap
<1> USE PolicyAssumption, CapBounds
<1>1. Elapsed(sinceCapture) \in Nat
  BY DEF TypeOK, Ages, Elapsed, Greatest
<1>2. CASE idle >= DeepIdleAfter
  BY <1>2 DEF Decision
<1>3. CASE ~(idle >= DeepIdleAfter)
  <2> DEFINE interval == IF idle >= IdleAfter THEN IdleInterval ELSE ActiveInterval
             wait     == interval - Elapsed(sinceCapture)
  <2>1. interval \in 0..Cap
    OBVIOUS
  <2>2. wait > 0 => wait \in 0..Cap
    BY <1>1, <2>1
  <2>3. Decision = IF Elapsed(sinceCapture) < ForcedAfter /\ wait > 0
                   THEN [kind |-> "wait", for |-> wait]
                   ELSE [kind |-> "capture", for |-> 0]
    BY <1>3 DEF Decision
  <2> HIDE DEF wait
  <2> QED
    BY <2>2, <2>3
<1> QED
  BY <1>2, <1>3

-----------------------------------------------------------------------------
(* Type correctness                                                        *)

\* The next age of an age is an age.
LEMMA OlderType ==
  ASSUME NEW age \in Ages
  PROVE  Older(age) \in Ages /\ (age \in 0..Cap => Older(age) \in 0..Cap)
  BY PolicyAssumption, CapBounds DEF Ages, Older, Least

\* A flush leaves counters and ages in their ranges.
LEMMA FlushType ==
  ASSUME TypeOK, NEW chunks \in 0..MaxPending, FlushTick(chunks)
  PROVE  /\ pending' \in 0..MaxPending /\ flush' \in Outcomes
         /\ sinceFlush' \in Ages /\ sinceFlushed' \in 0..Cap /\ sinceCommit' \in 0..Cap
<1> USE PolicyAssumption, CapBounds DEF TypeOK
<1>1. 0 \in Ages /\ 0 \in 0..Cap
  BY DEF Ages
<1>2. CASE Flushed(chunks)
  <2>1. chunks - Least(chunks, BatchSize) \in 0..MaxPending
    BY DEF Least
  <2> QED
    BY <1>1, <1>2, <2>1 DEF Flushed, Outcomes
<1>3. CASE FlushFailed(chunks)
  BY <1>3 DEF FlushFailed, flushedVars, Outcomes
<1>4. CASE NotDue(chunks)
  BY <1>4 DEF NotDue, flushedVars, Outcomes
<1> QED
  BY <1>2, <1>3, <1>4 DEF FlushTick

\* Every step keeps the type invariant.
LEMMA TypeStep == TypeOK /\ [Next]_vars => TypeOK'
<1> SUFFICES ASSUME TypeOK, [Next]_vars PROVE TypeOK'
  OBVIOUS
<1> USE PolicyAssumption, CapBounds
<1>0. 0 \in Ages /\ 0 \in 0..Cap
  BY DEF Ages
<1>1. ASSUME Tick PROVE TypeOK'
  BY <1>0, <1>1 DEF Tick, TypeOK, flushedVars
<1>2. ASSUME NEW stored \in BOOLEAN, TickEnds(stored) PROVE TypeOK'
  <2> DEFINE chunks == IF stored THEN Least(pending + 1, MaxPending) ELSE pending
  <2>1. chunks \in 0..MaxPending
    BY DEF TypeOK, Least
  <2>2. FlushTick(chunks)
    BY <1>2 DEF TickEnds
  <2>3. /\ pending' \in 0..MaxPending /\ flush' \in Outcomes
        /\ sinceFlush' \in Ages /\ sinceFlushed' \in 0..Cap /\ sinceCommit' \in 0..Cap
    BY <2>1, <2>2, FlushType
  <2>4. /\ pc' \in {"decide", "paused"} /\ left' = 0
        /\ activeFor' = 0 \/ activeFor' = activeFor
        /\ UNCHANGED <<idle, sinceCapture, setBack, sinceTick>>
    BY <1>2 DEF TickEnds
  <2> HIDE DEF chunks
  <2> QED
    BY <1>0, <2>3, <2>4 DEF TypeOK
<1>3. ASSUME StartWait PROVE TypeOK'
  <2>1. Decision.for \in 0..Cap
    BY <1>3, DecisionBounds DEF StartWait
  <2> QED
    BY <1>3, <2>1 DEF StartWait, TypeOK, wallVars, realVars, flushedVars
<1>4. ASSUME WaitEnds PROVE TypeOK'
  BY <1>0, <1>4 DEF WaitEnds, TypeOK, wallVars, realVars, flushedVars
<1>5. ASSUME Pause PROVE TypeOK'
  BY <1>0, <1>5 DEF Pause, TypeOK, wallVars, flushedVars
<1>6. ASSUME Resume PROVE TypeOK'
  BY <1>0, <1>6 DEF Resume, TypeOK, wallVars, realVars, flushedVars
<1>7. ASSUME Input PROVE TypeOK'
  BY <1>0, <1>7 DEF Input, TypeOK, wallVars, loopVars, flushedVars
<1>9. ASSUME NEW by \in 1..MaxSetBack, SetClockBack(by) PROVE TypeOK'
  <2>1. setBack' \in 0..MaxSetBack
    BY <1>9 DEF SetClockBack, TypeOK
  <2>2. sinceCapture' \in Ages /\ sinceFlush' \in Ages
    BY <1>9 DEF SetClockBack, TypeOK, Ages, Greatest
  <2> QED
    BY <1>9, <2>1, <2>2 DEF SetClockBack, TypeOK, loopVars, realVars, flushedVars
<1>10. ASSUME TimePasses PROVE TypeOK'
  <2>1. left' \in 0..Cap
    BY <1>10 DEF TimePasses, TypeOK
  <2>2. /\ idle' \in 0..Cap /\ sinceTick' \in 0..Cap /\ activeFor' \in 0..Cap
        /\ sinceFlushed' \in 0..Cap /\ sinceCommit' \in 0..Cap
    BY <1>0, <1>10, OlderType DEF TimePasses, TypeOK, Ages
  <2>3. sinceCapture' \in Ages /\ sinceFlush' \in Ages
    BY <1>10, OlderType DEF TimePasses, TypeOK
  <2> QED
    BY <1>10, <2>1, <2>2, <2>3 DEF TimePasses, TypeOK
<1>11. CASE UNCHANGED vars
  BY <1>11 DEF vars, TypeOK, loopVars, wallVars, realVars, flushedVars
<1> QED
  BY <1>1, <1>2, <1>3, <1>4, <1>5, <1>6, <1>7, <1>9, <1>10, <1>11 DEF Next

-----------------------------------------------------------------------------
(* The ages the flush goes by, against the real ones                       *)

\* A wall clock that is only ever set back makes no age younger than that, and none
\* older than it is.
AgesAreBounded ==
    /\ -setBack <= sinceFlush /\ -setBack <= sinceCapture
    /\ sinceFlush <= sinceFlushed /\ sinceFlushed <= sinceFlush + setBack
    /\ sinceFlushed - TickTime <= sinceCommit

\* In a tick: how old the reading that decided on it is, and that the time the code
\* finds between the last flushing tick and this one falls short of the real one by what
\* the clock was set back at most, unless both are longer than any interval.
TickAges ==
    pc = "tick" =>
        /\ sinceCapture <= sinceTick /\ sinceTick <= sinceCapture + setBack
        /\ sinceTick <= left /\ left <= TickTime
        /\ \/ sinceFlush - sinceCapture <= sinceFlushed - sinceTick
           \/ FlushInterval <= sinceFlushed - sinceTick
        /\ \/ sinceFlushed - sinceTick <= sinceFlush - sinceCapture + setBack
           \/ FlushInterval <= sinceFlush - sinceCapture

\* While the clock is not set back, a failed flush stays due until one succeeds.
StillDue ==
    flush = "failed" /\ setBack = 0 =>
        IF pc = "tick" THEN FlushInterval <= sinceFlush - sinceCapture
                       ELSE FlushInterval <= sinceFlush

FlushInv == AgesAreBounded /\ TickAges /\ StillDue

\* A tick that ends flushed, failed or found the flush not due, and the times follow.
LEMMA TickEndsBy ==
  ASSUME NEW stored \in BOOLEAN, TickEnds(stored)
  PROVE  /\ pc = "tick" /\ pc' # "tick"
         /\ UNCHANGED <<sinceCapture, setBack, sinceTick>>
         /\ \/ /\ Due /\ flush' \in {"flushed", "flushed_full"}
               /\ sinceFlush' = sinceCapture /\ sinceFlushed' = sinceTick /\ sinceCommit' = 0
            \/ Due /\ flush' = "failed" /\ UNCHANGED <<sinceFlush, sinceFlushed, sinceCommit>>
            \/ ~Due /\ flush' = "not_due" /\ UNCHANGED <<sinceFlush, sinceFlushed, sinceCommit>>
  BY DEF TickEnds, FlushTick, Flushed, FlushFailed, NotDue, flushedVars

\* The test of the code, on a difference of two ages.
LEMMA DueMeans == TypeOK => (Due <=> FlushInterval <= sinceFlush - sinceCapture)
  BY PolicyAssumption DEF Due, Elapsed, Greatest, TypeOK, Ages

\* Every step keeps the ages in their bounds.
LEMMA FlushStep == TypeOK /\ TypeOK' /\ FlushInv /\ [Next]_vars => FlushInv'
<1> SUFFICES ASSUME TypeOK, TypeOK', FlushInv, [Next]_vars PROVE FlushInv'
  OBVIOUS
<1> USE PolicyAssumption, CapBounds
<1>t. /\ {left, setBack, sinceTick, sinceFlushed, sinceCommit} \subseteq 0..Cap
      /\ {left, setBack, sinceTick, sinceFlushed, sinceCommit}' \subseteq 0..Cap
      /\ {sinceCapture, sinceFlush} \subseteq Int /\ {sinceCapture, sinceFlush}' \subseteq Int
      /\ sinceCapture <= Cap /\ sinceFlush <= Cap
      /\ setBack <= MaxSetBack /\ setBack' <= MaxSetBack
  BY DEF TypeOK, Ages
<1> USE DEF FlushInv, AgesAreBounded, TickAges, StillDue
<1>1. CASE Tick
  BY <1>1, <1>t DEF Tick, flushedVars
<1>2. CASE \E stored \in BOOLEAN : TickEnds(stored)
  <2>1. PICK stored \in BOOLEAN : TickEnds(stored)
    BY <1>2
  <2>2. /\ pc = "tick" /\ pc' # "tick"
        /\ UNCHANGED <<sinceCapture, setBack, sinceTick>>
        /\ \/ /\ flush' # "failed"
              /\ sinceFlush' = sinceCapture /\ sinceFlushed' = sinceTick /\ sinceCommit' = 0
           \/ Due /\ UNCHANGED <<sinceFlush, sinceFlushed, sinceCommit>>
           \/ flush' = "not_due" /\ UNCHANGED <<sinceFlush, sinceFlushed, sinceCommit>>
    BY <2>1, TickEndsBy
  <2> QED
    BY <2>2, <1>t, DueMeans
<1>3. CASE TimePasses
  <2>1. /\ pc' = pc /\ UNCHANGED <<flush, setBack>>
        /\ sinceCapture' = Older(sinceCapture) /\ sinceFlush' = Older(sinceFlush)
        /\ sinceTick' = Older(sinceTick) /\ sinceFlushed' = Older(sinceFlushed)
        /\ sinceCommit' = Older(sinceCommit)
        /\ pc = "tick" => left' = left + 1 /\ left' <= TickTime
    BY <1>3, <1>t DEF TimePasses
  <2>2. AgesAreBounded'
    BY <2>1, <1>t DEF Older, Least
  <2>3. ASSUME pc = "tick"
        PROVE  /\ sinceCapture' = sinceCapture + 1 /\ sinceTick' = sinceTick + 1
               /\ sinceTick' <= TickTime
               /\ \/ sinceFlush' = sinceFlush + 1
                  \/ FlushInterval <= sinceFlush' - sinceCapture'
               /\ \/ sinceFlushed' = sinceFlushed + 1
                  \/ FlushInterval <= sinceFlushed' - sinceTick'
               /\ sinceFlush' <= sinceFlush + 1 /\ sinceFlushed' <= sinceFlushed + 1
    BY <2>1, <2>3, <1>t DEF Older, Least
  <2>4. TickAges'
    BY <2>1, <2>3, <1>t
  <2>5. StillDue'
    BY <2>1, <2>3, <1>t DEF Older, Least
  <2> QED
    BY <2>2, <2>4, <2>5
<1>4. CASE \E by \in 1..MaxSetBack : SetClockBack(by)
  <2>1. PICK by \in 1..MaxSetBack : SetClockBack(by)
    BY <1>4
  <2>2. /\ setBack' = setBack + by /\ sinceCapture' = sinceCapture - by
        /\ sinceFlush' = sinceFlush - by
        /\ UNCHANGED <<pc, left, flush, sinceTick, sinceFlushed, sinceCommit>>
    BY <2>1, <1>t DEF SetClockBack, Greatest, loopVars, realVars, flushedVars
  <2> QED
    BY <2>2, <1>t
<1>5. CASE StartWait \/ WaitEnds \/ Pause \/ Resume \/ Input \/ UNCHANGED vars
  BY <1>5, <1>t DEF StartWait, WaitEnds, Pause, Resume, Input,
     vars, loopVars, wallVars, realVars, flushedVars
<1> QED
  BY <1>1, <1>2, <1>3, <1>4, <1>5 DEF Next

\* The initial state satisfies the invariants.
LEMMA InitCorrect == Init => TypeOK /\ FlushInv
<1>1. 0 \in 0..Cap /\ Cap \in 0..Cap /\ 0 \in Ages /\ Cap \in Ages /\ 0 \in 0..MaxSetBack
  BY PolicyAssumption, CapBounds DEF Ages
<1>2. Init => TypeOK
  BY <1>1 DEF Init, TypeOK, Outcomes
<1>3. Init => FlushInv
  BY PolicyAssumption, CapBounds DEF Init, FlushInv, AgesAreBounded, TickAges, StillDue
<1> QED
  BY <1>2, <1>3

\* Type correctness for every policy.
THEOREM TypeCorrect == Spec => []TypeOK
<1>1. Init => TypeOK
  BY InitCorrect
<1> QED
  BY <1>1, TypeStep, PTL DEF Spec

\* A step that ends a tick is the tick's own.
LEMMA TickDoneBy == Next /\ TickDone => \E stored \in BOOLEAN : TickEnds(stored)
  BY DEF Next, TickDone, Tick, StartWait, WaitEnds, Pause, Resume, Input,
     SetClockBack, TimePasses, loopVars

\* The ticks of two successful flushes begin at least a flush interval apart in real
\* time, however often the wall clock is set back and however long the ticks take.
THEOREM CommitsAreSpacedAlways == Spec => CommitsAreSpaced
<1> DEFINE Spaced == TickDone /\ flush' \in {"flushed", "flushed_full"} =>
                         /\ sinceFlushed - sinceTick >= FlushInterval
                         /\ sinceCommit >= FlushInterval - TickTime
<1>1. TypeOK /\ FlushInv /\ [Next]_vars => [Spaced]_vars
  <2> SUFFICES ASSUME TypeOK, FlushInv, Next, TickDone, flush' \in {"flushed", "flushed_full"}
               PROVE  /\ sinceFlushed - sinceTick >= FlushInterval
                      /\ sinceCommit >= FlushInterval - TickTime
    OBVIOUS
  <2>1. pc = "tick" /\ FlushInterval <= sinceFlush - sinceCapture
    BY TickDoneBy, TickEndsBy, DueMeans
  <2> QED
    BY <2>1, PolicyAssumption, CapBounds
       DEF TypeOK, Ages, FlushInv, AgesAreBounded, TickAges
<1> HIDE DEF Spaced
<1>2. Spec => [][Spaced]_vars
  BY <1>1, InitCorrect, TypeStep, FlushStep, PTL DEF Spec
<1> QED
  BY <1>2 DEF CommitsAreSpaced, Spaced

\* The flush is put off by no more than the clock was set back, for every policy.
THEOREM FlushIsTimelyAlways == Spec => FlushIsTimely
<1> DEFINE Timely == TickDone /\ flush' = "not_due" =>
                         sinceFlushed - sinceTick < FlushInterval + setBack
<1>1. TypeOK /\ FlushInv /\ [Next]_vars => [Timely]_vars
  <2> SUFFICES ASSUME TypeOK, FlushInv, Next, TickDone, flush' = "not_due"
               PROVE  sinceFlushed - sinceTick < FlushInterval + setBack
    OBVIOUS
  <2>1. pc = "tick" /\ ~(FlushInterval <= sinceFlush - sinceCapture)
    BY TickDoneBy, TickEndsBy, DueMeans
  <2> QED
    BY <2>1, PolicyAssumption, CapBounds
       DEF TypeOK, Ages, FlushInv, AgesAreBounded, TickAges
<1> HIDE DEF Timely
<1>2. Spec => [][Timely]_vars
  BY <1>1, InitCorrect, TypeStep, FlushStep, PTL DEF Spec
<1> QED
  BY <1>2 DEF FlushIsTimely, Timely

\* Until the wall clock is set back, a failed flush is retried on the next tick.
THEOREM FailureIsRetriedAlways == Spec => FailureIsRetried
<1> DEFINE Retried == TickDone /\ flush = "failed" /\ setBack = 0 => flush' # "not_due"
<1>1. TypeOK /\ FlushInv /\ [Next]_vars => [Retried]_vars
  <2> SUFFICES ASSUME TypeOK, FlushInv, Next, TickDone, flush = "failed", setBack = 0
               PROVE  flush' # "not_due"
    OBVIOUS
  <2>1. pc = "tick"
    BY DEF TickDone
  <2>2. Due
    BY <2>1, DueMeans DEF FlushInv, StillDue
  <2> QED
    BY <2>2, TickDoneBy, TickEndsBy
<1> HIDE DEF Retried
<1>2. Spec => [][Retried]_vars
  BY <1>1, InitCorrect, TypeStep, FlushStep, PTL DEF Spec
<1> QED
  BY <1>2 DEF FailureIsRetried, Retried

-----------------------------------------------------------------------------
(* Captures of an active operator                                          *)

\* What an operator who is not idle relies on: deep idle is not the shorter one.
DeepIdleIsDeeper == IdleAfter <= DeepIdleAfter

\* An operator who counts as idle does not count as active.
IdleIsNotActive == (idle >= IdleAfter \/ pc = "paused") => activeFor = 0

\* The wall clock's age of the last capture falls short of the real one by what the
\* clock was set back, and by no more.
AgeLagsBySetBack == sinceTick <= sinceCapture + setBack

\* A wait was begun while the operator was idle, and then outlasts no idle interval
\* of activity, or ends when the active interval is over.
WaitIsBounded ==
    pc \in {"wait", "decide"} =>
        \/ activeFor + left <= IdleInterval
        \/ sinceTick + left <= ActiveInterval + setBack
        \/ sinceTick <= TickTime /\ left = 0

TickIsBounded == pc = "tick" => sinceTick <= left /\ left <= TickTime

ActiveInv == IdleIsNotActive /\ AgeLagsBySetBack /\ WaitIsBounded /\ TickIsBounded

\* How long a worker that does not capture waits.
LEMMA WaitBounds ==
  ASSUME TypeOK, DeepIdleIsDeeper, Decision.kind = "wait"
  PROVE  \/ idle >= IdleAfter /\ Decision.for <= IdleInterval
         \/ Decision.for <= ActiveInterval - sinceCapture
<1> USE PolicyAssumption, CapBounds
<1>1. /\ Elapsed(sinceCapture) \in Nat /\ sinceCapture <= Elapsed(sinceCapture)
      /\ sinceCapture \in Int /\ idle \in Nat
  BY DEF TypeOK, Ages, Elapsed, Greatest
<1>2. CASE idle >= DeepIdleAfter
  <2>1. idle >= IdleAfter
    BY <1>1, <1>2 DEF DeepIdleIsDeeper
  <2> QED
    BY <1>2, <2>1 DEF Decision
<1>3. CASE ~(idle >= DeepIdleAfter)
  <2> DEFINE interval == IF idle >= IdleAfter THEN IdleInterval ELSE ActiveInterval
             wait     == interval - Elapsed(sinceCapture)
  <2>1. Decision = IF Elapsed(sinceCapture) < ForcedAfter /\ wait > 0
                   THEN [kind |-> "wait", for |-> wait]
                   ELSE [kind |-> "capture", for |-> 0]
    BY <1>3 DEF Decision
  <2> HIDE DEF wait
  <2>2. Decision.for = wait
    BY <2>1
  <2> QED
    BY <1>1, <2>2 DEF wait
<1> QED
  BY <1>2, <1>3

\* Each step keeps the waits and the ages bounded.
LEMMA ActiveStep ==
  DeepIdleIsDeeper /\ TypeOK /\ TypeOK' /\ ActiveInv /\ [Next]_vars => ActiveInv'
<1> SUFFICES ASSUME DeepIdleIsDeeper, TypeOK, TypeOK', ActiveInv, [Next]_vars PROVE ActiveInv'
  OBVIOUS
<1> USE PolicyAssumption, CapBounds
        DEF ActiveInv, IdleIsNotActive, AgeLagsBySetBack, WaitIsBounded, TickIsBounded
<1>t. /\ {left, idle, setBack, sinceTick, activeFor} \subseteq Nat
      /\ {left, idle, setBack, sinceTick, activeFor}' \subseteq Nat
      /\ sinceCapture \in Int /\ sinceCapture' \in Int
      /\ sinceTick <= Cap /\ -MaxSetBack <= sinceCapture /\ sinceCapture <= Cap
  BY DEF TypeOK, Ages
<1>1. CASE Tick
  BY <1>1, <1>t DEF Tick
<1>2. CASE \E stored \in BOOLEAN : TickEnds(stored)
  BY <1>2, <1>t DEF TickEnds
<1>3. CASE StartWait
  <2>1. \/ idle >= IdleAfter /\ Decision.for <= IdleInterval
        \/ Decision.for <= ActiveInterval - sinceCapture
    BY <1>3, WaitBounds DEF StartWait
  <2>2. /\ pc' = "wait" /\ left' = Decision.for
        /\ UNCHANGED <<idle, sinceCapture, setBack, sinceTick, activeFor>>
    BY <1>3 DEF StartWait, wallVars, realVars
  <2> QED
    BY <2>1, <2>2, <1>t
<1>4. CASE WaitEnds
  BY <1>4, <1>t DEF WaitEnds, wallVars, realVars
<1>5. CASE Pause
  BY <1>5, <1>t DEF Pause, wallVars
<1>6. CASE Resume
  BY <1>6, <1>t DEF Resume, wallVars, realVars
<1>7. CASE Input
  BY <1>7, <1>t DEF Input, wallVars, loopVars
<1>8. CASE \E by \in 1..MaxSetBack : SetClockBack(by)
  BY <1>8, <1>t DEF SetClockBack, Greatest, loopVars, realVars
<1>9. CASE TimePasses
  <2>1. /\ pc' = pc /\ setBack' = setBack
        /\ sinceCapture' = Older(sinceCapture) /\ sinceTick' = Older(sinceTick)
        /\ activeFor' = 0 \/ activeFor' = Older(activeFor)
        /\ idle' >= IdleAfter \/ pc = "paused" => activeFor' = 0
    BY <1>9 DEF TimePasses
  <2>2. \/ pc = "wait" /\ left > 0 /\ left' = left - 1
        \/ pc = "tick" /\ left < TickTime /\ left' = left + 1
        \/ pc = "paused"
    BY <1>9 DEF TimePasses
  <2>3. /\ sinceTick' <= sinceTick + 1 /\ activeFor' <= activeFor + 1
        /\ sinceTick' <= Cap
        /\ sinceCapture' = sinceCapture + 1 \/ sinceCapture' = Cap
    BY <2>1, <1>t DEF Older, Least
  <2>4. AgeLagsBySetBack'
    BY <2>1, <2>3, <1>t
  <2>5. WaitIsBounded' /\ TickIsBounded'
    BY <2>1, <2>2, <2>3, <1>t
  <2> QED
    BY <2>1, <2>4, <2>5
<1>10. CASE UNCHANGED vars
  BY <1>10 DEF vars, loopVars, wallVars, realVars
<1> QED
  BY <1>1, <1>2, <1>3, <1>4, <1>5, <1>6, <1>7, <1>8, <1>9, <1>10 DEF Next

\* An operator at work is captured, for every policy whose deep idle is the longer one,
\* however long ticks take and however often the clock is set back.
THEOREM ActiveIsCapturedAlways ==
  ASSUME DeepIdleIsDeeper PROVE Spec => []ActiveIsCaptured
<1>1. Init => ActiveInv
  BY PolicyAssumption, CapBounds
     DEF Init, ActiveInv, IdleIsNotActive, AgeLagsBySetBack, WaitIsBounded, TickIsBounded
<1>2. TypeOK /\ ActiveInv => ActiveIsCaptured
  <2> SUFFICES ASSUME TypeOK, ActiveInv, activeFor > IdleInterval
               PROVE  sinceTick <= ActiveInterval + setBack \/ sinceTick <= TickTime
    BY PolicyAssumption DEF ActiveIsCaptured, Greatest, TypeOK
  <2> QED
    BY PolicyAssumption, CapBounds
       DEF ActiveInv, IdleIsNotActive, WaitIsBounded, TickIsBounded, TypeOK
<1> QED
  BY <1>1, <1>2, TypeCorrect, ActiveStep, PTL DEF Spec
=============================================================================
