------------------------- MODULE AgentSurfaceProofs -------------------------
(***************************************************************************)
(* What an agent may rely on, for every set of captures, any credentials   *)
(* and limits, and any number of requests and merges: a polling agent      *)
(* misses no capture, the rate limit is what it says, and the tools that   *)
(* count add up.                                                           *)
(*                                                                         *)
(* A poll asks for what is not older than the cursor; what makes that      *)
(* enough is that the owner's captures, merges included, never fall before *)
(* one the agent has seen.  CursorReached says why: until the clock is set *)
(* back some record is as new as the cursor, and no capture is older.      *)
(*                                                                         *)
(* The rate limit lets no span of a second through with more than two      *)
(* windows' worth.  RateInv says why two: what went through in the second  *)
(* before a window began is at most one window's worth, because a window   *)
(* is only replaced a second after it began.                               *)
(*                                                                         *)
(* An answer is about the records at its instant, and is gone when they    *)
(* change: AnswersInv only adds the type of the ledger.  What has to be    *)
(* shown is of the statements themselves: that finitely many rows can be   *)
(* put in order (Enumerated), that what LIMIT leaves out comes after what  *)
(* it keeps (Beginning), and that an instant is in one bucket (OneBucket). *)
(***************************************************************************)
EXTENDS AgentSurface, FiniteSetTheorems, WellFoundedInduction, TLAPS

CursorReached ==
    setBack = 0 => cursor = Epoch \/ \E i \in Ids : memory[i].at >= cursor

PollInv == TypeOK /\ PollMissesNothing /\ CursorReached

\* A set of instants that is not empty has a greatest.
LEMMA GreatestInstant ==
  ASSUME NEW S, S \subseteq Times, S # {}
  PROVE  Max(S) \in S /\ \A t \in S : Max(S) >= t
<1> DEFINE Less == OpToRel(<, Nat)
           Left == {MaxTime - t : t \in S}
<1>1. Left \subseteq Nat /\ Left # {}
  <2>1. \A t \in S : MaxTime - t \in Nat
        BY CapturesAssumption DEF Times
  <2> QED BY <2>1
<1>2. \E l \in Left : \A k \in Left : <<k, l>> \notin Less
      BY <1>1, WFMin, NatLessThanWellFounded
<1>3. PICK l \in Left : \A k \in Left : ~(k < l)
      BY <1>1, <1>2 DEF OpToRel
<1>4. PICK g \in S : l = MaxTime - g
      BY <1>3
<1>5. ASSUME NEW t \in S PROVE g >= t
  <2>1. ~(MaxTime - t < MaxTime - g)
        BY <1>3, <1>4
  <2>2. t \in Nat /\ g \in Nat
        BY <1>4, CapturesAssumption DEF Times
  <2> QED BY <2>1, <2>2, CapturesAssumption
<1> QED BY <1>4, <1>5 DEF Max

\* What is known of each record.
LEMMA RowsTyped ==
  ASSUME TypeOK
  PROVE  \A i \in Ids : i \in Nat /\ memory[i] \in Rows /\ memory[i].at \in Times
<1>1. \A i \in Ids : i \in Nat /\ memory[i] \in Rows
      BY DEF TypeOK, Ids
<1>2. \A r \in Rows : r.at \in Times
      BY DEF Rows
<1> QED BY <1>1, <1>2

\* Replacing one element of a sequence leaves its length and its other elements.
LEMMA ReplacedElement ==
  ASSUME NEW S, NEW s \in Seq(S), NEW k \in DOMAIN s, NEW e \in S
  PROVE  /\ [s EXCEPT ![k] = e] \in Seq(S)
         /\ DOMAIN [s EXCEPT ![k] = e] = DOMAIN s
         /\ [s EXCEPT ![k] = e][k] = e
         /\ \A i \in DOMAIN s \ {k} : [s EXCEPT ![k] = e][i] = s[i]
  OBVIOUS

\* A capture falls on an instant that no record is newer than.
LEMMA CaptureIsNewest ==
  ASSUME TypeOK, NEW at \in Newest .. now
  PROVE  at \in Times /\ \A i \in Ids : memory[i].at <= at
<1> DEFINE Stamps == {Epoch} \cup {memory[i].at : i \in Ids}
<1>1. \A i \in Ids : memory[i].at \in Times
      BY RowsTyped
<1>2. Stamps \subseteq Times /\ Stamps # {}
      BY <1>1, CapturesAssumption DEF Times
<1>3. Newest \in Times /\ \A t \in Stamps : Newest >= t
      BY <1>2, GreatestInstant DEF Newest
<1>4. at \in Int /\ now \in Times /\ Newest <= at /\ at <= now
      BY <1>3 DEF TypeOK, Times
<1>5. at \in Times
      BY <1>3, <1>4, CapturesAssumption DEF Times
<1>6. ASSUME NEW i \in Ids PROVE memory[i].at <= at
  <2>1. memory[i].at \in Times /\ memory[i].at <= Newest
        BY <1>1, <1>3
  <2> QED BY <1>3, <1>4, <2>1, CapturesAssumption DEF Times
<1> QED BY <1>5, <1>6

\* The invariant holds before anything was captured.
LEMMA InitPoll == Init => PollInv
  BY CapturesAssumption DEF Init, PollInv, TypeOK, PollMissesNothing, CursorReached, Times, Ids, Wall

\* The middleware changes its own state only.
LEMMA CountedType ==
  ASSUME TypeOK, Counted
  PROVE  /\ now' \in Times /\ setBack' = setBack /\ setBack' \in Nat /\ Wall' \in Times
         /\ window' \in [start : Times, count : Nat]
         /\ asked' \in Nat /\ passed' \in Seq(Times)
<1>1. window' \in [start : Times, count : Nat]
      BY DEF TypeOK, Counted, Allow
<1>2. passed' \in Seq(Times)
      BY DEF TypeOK, Counted
<1> QED BY <1>1, <1>2 DEF TypeOK, Counted, Wall

\* A poll tells of everything from the cursor on and moves it to the newest of that.
LEMMA DeltaPoll ==
  ASSUME PollInv, setBack' = setBack, NEW limit, Delta(limit)
  PROVE  /\ cursor' \in Times /\ told' \subseteq [id : Nat, at : Times]
         /\ PollMissesNothing' /\ CursorReached'
<1> DEFINE since == {i \in Ids : memory[i].at >= cursor}
           ats   == {memory[i].at : i \in since}
<1>1. memory' = memory /\ Ids' = Ids /\ setBack' = setBack
      BY DEF Delta, store, Ids
<1>2. \A i \in Ids : i \in Nat /\ memory[i] \in Rows /\ memory[i].at \in Times
      BY RowsTyped DEF PollInv
<1>3. CASE UNCHANGED <<cursor, told>>
      BY <1>1, <1>3 DEF PollInv, TypeOK, PollMissesNothing, CursorReached
<1>4. CASE ~ UNCHANGED <<cursor, told>>
  <2>1. /\ told' = told \cup {[id |-> i, at |-> memory[i].at] : i \in since}
        /\ cursor' = IF (IF since = {} THEN None ELSE Max(ats)) = None THEN cursor
                     ELSE IF since = {} THEN None ELSE Max(ats)
        BY <1>4 DEF Delta, ChangesSince
  <2>2. told' \subseteq [id : Nat, at : Times]
        BY <1>2, <2>1 DEF PollInv, TypeOK
  <2>3. cursor' = cursor \/ \E i \in since : cursor' = memory[i].at
    <3>1. CASE since = {}
          BY <2>1, <3>1
    <3>2. CASE since # {}
      <4>1. ats \subseteq Times /\ ats # {}
            BY <1>2, <3>2
      <4>2. Max(ats) \in ats
            BY <4>1, GreatestInstant
      <4> QED BY <2>1, <3>2, <4>2
    <3> QED BY <3>1, <3>2
  <2>4. cursor' \in Times /\ CursorReached'
    <3>1. CASE cursor' = cursor
          BY <1>1, <3>1 DEF PollInv, TypeOK, CursorReached
    <3>2. CASE \E i \in since : cursor' = memory[i].at
      <4>1. PICK i \in since : cursor' = memory[i].at
            BY <3>2
      <4>2. i \in Ids /\ memory[i].at \in Times
            BY <1>2
      <4>3. memory[i].at >= memory[i].at
            BY <4>2, CapturesAssumption DEF Times
      <4> QED BY <1>1, <4>1, <4>2, <4>3 DEF CursorReached
    <3> QED BY <2>3, <3>1, <3>2
  <2>5. PollMissesNothing'
        BY <1>1, <1>2, <2>1, CapturesAssumption
        DEF PollInv, TypeOK, PollMissesNothing, Times
  <2> QED BY <2>2, <2>4, <2>5
<1> QED BY <1>3, <1>4

\* No other tool touches the records, the cursor or what was told.
LEMMA RequestPoll ==
  ASSUME PollInv, setBack' = setBack, Request
  PROVE  /\ memory' = memory /\ cursor' \in Times /\ told' \subseteq [id : Nat, at : Times]
         /\ PollMissesNothing' /\ CursorReached'
<1>1. CASE \E limit \in DeltaLimits : Delta(limit)
      BY <1>1, DeltaPoll DEF Delta, store
<1>2. CASE UNCHANGED <<memory, cursor, told>>
      BY <1>2 DEF PollInv, TypeOK, PollMissesNothing, CursorReached, Ids
<1>3. ~(\E limit \in DeltaLimits : Delta(limit)) => UNCHANGED <<memory, cursor, told>>
      BY DEF Request, Timeline, Explain, ActiveFocus, OpenTarget, Recall, RememberDecision, Feedback, store
<1> QED BY <1>1, <1>2, <1>3

\* A capture, or the merge it becomes, is not older than the cursor.
LEMMA CapturePoll ==
  ASSUME PollInv, Capture
  PROVE  memory' \in Seq(Rows) /\ PollMissesNothing' /\ CursorReached'
<1>1. PICK c \in Captures, at \in Instants :
        LET row == [app |-> c.app, words |-> c.words, target |-> c.target, at |-> at]
        IN  \/ Len(memory) < MaxRecords /\ memory' = Append(memory, row)
            \/ \E i \in Ids :
                  /\ memory[i].app = c.app /\ memory[i].target = c.target
                  /\ memory' = [memory EXCEPT ![i].at = at, ![i].words = @ \cup c.words]
      BY DEF Capture
<1> DEFINE row == [app |-> c.app, words |-> c.words, target |-> c.target, at |-> at]
<1>2. at \in Times /\ (setBack = 0 => \A i \in Ids : memory[i].at <= at)
      BY CaptureIsNewest DEF PollInv, Instants, TypeOK
<1>3. /\ memory \in Seq(Rows) /\ cursor \in Times
      /\ \A i \in Ids : i \in Nat /\ memory[i] \in Rows /\ memory[i].at \in Times
      BY RowsTyped DEF PollInv, TypeOK
<1>4. setBack = 0 => at >= cursor
      BY <1>2, <1>3, CapturesAssumption DEF PollInv, CursorReached, Times
<1>5. row \in Rows
      BY <1>2, CapturesAssumption DEF Rows
<1>6. cursor' = cursor /\ told' = told /\ setBack' = setBack
      BY DEF Capture
<1>7. CASE memory' = Append(memory, row)
  <2>1. /\ memory' \in Seq(Rows) /\ Len(memory') = Len(memory) + 1
        /\ memory'[Len(memory) + 1].at = at
        /\ \A i \in Ids : memory'[i] = memory[i]
        BY <1>3, <1>5, <1>7 DEF Ids
  <2>2. Ids' = Ids \cup {Len(memory) + 1} /\ Ids = 1 .. Len(memory)
        BY <1>3, <2>1 DEF Ids
  <2>3. PollMissesNothing'
        BY <1>2, <1>3, <1>4, <1>6, <2>1, <2>2, CapturesAssumption
        DEF PollInv, PollMissesNothing, Times
  <2>4. CursorReached'
        BY <1>4, <2>1, <2>2, <1>6 DEF CursorReached
  <2> QED BY <2>1, <2>3, <2>4
<1>8. CASE \E i \in Ids : memory' = [memory EXCEPT ![i].at = at, ![i].words = @ \cup c.words]
  <2> PICK k \in Ids : memory' = [memory EXCEPT ![k].at = at, ![k].words = @ \cup c.words]
      BY <1>8
  <2> DEFINE renewed == [memory[k] EXCEPT !.at = at, !.words = @ \cup c.words]
  <2>1. renewed \in Rows /\ renewed.at = at
        BY <1>2, <1>3, CapturesAssumption DEF Rows
  <2>2. memory' = [memory EXCEPT ![k] = renewed]
        BY <1>3 DEF Ids
  <2>3. /\ memory' \in Seq(Rows) /\ Ids' = Ids /\ memory'[k].at = at
        /\ \A i \in Ids \ {k} : memory'[i] = memory[i]
    <3> HIDE DEF renewed
    <3>1. k \in DOMAIN memory /\ DOMAIN memory = Ids /\ DOMAIN memory' = Ids'
          BY DEF Ids
    <3>2. k \in DOMAIN memory /\ renewed \in Rows /\ memory \in Seq(Rows)
          BY <1>3, <2>1, <3>1
    <3>3. /\ [memory EXCEPT ![k] = renewed] \in Seq(Rows)
          /\ DOMAIN [memory EXCEPT ![k] = renewed] = DOMAIN memory
          /\ [memory EXCEPT ![k] = renewed][k] = renewed
          /\ \A i \in DOMAIN memory \ {k} : [memory EXCEPT ![k] = renewed][i] = memory[i]
          BY <3>2, ReplacedElement
    <3> QED BY <2>1, <2>2, <3>1, <3>3
  <2>4. PollMissesNothing'
    <3> SUFFICES ASSUME setBack = 0
                 PROVE  \A i \in Ids' : memory'[i].at < cursor'
                                          => [id |-> i, at |-> memory'[i].at] \in told'
        BY <1>6 DEF PollMissesNothing
    <3>1. ~(memory'[k].at < cursor')
          BY <1>2, <1>3, <1>4, <1>6, <2>3, CapturesAssumption DEF Times
    <3>2. ASSUME NEW i \in Ids', memory'[i].at < cursor'
          PROVE  [id |-> i, at |-> memory'[i].at] \in told'
      <4>1. i \in Ids /\ memory'[i] = memory[i]
            BY <2>3, <3>1, <3>2
      <4>2. memory[i].at < cursor
            BY <1>6, <3>2, <4>1
      <4>3. [id |-> i, at |-> memory[i].at] \in told
            BY <4>1, <4>2 DEF PollInv, PollMissesNothing
      <4>4. memory'[i].at = memory[i].at
            BY <4>1
      <4> QED BY <1>6, <4>3, <4>4
    <3> QED BY <3>2
  <2>5. CursorReached'
        BY <1>4, <1>6, <2>3 DEF CursorReached
  <2> QED BY <2>3, <2>4, <2>5
<1> QED BY <1>1, <1>7, <1>8

\* Every step keeps the invariant.
LEMMA NextPoll == PollInv /\ [Next]_vars => PollInv'
<1> SUFFICES ASSUME PollInv, [Next]_vars PROVE PollInv'
    OBVIOUS
<1>1. CASE \E c \in Credentials : Denied(c)
      BY <1>1, CountedType
      DEF Denied, store, PollInv, TypeOK, PollMissesNothing, CursorReached, Ids
<1>2. CASE Request /\ \E c \in Credentials : Admitted(c)
      BY <1>2, CountedType, RequestPoll DEF Admitted, PollInv, TypeOK
<1>3. CASE Capture
  <2>1. UNCHANGED <<now, setBack, window, passed, asked, cursor, told>>
        BY <1>3 DEF Capture, gate
  <2> QED BY <1>3, <2>1, CapturePoll DEF PollInv, TypeOK, Wall
<1>4. CASE Tick
  <2>1. now' \in Times /\ setBack' = setBack /\ Wall' \in Times
        BY <1>4, CapturesAssumption DEF Tick, PollInv, TypeOK, Times, Wall
  <2> QED BY <1>4, <2>1
          DEF Tick, gate, store, PollInv, TypeOK, PollMissesNothing, CursorReached, Ids
<1>5. CASE UNCHANGED vars
      BY <1>5 DEF vars, gate, store, PollInv, TypeOK, PollMissesNothing, CursorReached, Ids, Wall
<1>6. CASE SetClockBack
  <2>1. setBack' \in Nat /\ setBack' # 0 /\ Wall' \in Times
        BY <1>6, CapturesAssumption DEF SetClockBack, PollInv, TypeOK, Times, Wall
  <2> QED BY <1>6, <2>1
          DEF SetClockBack, gate, store, PollInv, TypeOK, PollMissesNothing, CursorReached
<1> QED BY <1>1, <1>2, <1>3, <1>4, <1>5, <1>6 DEF Next

\* The invariant holds in every reachable state.
LEMMA Invariance == Spec => []PollInv
  BY InitPoll, NextPoll, PTL DEF Spec

\* The state of the surface keeps its type.
THEOREM TypeCorrect == Spec => []TypeOK
<1>1. PollInv => TypeOK
      BY DEF PollInv
<1> QED BY <1>1, Invariance, PTL

\* An agent that feeds newest_captured_at_ms back is told of every capture older than
\* its cursor, whatever merges, failures, refusals and other tools come between polls.
THEOREM PollIsComplete == Spec => []PollMissesNothing
<1>1. PollInv => PollMissesNothing
      BY DEF PollInv
<1> QED BY <1>1, Invariance, PTL

-----------------------------------------------------------------------------
(* The rate limit                                                          *)

\* Of the requests let through at the instants p: those of the window that began at
\* start, and those of the second before it.
OfWindow(p, start) == {k \in DOMAIN p : p[k] >= start}
JustBefore(p, start) == {k \in DOMAIN p : start - Second < p[k] /\ p[k] < start}
InSpan(p, from, to) == {k \in DOMAIN p : p[k] \in from .. to}

\* The window has counted what it let through, and no more than a limit's worth went
\* through in it or in the second before it.
GateInv(p, w, at) ==
    /\ \A k \in DOMAIN p : p[k] <= at /\ p[k] < w.start + Second
    /\ w.start <= at
    /\ Cardinality(OfWindow(p, w.start)) = IF w.count < RateLimit THEN w.count ELSE RateLimit
    /\ Cardinality(JustBefore(p, w.start)) <= RateLimit

RateInv == TypeOK /\ GateInv(passed, window, now) /\ RateIsHonest

\* The positions of a sequence are finitely many, and so are any of them.
LEMMA PositionsFinite ==
  ASSUME NEW p \in Seq(Times), NEW S, S \subseteq DOMAIN p
  PROVE  IsFiniteSet(S) /\ Cardinality(S) \in Nat
<1>1. DOMAIN p = 1 .. Len(p) /\ Len(p) \in Nat
      OBVIOUS
<1>2. IsFiniteSet(DOMAIN p)
      BY <1>1, FS_Interval
<1> QED BY <1>2, FS_Subset, FS_CardinalityType

\* A span that holds the present and is no longer than a second holds nothing but
\* requests of the window and of the second before it.
LEMMA SpanOfNow ==
  ASSUME NEW p \in Seq(Times), NEW w \in [start : Times, count : Nat], NEW at \in Times,
         GateInv(p, w, at), NEW t \in Times, at \in t .. t + Second - 1
  PROVE  Cardinality(InSpan(p, t, t + Second - 1)) <= 2 * RateLimit
<1> DEFINE F == OfWindow(p, w.start)
           B == JustBefore(p, w.start)
           I == InSpan(p, t, t + Second - 1)
<1>1. F \subseteq DOMAIN p /\ B \subseteq DOMAIN p /\ I \subseteq DOMAIN p
      BY DEF OfWindow, JustBefore, InSpan
<1>2. I \subseteq F \cup B
  <2> SUFFICES ASSUME NEW k \in I PROVE k \in F \/ k \in B
      OBVIOUS
  <2>1. k \in DOMAIN p /\ p[k] \in Times /\ p[k] \in t .. t + Second - 1
        BY DEF InSpan
  <2> QED BY <2>1, LimitsAssumption, CapturesAssumption
          DEF GateInv, OfWindow, JustBefore, Times
<1>3. IsFiniteSet(F) /\ IsFiniteSet(B) /\ IsFiniteSet(I)
      BY <1>1, PositionsFinite
<1>4. /\ Cardinality(F) \in Nat /\ Cardinality(B) \in Nat /\ Cardinality(I) \in Nat
      /\ Cardinality(F \cap B) \in Nat
  <2>1. F \cap B \subseteq DOMAIN p
        BY <1>1
  <2> HIDE DEF F, B, I
  <2> QED BY <1>1, <2>1, PositionsFinite
<1>5. /\ IsFiniteSet(F \cup B)
      /\ Cardinality(F \cup B) = Cardinality(F) + Cardinality(B) - Cardinality(F \cap B)
  <2> HIDE DEF F, B, I
  <2> QED BY <1>3, FS_Union
<1>6. Cardinality(I) <= Cardinality(F \cup B)
  <2> HIDE DEF F, B, I
  <2> QED BY <1>2, <1>5, FS_Subset
<1>7. Cardinality(F) <= RateLimit /\ Cardinality(B) <= RateLimit
      BY LimitsAssumption DEF GateInv
<1> HIDE DEF F, B, I
<1>8. Cardinality(I) <= 2 * RateLimit
      BY <1>4, <1>5, <1>6, <1>7, LimitsAssumption
<1> QED BY <1>8 DEF I

\* What one more request does to a set of positions.
LEMMA OneMore ==
  ASSUME NEW p \in Seq(Times), NEW at \in Times, NEW S, S \subseteq DOMAIN p
  PROVE  /\ Append(p, at) \in Seq(Times)
         /\ DOMAIN Append(p, at) = DOMAIN p \cup {Len(p) + 1} /\ Len(p) + 1 \notin DOMAIN p
         /\ Append(p, at)[Len(p) + 1] = at
         /\ \A k \in DOMAIN p : Append(p, at)[k] = p[k]
         /\ Cardinality(S \cup {Len(p) + 1}) = Cardinality(S) + 1
<1>1. IsFiniteSet(S) /\ Len(p) + 1 \notin S
  <2>1. Len(p) + 1 \notin DOMAIN p
        OBVIOUS
  <2> QED BY <2>1, PositionsFinite
<1>2. Cardinality(S \cup {Len(p) + 1}) = Cardinality(S) + 1
      BY <1>1, FS_AddElement
<1>3. DOMAIN Append(p, at) = DOMAIN p \cup {Len(p) + 1} /\ Len(p) + 1 \notin DOMAIN p
      OBVIOUS
<1> QED BY <1>2, <1>3

\* Counting a request keeps the window and what it let through in agreement.
LEMMA CountedGate ==
  ASSUME RateInv, Counted
  PROVE  GateInv(passed, window, now)' /\ now - window'.start < Second
<1> DEFINE s == window.start
           c == window.count
           s2 == window'.start
           c2 == window'.count
           n == Len(passed) + 1
<1>1. /\ s \in Times /\ c \in Nat /\ now \in Times /\ passed \in Seq(Times) /\ now' = now
      /\ window \in [start : Times, count : Nat]
      /\ GateInv(passed, window, now)
      BY DEF RateInv, TypeOK, Counted
<1>2. \A k \in DOMAIN passed : passed[k] \in Times
      BY <1>1
<1>3. \/ now - s >= Second /\ s2 = now /\ c2 = 1
      \/ now - s < Second /\ s2 = s /\ c2 = c + 1
      BY <1>1, LimitsAssumption, CapturesAssumption DEF Counted, Allow, Times
<1>4. passed' = IF c2 <= RateLimit THEN Append(passed, now) ELSE passed
      BY DEF Counted, Allowed
<1>5. /\ DOMAIN passed' = IF c2 <= RateLimit THEN DOMAIN passed \cup {n} ELSE DOMAIN passed
      /\ c2 <= RateLimit => passed'[n] = now
      /\ \A k \in DOMAIN passed : passed'[k] = passed[k]
      /\ n \notin DOMAIN passed
  <2>1. {} \subseteq DOMAIN passed
        OBVIOUS
  <2>2. /\ DOMAIN Append(passed, now) = DOMAIN passed \cup {n} /\ n \notin DOMAIN passed
        /\ Append(passed, now)[n] = now
        /\ \A k \in DOMAIN passed : Append(passed, now)[k] = passed[k]
        BY <1>1, <2>1, OneMore
  <2> QED BY <1>4, <2>2
<1>6. /\ \A k \in DOMAIN passed' : passed'[k] <= now /\ passed'[k] < s2 + Second
      /\ s2 <= now /\ now - s2 < Second
  <2>1. s2 <= now /\ now - s2 < Second
        BY <1>1, <1>3, LimitsAssumption, CapturesAssumption DEF GateInv, Times
  <2>2. ASSUME NEW k \in DOMAIN passed' PROVE passed'[k] <= now /\ passed'[k] < s2 + Second
    <3>1. CASE k \in DOMAIN passed
          BY <1>1, <1>2, <1>3, <1>5, <3>1, LimitsAssumption, CapturesAssumption
          DEF GateInv, Times
    <3>2. CASE k = n /\ c2 <= RateLimit
          BY <1>1, <1>3, <1>5, <2>1, <3>2, LimitsAssumption, CapturesAssumption DEF Times
    <3> QED BY <1>5, <2>2, <3>1, <3>2
  <2> QED BY <2>1, <2>2
<1>7. Cardinality(OfWindow(passed', s2)) = IF c2 < RateLimit THEN c2 ELSE RateLimit
  <2>1. CASE now - s >= Second /\ s2 = now /\ c2 = 1
    <3>1. OfWindow(passed', s2) = IF c2 <= RateLimit THEN {} \cup {n} ELSE {}
          BY <1>1, <1>2, <1>5, <2>1, LimitsAssumption, CapturesAssumption
          DEF GateInv, OfWindow, Times
    <3>2. Cardinality({} \cup {n}) = Cardinality({}) + 1
          BY <1>1, OneMore
    <3> QED BY <2>1, <3>1, <3>2, FS_EmptySet, LimitsAssumption
  <2>2. CASE now - s < Second /\ s2 = s /\ c2 = c + 1
    <3>1. OfWindow(passed', s2) = IF c2 <= RateLimit THEN OfWindow(passed, s) \cup {n}
                                  ELSE OfWindow(passed, s)
          BY <1>1, <1>2, <1>5, <2>2, LimitsAssumption, CapturesAssumption
          DEF GateInv, OfWindow, Times
    <3>2. OfWindow(passed, s) \subseteq DOMAIN passed
          BY DEF OfWindow
    <3>3. Cardinality(OfWindow(passed, s) \cup {n}) = Cardinality(OfWindow(passed, s)) + 1
          BY <1>1, <3>2, OneMore
    <3>4. Cardinality(OfWindow(passed, s)) = IF c < RateLimit THEN c ELSE RateLimit
          BY <1>1 DEF GateInv
    <3> QED BY <1>1, <2>2, <3>1, <3>3, <3>4, LimitsAssumption
  <2> QED BY <1>3, <2>1, <2>2
<1>8. Cardinality(JustBefore(passed', s2)) <= RateLimit
  <2>1. CASE now - s >= Second /\ s2 = now
    <3>1. JustBefore(passed', s2) \subseteq OfWindow(passed, s)
          BY <1>1, <1>2, <1>5, <2>1, LimitsAssumption, CapturesAssumption
          DEF GateInv, OfWindow, JustBefore, Times
    <3>2. OfWindow(passed, s) \subseteq DOMAIN passed
          BY DEF OfWindow
    <3>3. /\ IsFiniteSet(OfWindow(passed, s)) /\ Cardinality(OfWindow(passed, s)) \in Nat
          /\ Cardinality(OfWindow(passed, s)) <= RateLimit
          BY <1>1, <3>2, PositionsFinite, LimitsAssumption DEF GateInv
    <3>4. /\ Cardinality(JustBefore(passed', s2)) <= Cardinality(OfWindow(passed, s))
          /\ Cardinality(JustBefore(passed', s2)) \in Nat
          BY <3>1, <3>3, FS_Subset, FS_CardinalityType
    <3> QED BY <3>3, <3>4, LimitsAssumption
  <2>2. CASE now - s < Second /\ s2 = s
    <3>1. JustBefore(passed', s2) = JustBefore(passed, s)
          BY <1>1, <1>2, <1>5, <2>2, LimitsAssumption, CapturesAssumption
          DEF GateInv, JustBefore, Times
    <3> QED BY <1>1, <3>1 DEF GateInv
  <2> QED BY <1>3, <2>1, <2>2
<1> QED BY <1>1, <1>6, <1>7, <1>8 DEF GateInv

\* Counting a request keeps every span of a second within two windows' worth.
LEMMA CountedSpans ==
  ASSUME RateInv, Counted
  PROVE  /\ \A t \in Times : Through(t, t + Second - 1)' <= 2 * RateLimit
         /\ ~Allowed(window') => Through(now - Second + 1, now)' >= RateLimit
<1>1. /\ now \in Times /\ now' = now /\ passed \in Seq(Times)
      /\ window' \in [start : Times, count : Nat] /\ passed' \in Seq(Times)
      BY CountedType DEF RateInv, TypeOK, Counted
<1>2. GateInv(passed', window', now) /\ now - window'.start < Second
      BY <1>1, CountedGate
<1>3. ASSUME NEW t \in Times
      PROVE  Cardinality(InSpan(passed', t, t + Second - 1)) <= 2 * RateLimit
  <2>1. CASE now \in t .. t + Second - 1
        BY <1>1, <1>2, <2>1, SpanOfNow
  <2>2. CASE now \notin t .. t + Second - 1
    <3>1. InSpan(passed', t, t + Second - 1) = InSpan(passed, t, t + Second - 1)
      <4>1. CASE passed' = passed
            BY <4>1
      <4>2. CASE passed' = Append(passed, now)
        <5>1. {} \subseteq DOMAIN passed
              OBVIOUS
        <5>2. /\ DOMAIN passed' = DOMAIN passed \cup {Len(passed) + 1}
              /\ passed'[Len(passed) + 1] = now
              /\ \A k \in DOMAIN passed : passed'[k] = passed[k]
              BY <1>1, <4>2, <5>1, OneMore
        <5> QED BY <2>2, <5>2 DEF InSpan
      <4> QED BY <4>1, <4>2 DEF Counted
    <3>2. Cardinality(InSpan(passed, t, t + Second - 1)) <= 2 * RateLimit
          BY DEF RateInv, RateIsHonest, Through, InSpan
    <3> QED BY <3>1, <3>2
  <2> QED BY <2>1, <2>2
<1>4. ASSUME ~Allowed(window')
      PROVE  Cardinality(InSpan(passed', now - Second + 1, now)) >= RateLimit
  <2> DEFINE F == OfWindow(passed', window'.start)
             I == InSpan(passed', now - Second + 1, now)
  <2>1. window'.count > RateLimit /\ window'.start \in Times /\ window'.count \in Nat
        BY <1>1, <1>4, LimitsAssumption DEF Allowed
  <2>2. Cardinality(F) = RateLimit
        BY <1>2, <2>1, LimitsAssumption DEF GateInv
  <2>3. F \subseteq I
    <3> SUFFICES ASSUME NEW k \in F PROVE k \in I
        OBVIOUS
    <3>1. /\ k \in DOMAIN passed' /\ passed'[k] \in Times
          /\ passed'[k] >= window'.start /\ passed'[k] <= now
          BY <1>1, <1>2 DEF OfWindow, GateInv
    <3> QED BY <1>1, <1>2, <2>1, <3>1, LimitsAssumption, CapturesAssumption DEF InSpan, Times
  <2>4. I \subseteq DOMAIN passed'
        BY DEF InSpan
  <2>5. IsFiniteSet(I) /\ Cardinality(I) \in Nat
        BY <1>1, <2>4, PositionsFinite
  <2> HIDE DEF F, I
  <2>6. Cardinality(F) <= Cardinality(I)
        BY <2>3, <2>5, FS_Subset
  <2>7. Cardinality(I) >= RateLimit
        BY <2>2, <2>5, <2>6, LimitsAssumption
  <2> QED BY <2>7 DEF I
<1> QED BY <1>1, <1>3, <1>4 DEF Through, InSpan

\* The reasons other than the rate have other statuses.
LEMMA OtherStatuses ==
  ASSUME NEW c PROVE Verdict(c) # 429
  BY DEF Verdict

\* The invariant holds before the first request.
LEMMA InitRate == Init => RateInv
<1> SUFFICES ASSUME Init PROVE RateInv
    OBVIOUS
<1>1. TypeOK /\ now = Epoch /\ window = [start |-> Epoch, count |-> 0] /\ passed = <<>>
      BY InitPoll DEF Init, PollInv
<1>2. /\ OfWindow(passed, window.start) = {} /\ JustBefore(passed, window.start) = {}
      /\ \A t \in Times : InSpan(passed, t, t + Second - 1) = {}
      BY <1>1 DEF OfWindow, JustBefore, InSpan
<1>3. GateInv(passed, window, now)
  <2>1. DOMAIN passed = {} /\ window.start = now /\ window.count = 0 /\ now \in Nat
        BY <1>1, CapturesAssumption
  <2>2. Cardinality(OfWindow(passed, window.start)) = 0
        BY <1>2, FS_EmptySet
  <2>3. Cardinality(JustBefore(passed, window.start)) = 0
        BY <1>2, FS_EmptySet
  <2>4. 0 = IF 0 < RateLimit THEN 0 ELSE RateLimit
        BY LimitsAssumption
  <2> QED BY <2>1, <2>2, <2>3, <2>4, LimitsAssumption DEF GateInv
<1>4. RateIsHonest
  <2>1. reply.tool # "denied"
        BY DEF Init, NoReply
  <2>2. \A t \in Times : Through(t, t + Second - 1) = 0
        BY <1>2, FS_EmptySet DEF Through, InSpan
  <2> QED BY <2>1, <2>2, LimitsAssumption DEF RateIsHonest
<1> QED BY <1>1, <1>3, <1>4 DEF RateInv

\* A tool's answer is not the middleware's.
LEMMA AnswersAreTools == Request => reply'.tool # "denied"
<1> SUFFICES ASSUME Request PROVE reply'.tool # "denied"
    OBVIOUS
<1> DEFINE Tools == {"timeline", "delta", "explain_retrieval", "open_target", "active_focus",
                     "recall", "remember_decision", "feedback"}
           Told(t) == (\E out : Answer(t, out)) \/ reply' \in {Refused(t), Failed(t)}
<1>1. ASSUME NEW t \in Tools, Told(t) PROVE reply'.tool # "denied"
      BY <1>1 DEF Answer, Refused, Failed
<1> HIDE DEF Told
<1>2. ASSUME NEW i, OpenTarget(i) PROVE Told("open_target")
      BY <1>2, Zenon DEF OpenTarget, Told
<1>3. ASSUME NEW stale, ActiveFocus(stale) PROVE Told("active_focus")
      BY <1>3, Zenon DEF ActiveFocus, Told
<1>4. ASSUME NEW q, Timeline(q) PROVE Told("timeline")
      BY <1>4, Zenon DEF Timeline, Told
<1>5. ASSUME NEW limit, Delta(limit) PROVE Told("delta")
      BY <1>5, Zenon DEF Delta, Told
<1>6. ASSUME NEW query, NEW limit, Explain(query, limit) PROVE Told("explain_retrieval")
      BY <1>6, Zenon DEF Explain, Told
<1>7. ASSUME NEW q, Recall(q) PROVE Told("recall")
      BY <1>7, Zenon DEF Recall, Told
<1>8. ASSUME NEW s, NEW at, RememberDecision(s, at) PROVE Told("remember_decision")
      BY <1>8, Zenon DEF RememberDecision, Told
<1>9. ASSUME NEW query, Feedback(query) PROVE Told("feedback")
      BY <1>9, Zenon DEF Feedback, Told
<1> QED BY <1>1, <1>2, <1>3, <1>4, <1>5, <1>6, <1>7, <1>8, <1>9 DEF Request

\* Every step keeps the rate limit's invariant.
LEMMA NextRate == RateInv /\ PollInv /\ [Next]_vars => RateInv'
<1> SUFFICES ASSUME RateInv, PollInv, [Next]_vars PROVE RateInv'
    OBVIOUS
<1>1. TypeOK'
      BY NextPoll DEF PollInv
<1>2. CASE \E c \in Credentials : Denied(c)
  <2>1. PICK c \in Credentials : Denied(c)
        BY <1>2
  <2>2. Counted /\ now' = now
        BY <2>1 DEF Denied, Counted
  <2>3. reply'.status = 429 => ~Allowed(window')
        BY <2>1, OtherStatuses DEF Denied
  <2>4. RateIsHonest'
        BY <2>2, <2>3, CountedSpans DEF RateIsHonest
  <2> QED BY <1>1, <2>2, <2>4, CountedGate DEF RateInv
<1>3. CASE Request /\ \E c \in Credentials : Admitted(c)
  <2>1. Counted
        BY <1>3 DEF Admitted
  <2>2. reply'.tool # "denied"
        BY <1>3, AnswersAreTools
  <2>3. RateIsHonest'
        BY <2>1, <2>2, CountedSpans DEF RateIsHonest
  <2> QED BY <1>1, <2>1, <2>3, CountedGate DEF RateInv
<1>4. CASE Capture \/ SetClockBack \/ Tick
  <2>1. /\ UNCHANGED <<window, passed>> /\ reply'.tool # "denied"
        /\ now \in Times /\ now' \in Times /\ now <= now'
    <3>1. /\ UNCHANGED <<window, passed>> /\ reply' = NoReply
          /\ now' = now \/ now' = now + 1
          BY <1>4 DEF Capture, SetClockBack, Tick, gate
    <3>2. now \in Times /\ now' \in Times
          BY <1>1 DEF RateInv, TypeOK
    <3> QED BY <3>1, <3>2, CapturesAssumption DEF NoReply, Times
  <2>2. RateIsHonest'
        BY <2>1 DEF RateInv, RateIsHonest, Through
  <2>3. \A k \in DOMAIN passed : passed[k] \in Times
        BY DEF RateInv, TypeOK
  <2>4. window.start \in Times
        BY DEF RateInv, TypeOK
  <2>5. GateInv(passed, window, now)'
        BY <2>1, <2>3, <2>4, CapturesAssumption DEF RateInv, GateInv, Times
  <2> QED BY <1>1, <2>2, <2>5 DEF RateInv
<1>5. CASE UNCHANGED vars
  <2>1. UNCHANGED <<now, window, passed, reply>>
        BY <1>5 DEF vars, gate
  <2> QED BY <1>1, <2>1 DEF RateInv, GateInv, RateIsHonest, Through
<1> QED BY <1>2, <1>3, <1>4, <1>5 DEF Next

\* Whatever the limit, the length of a second and the pace of the requests: no span of a
\* second lets more than two windows' worth through, and a request is told to slow down
\* only after a full window's worth in the second before it.
THEOREM RateIsHonestAlways == Spec => []RateIsHonest
<1>1. RateInv => RateIsHonest
      BY DEF RateInv
<1> QED BY <1>1, InitRate, NextRate, Invariance, PTL DEF Spec

-----------------------------------------------------------------------------
(* Enumerations in order                                                   *)

\* What holds of 0, and of k + 1 when it holds of k, holds of every natural.
LEMMA SetInduction ==
  ASSUME NEW S, 0 \in S, \A k \in Nat : k \in S => k + 1 \in S
  PROVE  \A k \in Nat : k \in S
<1> SUFFICES ASSUME Nat \ S # {} PROVE FALSE
    OBVIOUS
<1> DEFINE Less == OpToRel(<, Nat)
           Rest == Nat \ S
<1>1. \E l \in Rest : \A k \in Rest : <<k, l>> \notin Less
      BY WFMin, NatLessThanWellFounded
<1>2. PICK l \in Rest : \A k \in Rest : ~(k < l)
      BY <1>1 DEF OpToRel
<1>3. l - 1 \in Nat /\ l - 1 \in S
      BY <1>2
<1> QED BY <1>2, <1>3

\* A strict total order, as a set of pairs.
IsOrder(R, S) ==
    /\ \A a \in S : <<a, a>> \notin R
    /\ \A a, b \in S : a # b => <<a, b>> \in R \/ <<b, a>> \in R
    /\ \A a, b, c \in S : <<a, b>> \in R /\ <<b, c>> \in R => <<a, c>> \in R

\* The last element, and the enumerations, of a set in such an order.
LastOf(m, S, R) == m \in S /\ \A a \in S \ {m} : <<a, m>> \in R

InOrder(s, S, R) ==
    s \in SetToSeqs(S) /\ \A i, j \in DOMAIN s : i < j => <<s[i], s[j]>> \in R

\* Finitely many elements have a last one.
LEMMA LastElement ==
  ASSUME NEW S, IsFiniteSet(S), S # {}, NEW R, IsOrder(R, S)
  PROVE  \E m : LastOf(m, S, R)
<1> DEFINE T == {n \in Nat : \A U \in SUBSET S :
                    Cardinality(U) = n + 1 => \E m : LastOf(m, U, R)}
<1>1. \A U \in SUBSET S : IsFiniteSet(U) /\ Cardinality(U) \in Nat
      BY FS_Subset, FS_CardinalityType
<1>2. 0 \in T
  <2> SUFFICES ASSUME NEW U \in SUBSET S, Cardinality(U) = 0 + 1
               PROVE  \E m : LastOf(m, U, R)
      OBVIOUS
  <2>0. Cardinality(U) = 1 /\ IsFiniteSet(U)
        BY <1>1
  <2>1. PICK x : U = {x}
        BY <2>0, FS_Singleton, Zenon
  <2>2. LastOf(x, U, R)
        BY <2>1 DEF LastOf
  <2> QED BY <2>2
<1>3. ASSUME NEW n \in Nat, n \in T PROVE n + 1 \in T
  <2> SUFFICES ASSUME NEW U \in SUBSET S, Cardinality(U) = (n + 1) + 1
               PROVE  \E m : LastOf(m, U, R)
      OBVIOUS
  <2>1. PICK x : x \in U
        BY FS_EmptySet
  <2>2. Cardinality(U \ {x}) = n + 1
        BY <1>1, <2>1, FS_RemoveElement
  <2>3. PICK m : LastOf(m, U \ {x}, R)
        BY <1>3, <2>2
  <2>4. CASE <<x, m>> \in R
    <3>1. LastOf(m, U, R)
          BY <2>3, <2>4 DEF LastOf
    <3> QED BY <3>1
  <2>5. CASE <<x, m>> \notin R
    <3>1. <<m, x>> \in R
          BY <2>1, <2>3, <2>5 DEF LastOf, IsOrder
    <3>2. LastOf(x, U, R)
          BY <2>1, <2>3, <3>1 DEF LastOf, IsOrder
    <3> QED BY <3>2
  <2> QED BY <2>4, <2>5
<1>4. Cardinality(S) # 0 /\ Cardinality(S) \in Nat
      BY <1>1, FS_EmptySet
<1>5. Cardinality(S) - 1 \in T
  <2>1. Cardinality(S) - 1 \in Nat
        BY <1>4
  <2> HIDE DEF T
  <2> QED BY <1>2, <1>3, <2>1, SetInduction
<1> QED BY <1>4, <1>5

\* Finitely many elements can be put in order.
LEMMA Enumerated ==
  ASSUME NEW S, IsFiniteSet(S), NEW R, IsOrder(R, S)
  PROVE  \E s : InOrder(s, S, R)
<1> DEFINE T == {n \in Nat : \A U \in SUBSET S :
                    Cardinality(U) = n => \E s : InOrder(s, U, R)}
<1>1. \A U \in SUBSET S : IsFiniteSet(U) /\ Cardinality(U) \in Nat
      BY FS_Subset, FS_CardinalityType
<1>2. 0 \in T
  <2> SUFFICES ASSUME NEW U \in SUBSET S, Cardinality(U) = 0
               PROVE  \E s : InOrder(s, U, R)
      OBVIOUS
  <2>1. InOrder([i \in 1 .. 0 |-> i], U, R)
        BY DEF InOrder, SetToSeqs
  <2> QED BY <2>1
<1>3. ASSUME NEW n \in Nat, n \in T PROVE n + 1 \in T
  <2> SUFFICES ASSUME NEW U \in SUBSET S, Cardinality(U) = n + 1
               PROVE  \E s : InOrder(s, U, R)
      OBVIOUS
  <2>1. U # {} /\ IsOrder(R, U)
        BY FS_EmptySet DEF IsOrder
  <2>2. PICK m : LastOf(m, U, R)
        BY <1>1, <2>1, LastElement
  <2>3. m \in U /\ Cardinality(U \ {m}) = n
        BY <1>1, <2>2, FS_RemoveElement DEF LastOf
  <2>4. PICK r : InOrder(r, U \ {m}, R)
        BY <1>3, <2>3
  <2>5. /\ r \in [1 .. n -> U \ {m}]
        /\ \A i, j \in 1 .. n : i < j => <<r[i], r[j]>> \in R
        /\ \A i, j \in 1 .. n : i # j => r[i] # r[j]
        BY <2>3, <2>4 DEF InOrder, SetToSeqs
  <2> DEFINE s == [i \in 1 .. (n + 1) |-> IF i = n + 1 THEN m ELSE r[i]]
  <2>6. /\ s[n + 1] = m /\ DOMAIN s = 1 .. (n + 1)
        /\ \A i \in 1 .. n : s[i] = r[i] /\ s[i] \in U \ {m}
        /\ \A i \in 1 .. (n + 1) : i = n + 1 \/ i \in 1 .. n
        BY <2>5
  <2>7. s \in [1 .. (n + 1) -> U]
        BY <2>3, <2>5, <2>6
  <2> HIDE DEF s
  <2>8. \A i, j \in 1 .. (n + 1) : i < j => <<s[i], s[j]>> \in R
        BY <2>2, <2>5, <2>6 DEF LastOf
  <2>9. \A i, j \in 1 .. (n + 1) : i # j => s[i] # s[j]
        BY <2>5, <2>6
  <2>10. InOrder(s, U, R)
         BY <2>6, <2>7, <2>8, <2>9 DEF InOrder, SetToSeqs
  <2> QED BY <2>10
<1>4. Cardinality(S) \in T
  <2>1. Cardinality(S) \in Nat
        BY <1>1
  <2> HIDE DEF T
  <2> QED BY <1>2, <1>3, <2>1, SetInduction
<1> QED BY <1>4

\* The lesser of two numbers.
LEMMA LesserOf ==
  ASSUME NEW a \in Nat, NEW b \in Nat
  PROVE  Min({a, b}) = IF a <= b THEN a ELSE b
<1> DEFINE m == IF a <= b THEN a ELSE b
<1>1. m \in {a, b} /\ \A y \in {a, b} : m <= y
      OBVIOUS
<1>2. \A x \in {a, b} : (\A y \in {a, b} : x <= y) => x = m
      OBVIOUS
<1> HIDE DEF m
<1> QED BY <1>1, <1>2 DEF Min, m

\* A beginning of an enumeration leaves out only what comes after it, and nothing unless
\* it is as long as was asked.
LEMMA Beginning ==
  ASSUME NEW S, IsFiniteSet(S), NEW R, IsOrder(R, S), NEW s, InOrder(s, S, R),
         NEW limit \in Nat
  PROVE  /\ ToSet(UpTo(s, limit)) \subseteq S
         /\ \A x \in S \ ToSet(UpTo(s, limit)), y \in ToSet(UpTo(s, limit)) : <<y, x>> \in R
         /\ ToSet(UpTo(s, limit)) # S => Len(UpTo(s, limit)) = limit
<1> DEFINE n == Cardinality(S)
           m == Min({Len(s), limit})
<1>1. n \in Nat
      BY FS_CardinalityType
<1>2. /\ s \in [1 .. n -> S] /\ \A i, j \in 1 .. n : i # j => s[i] # s[j]
      /\ \A i, j \in 1 .. n : i < j => <<s[i], s[j]>> \in R
      BY DEF InOrder, SetToSeqs
<1>3. s \in Surjection(1 .. n, S)
  <2>1. s \in Injection(1 .. n, S)
        BY <1>2 DEF Injection, IsInjective
  <2>2. Cardinality(1 .. n) = n
        BY <1>1, FS_Interval
  <2> HIDE DEF n
  <2> QED BY <2>1, <2>2, FS_Injection DEF n
<1>4. s \in Seq(S) /\ Len(s) = n
      BY <1>1, <1>2
<1>5. m \in Nat /\ m <= n /\ (m = n \/ m = limit)
      BY <1>1, <1>4, LesserOf
<1> HIDE DEF m, n
<1>6. /\ UpTo(s, limit) = SubSeq(s, 1, m) /\ Len(UpTo(s, limit)) = m
      /\ DOMAIN UpTo(s, limit) = 1 .. m /\ \A i \in 1 .. m : UpTo(s, limit)[i] = s[i]
  <2>1. UpTo(s, limit) = SubSeq(s, 1, m)
        BY DEF UpTo, m
  <2>2. m \in 0 .. Len(s)
        BY <1>1, <1>4, <1>5
  <2>3. /\ Len(SubSeq(s, 1, m)) = m /\ DOMAIN SubSeq(s, 1, m) = 1 .. m
        /\ \A i \in 1 .. m : SubSeq(s, 1, m)[i] = s[i]
        BY <1>4, <2>2
  <2> QED BY <2>1, <2>3
<1>7. ToSet(UpTo(s, limit)) = {s[i] : i \in 1 .. m}
      BY <1>6 DEF ToSet
<1>8. \A x \in S : \E i \in 1 .. n : x = s[i]
      BY <1>3 DEF Surjection
<1>9. 1 .. m \subseteq 1 .. n
      BY <1>1, <1>5
<1>10. ToSet(UpTo(s, limit)) \subseteq S
       BY <1>2, <1>7, <1>9
<1>11. ASSUME NEW x \in S \ ToSet(UpTo(s, limit)), NEW y \in ToSet(UpTo(s, limit))
       PROVE  <<y, x>> \in R
  <2>1. PICK i \in 1 .. n : x = s[i]
        BY <1>8
  <2>2. PICK j \in 1 .. m : y = s[j]
        BY <1>7
  <2>3. i \notin 1 .. m
        BY <1>7, <2>1
  <2>4. j \in 1 .. n /\ j < i
        BY <1>1, <1>5, <2>1, <2>2, <2>3
  <2> QED BY <1>2, <2>1, <2>2, <2>4
<1>12. ASSUME m # limit PROVE ToSet(UpTo(s, limit)) = S
  <2>1. m = n
        BY <1>5, <1>12
  <2> QED BY <1>7, <1>8, <1>10, <2>1
<1> QED BY <1>6, <1>10, <1>11, <1>12

-----------------------------------------------------------------------------
(* The tools that count                                                    *)

Decisions == [at : Times, statement : Statements]

\* Any records are finitely many.
LEMMA RecordsFinite ==
  ASSUME TypeOK, NEW S, S \subseteq Ids
  PROVE  IsFiniteSet(S) /\ Cardinality(S) \in Nat
<1>1. Ids = 1 .. Len(memory) /\ Len(memory) \in Nat
      BY DEF TypeOK, Ids
<1>2. IsFiniteSet(Ids)
      BY <1>1, FS_Interval
<1>3. IsFiniteSet(S)
      BY <1>2, FS_Subset
<1> QED BY <1>3, FS_CardinalityType

\* A recall leaves out only the oldest decisions.
LEMMA RecallHolds ==
  ASSUME ledger \in Seq(Decisions), NEW q \in RecallArgs
  PROVE  RecallIsNewest([args |-> q,
                         ids |-> NewestFirst(ledger, q.since, Min({q.limit, RecallCap}))])
<1> DEFINE S == {i \in DOMAIN ledger : ledger[i].at >= q.since}
           Newer(i, j) == \/ ledger[i].at > ledger[j].at
                          \/ ledger[i].at = ledger[j].at /\ i > j
           R == {p \in S \X S : Newer(p[1], p[2])}
           Falls(s) == \A i, j \in DOMAIN s : i < j => Newer(s[i], s[j])
           all == CHOOSE s \in SetToSeqs(S) : Falls(s)
           limit == Min({q.limit, RecallCap})
           ids == NewestFirst(ledger, q.since, limit)
<1>1. ids = UpTo(all, limit)
      BY DEF NewestFirst, Sorted
<1>2. /\ DOMAIN ledger = 1 .. Len(ledger) /\ Len(ledger) \in Nat
      /\ \A i \in DOMAIN ledger : ledger[i].at \in Times
  <2>1. \A d \in Decisions : d.at \in Times
        BY DEF Decisions
  <2>2. \A i \in DOMAIN ledger : ledger[i] \in Decisions
        OBVIOUS
  <2> QED BY <2>1, <2>2
<1>3. IsFiniteSet(S)
  <2>1. IsFiniteSet(DOMAIN ledger)
        BY <1>2, FS_Interval
  <2> QED BY <2>1, FS_Subset
<1>4. \A i \in S : i \in Nat /\ ledger[i].at \in Int
      BY <1>2, CapturesAssumption DEF Times
<1>5. \A i, j : <<i, j>> \in R <=> i \in S /\ j \in S /\ Newer(i, j)
      OBVIOUS
<1>6. IsOrder(R, S)
  <2> HIDE DEF R, S
  <2>1. \A a \in S : <<a, a>> \notin R
        BY <1>4, <1>5
  <2>2. \A a, b \in S : a # b => <<a, b>> \in R \/ <<b, a>> \in R
        BY <1>4, <1>5
  <2>3. \A a, b, c \in S : <<a, b>> \in R /\ <<b, c>> \in R => <<a, c>> \in R
    <3> TAKE a, b, c \in S
    <3>1. /\ ledger[a].at \in Int /\ ledger[b].at \in Int /\ ledger[c].at \in Int
          /\ a \in Nat /\ b \in Nat /\ c \in Nat
          BY <1>4
    <3>2. \A k, l, m, x, y, z \in Int :
             (x > y \/ (x = y /\ k > l)) /\ (y > z \/ (y = z /\ l > m))
                => x > z \/ (x = z /\ k > m)
          OBVIOUS
    <3>3. Newer(a, b) /\ Newer(b, c) => Newer(a, c)
          BY <3>1, <3>2
    <3> HIDE DEF Newer
    <3> QED BY <1>5, <3>3
  <2> QED BY <2>1, <2>2, <2>3 DEF IsOrder
<1>7. ASSUME NEW s \in SetToSeqs(S)
      PROVE  Falls(s) <=> \A i, j \in DOMAIN s : i < j => <<s[i], s[j]>> \in R
  <2>1. \A i \in DOMAIN s : s[i] \in S
        BY <1>7 DEF SetToSeqs
  <2> HIDE DEF R, S, Newer
  <2> QED BY <1>5, <2>1
<1>8. InOrder(all, S, R)
  <2> HIDE DEF Falls, R, S
  <2>1. PICK s : InOrder(s, S, R)
        BY <1>3, <1>6, Enumerated
  <2>2. s \in SetToSeqs(S) /\ Falls(s)
        BY <1>7, <2>1 DEF InOrder
  <2>3. all \in SetToSeqs(S) /\ Falls(all)
        BY <2>2
  <2> QED BY <1>7, <2>3 DEF InOrder
<1>9. limit \in Nat
  <2>1. q.limit \in Nat /\ RecallCap \in Nat
        BY ArgumentsAssumption, LimitsAssumption
  <2> QED BY <2>1, LesserOf
<1> HIDE DEF S, R, all, limit
<1>10. /\ ToSet(ids) \subseteq S
       /\ \A x \in S \ ToSet(ids), y \in ToSet(ids) : <<y, x>> \in R
       /\ ToSet(ids) # S => Len(ids) = limit
       BY <1>1, <1>3, <1>6, <1>8, <1>9, Beginning
<1> HIDE DEF ids
<1>11. \A x \in S \ ToSet(ids), y \in ToSet(ids) : ledger[x].at <= ledger[y].at
  <2> TAKE x \in S \ ToSet(ids), y \in ToSet(ids)
  <2>1. x \in S /\ y \in S /\ Newer(y, x)
        BY <1>5, <1>10
  <2> QED BY <1>4, <2>1
<1>12. S \ ToSet(ids) # {} => Len(ids) = limit
       BY <1>10
<1> DEFINE out == [args |-> q, ids |-> ids]
<1>13. /\ {i \in DOMAIN ledger : ledger[i].at >= out.args.since} = S
       /\ out.ids = ids /\ Min({out.args.limit, RecallCap}) = limit
       BY DEF S, limit
<1> HIDE DEF out
<1>14. RecallIsNewest(out)
       BY <1>11, <1>12, <1>13 DEF RecallIsNewest
<1> QED BY <1>14 DEF out, ids, limit

\* The newest record is as new as any.
LEMMA LatestIsNewest ==
  ASSUME TypeOK, Ids # {}
  PROVE  LatestRecord \in Ids /\ \A i \in Ids : memory[i].at <= memory[LatestRecord].at
<1> DEFINE Older(j, i) == memory[j].at < memory[i].at \/ (memory[j].at = memory[i].at /\ j < i)
           R == {p \in Ids \X Ids : Older(p[1], p[2])}
           Latest(i) == \A j \in Ids : \/ memory[j].at < memory[i].at
                                       \/ memory[j].at = memory[i].at /\ j <= i
<1>1. \A i \in Ids : i \in Nat /\ memory[i].at \in Int
      BY RowsTyped, CapturesAssumption DEF Times
<1>2. \A i, j : <<i, j>> \in R <=> i \in Ids /\ j \in Ids /\ Older(i, j)
      OBVIOUS
<1> HIDE DEF R
<1>3. IsOrder(R, Ids)
      BY <1>1, <1>2 DEF IsOrder
<1>4. PICK m : LastOf(m, Ids, R)
      BY <1>3, RecordsFinite, LastElement
<1>5. m \in Ids /\ Latest(m)
  <2>1. m \in Ids /\ \A j \in Ids \ {m} : Older(j, m)
        BY <1>2, <1>4 DEF LastOf
  <2>2. ASSUME NEW j \in Ids
        PROVE  memory[j].at < memory[m].at \/ (memory[j].at = memory[m].at /\ j <= m)
        BY <1>1, <2>1
  <2> QED BY <2>1, <2>2
<1>6. LatestRecord = CHOOSE i \in Ids : Latest(i)
      BY DEF LatestRecord
<1>7. LatestRecord \in Ids /\ Latest(LatestRecord)
  <2> HIDE DEF Latest
  <2> QED BY <1>5, <1>6
<1> HIDE DEF LatestRecord
<1> QED BY <1>1, <1>7

\* An active focus is active while any capture is that recent.
LEMMA FocusHolds ==
  ASSUME TypeOK, NEW stale \in StaleAfter, stale >= 0
  PROVE  FocusIsCurrent([stale |-> stale,
                         status |-> IF memory = <<>> THEN "none"
                                    ELSE IF Age(memory[LatestRecord].at) > stale THEN "stale"
                                    ELSE "active"])
<1>1. memory = <<>> <=> Ids = {}
      BY DEF TypeOK, Ids
<1>2. Wall \in Int /\ stale \in Int /\ \A i \in Ids : memory[i].at \in Int
      BY RowsTyped, CapturesAssumption, ArgumentsAssumption DEF TypeOK, Times
<1> DEFINE latest == LatestRecord
<1>3. Ids # {} => latest \in Ids /\ \A i \in Ids : memory[i].at <= memory[latest].at
      BY LatestIsNewest
<1> HIDE DEF latest
<1>4. Ids # {} => (Age(memory[latest].at) > stale
                      <=> ~ \E i \in Ids : memory[i].at >= Wall - stale)
      BY <1>2, <1>3 DEF Age
<1> QED BY <1>1, <1>4 DEF FocusIsCurrent, latest

\* An explanation announces the keyword hits a search would return.
LEMMA ExplainHolds ==
  ASSUME TypeOK, NEW query, NEW limit \in ExplainLimits
  PROVE  ExplanationHolds(ExplainRetrieval(query, limit))
<1> DEFINE total == Cardinality(Matches(query))
<1>1. total \in Nat
  <2>1. Matches(query) \subseteq Ids
        BY DEF Matches
  <2> QED BY <2>1, RecordsFinite
<1>2. limit \in Nat /\ StoreCap \in Nat /\ SearchCap \in Nat /\ StoreCap <= SearchCap
      BY ArgumentsAssumption, LimitsAssumption
<1> HIDE DEF total
<1> DEFINE asking == Min({limit, StoreCap})
           clamped == Min({limit, SearchCap})
<1>3. /\ asking \in Nat /\ asking = IF limit <= StoreCap THEN limit ELSE StoreCap
      /\ clamped \in Nat /\ clamped = IF limit <= SearchCap THEN limit ELSE SearchCap
      BY <1>2, LesserOf
<1> HIDE DEF asking, clamped
<1>4. Min({clamped, StoreCap}) = asking
      BY <1>2, <1>3, LesserOf
<1>5. Min({total, asking}) \in Nat /\ Min({total, asking}) <= total
      BY <1>1, <1>3, LesserOf
<1>6. /\ ExplainRetrieval(query, limit).would = Min({total, asking})
      /\ ExplainRetrieval(query, limit).dropped = total - Min({total, asking})
      /\ ExplainRetrieval(query, limit).query = query
      /\ ExplainRetrieval(query, limit).limit = limit
      BY DEF ExplainRetrieval, total, asking
<1>7. \A hits \in SearchHits(query, clamped) : hits.keyword = Min({total, asking})
      BY <1>4 DEF SearchHits, total
<1>8. Min({total, asking}) + (total - Min({total, asking})) = total
      BY <1>1, <1>5
<1> HIDE DEF ExplainRetrieval
<1> QED BY <1>6, <1>7, <1>8 DEF ExplanationHolds, total, clamped

\* A bucket begins on a whole hour or day of the shifted clock and holds its instant.
LEMMA BucketHolds ==
  ASSUME NEW at \in Int, NEW width \in Nat \ {0}, NEW offset \in Int
  PROVE  LET start == BucketStart(at, width, offset) IN
         /\ start \in Int /\ start <= at /\ at < start + width
         /\ (start + offset) % width = 0
<1> DEFINE turn == (at + offset) \div width
<1>1. turn \in Int /\ turn * width <= at + offset /\ at + offset < turn * width + width
      OBVIOUS
<1> HIDE DEF turn
<1> DEFINE whole == turn * width
<1>2. whole \in Int /\ whole <= at + offset /\ at + offset < whole + width /\ whole % width = 0
      BY <1>1
<1>3. BucketStart(at, width, offset) = whole - offset
      BY DEF BucketStart, turn
<1> HIDE DEF whole
<1>4. (whole - offset) + offset = whole
      BY <1>2
<1> HIDE DEF BucketStart
<1> QED BY <1>2, <1>3, <1>4

\* Instants of one bucket have the same bucket.
LEMMA OneBucket ==
  ASSUME NEW at \in Int, NEW other \in Int, NEW width \in Nat \ {0}, NEW offset \in Int,
         BucketStart(at, width, offset) <= other, other < BucketStart(at, width, offset) + width
  PROVE  BucketStart(other, width, offset) = BucketStart(at, width, offset)
<1> DEFINE p == (at + offset) \div width
           r == (other + offset) \div width
<1>1. p \in Int /\ r \in Int
      OBVIOUS
<1>2. r * width <= other + offset /\ other + offset < r * width + width
      OBVIOUS
<1>3. p * width - offset <= other /\ other < (p * width - offset) + width
      BY DEF BucketStart
<1> HIDE DEF p, r
<1>4. ~(p < r)
  <2> SUFFICES ASSUME p + 1 <= r PROVE FALSE
      BY <1>1
  <2>1. (p + 1) * width <= r * width
        BY <1>1
  <2>2. (p + 1) * width = p * width + width
        BY <1>1
  <2>3. p * width \in Int /\ r * width \in Int
        BY <1>1
  <2> QED BY <1>2, <1>3, <2>1, <2>2, <2>3
<1>5. ~(r < p)
  <2> SUFFICES ASSUME r + 1 <= p PROVE FALSE
      BY <1>1
  <2>1. (r + 1) * width <= p * width
        BY <1>1
  <2>2. (r + 1) * width = r * width + width
        BY <1>1
  <2>3. p * width \in Int /\ r * width \in Int
        BY <1>1
  <2> QED BY <1>2, <1>3, <2>1, <2>2, <2>3
<1>6. p = r
      BY <1>1, <1>4, <1>5
<1> QED BY <1>6 DEF BucketStart, p, r

\* A timeline counts each capture of its window once.
LEMMA TimelineHolds ==
  ASSUME TypeOK, NEW q \in TimelineArgs, NEW limit, limit = Min({q.limit, TimelineCap}),
         NEW buckets,
         buckets = ActivityBuckets(q.from, q.to, Width(q.grain), q.offset, limit)
  PROVE  TimelineAddsUp([args |-> q, buckets |-> buckets, truncated |-> Len(buckets) = limit])
<1> DEFINE width == Width(q.grain)
           inside == {i \in Ids : q.from <= memory[i].at /\ memory[i].at <= q.to}
           start(i) == BucketStart(memory[i].at, width, q.offset)
           group(i) == {j \in inside : start(j) = start(i) /\ memory[j].app = memory[i].app}
           row(i) == [start |-> start(i), app |-> memory[i].app,
                      records |-> Cardinality(group(i))]
           rows == {row(i) : i \in inside}
           Before(a, b) == \/ a.start < b.start
                           \/ a.start = b.start /\ a.records > b.records
                           \/ a.start = b.start /\ a.records = b.records /\ a.app < b.app
           R == {p \in rows \X rows : Before(p[1], p[2])}
           Rises(s) == \A i, j \in DOMAIN s : i < j => Before(s[i], s[j])
           all == CHOOSE s \in SetToSeqs(rows) : Rises(s)
<1>1. width \in Nat \ {0} /\ q.from \in Int /\ q.to \in Int /\ q.offset \in Int /\ limit \in Nat
  <2>1. q.from \in Int /\ q.to \in Int /\ q.offset \in Int /\ q.limit \in Nat
        BY ArgumentsAssumption
  <2>2. limit \in Nat
        BY <2>1, LesserOf, LimitsAssumption
  <2> QED BY <2>1, <2>2, LimitsAssumption DEF Width
<1>2. \A i \in inside : i \in Ids /\ memory[i].at \in Int /\ memory[i].app \in Nat
  <2>1. \A r \in Rows : r.app \in Nat /\ r.at \in Int
        BY CapturesAssumption DEF Rows, Times
  <2> QED BY <2>1, RowsTyped
<1>3. buckets = UpTo(all, limit)
      BY DEF ActivityBuckets, Sorted
<1>4. /\ IsFiniteSet(inside)
      /\ \A i \in inside : IsFiniteSet(group(i)) /\ Cardinality(group(i)) \in Nat
  <2>1. inside \subseteq Ids /\ \A i \in inside : group(i) \subseteq Ids
        OBVIOUS
  <2> HIDE DEF inside, group
  <2> QED BY <2>1, RecordsFinite
<1>5. /\ IsFiniteSet(rows)
      /\ \A b \in rows : \E i \in inside : b = row(i)
      /\ \A i \in inside : row(i) \in rows
  <2> DEFINE f == [i \in inside |-> row(i)]
  <2>1. f \in Surjection(inside, rows)
    <3> HIDE DEF inside, row
    <3> QED BY DEF Surjection
  <2> HIDE DEF inside, row, f
  <2>2. IsFiniteSet(rows)
    <3> HIDE DEF rows
    <3> QED BY <1>4, <2>1, FS_Surjection
  <2> QED BY <2>2
<1>6. \A i \in inside : /\ start(i) \in Int /\ start(i) <= memory[i].at
                         /\ memory[i].at < start(i) + width
                         /\ (start(i) + q.offset) % width = 0
  <2> HIDE DEF width, inside
  <2> QED BY <1>1, <1>2, BucketHolds
<1>7. \A i, j \in inside : memory[j].at \in start(i) .. start(i) + width - 1
                            <=> start(j) = start(i)
  <2> TAKE i, j \in inside
  <2>1. /\ memory[i].at \in Int /\ memory[j].at \in Int /\ width \in Nat \ {0}
        /\ q.offset \in Int /\ start(i) \in Int
        /\ memory[j].at >= start(j) /\ memory[j].at < start(j) + width
        BY <1>1, <1>2, <1>6
  <2>2. ASSUME start(i) <= memory[j].at, memory[j].at < start(i) + width
        PROVE  start(j) = start(i)
    <3> HIDE DEF width
    <3> QED BY <2>1, <2>2, OneBucket
  <2> HIDE DEF start, width
  <2> QED BY <2>1, <2>2
<1>8. \A i \in inside : /\ row(i).start = start(i) /\ row(i).app = memory[i].app
                         /\ row(i).records = Cardinality(group(i))
      OBVIOUS
<1>9. \A i, j \in inside : start(j) = start(i) /\ memory[j].app = memory[i].app
                            => group(j) = group(i)
  <2> HIDE DEF start, inside
  <2> QED OBVIOUS
<1>10. \A i, j \in inside : start(j) = start(i) /\ memory[j].app = memory[i].app
                             => row(j) = row(i)
  <2> HIDE DEF start, inside, group
  <2> QED BY <1>9
<1>11. \A b \in rows : b.start \in Int /\ b.records \in Nat /\ b.app \in Nat
  <2> HIDE DEF rows, row, inside, start, group
  <2> QED BY <1>2, <1>4, <1>5, <1>6, <1>8
<1>12. \A a, b \in rows : a.start = b.start /\ a.app = b.app => a = b
  <2> HIDE DEF rows, row, inside, start, group
  <2> QED BY <1>5, <1>8, <1>10
<1>13. \A a, b : <<a, b>> \in R <=> a \in rows /\ b \in rows /\ Before(a, b)
  <2> HIDE DEF rows
  <2> QED OBVIOUS
<1> HIDE DEF rows, row, inside, start, group, R, width
<1>14. IsOrder(R, rows)
  <2>1. \A a \in rows : <<a, a>> \notin R
        BY <1>11, <1>13
  <2>2. \A a, b \in rows : a # b => <<a, b>> \in R \/ <<b, a>> \in R
    <3> TAKE a, b \in rows
    <3>1. /\ a.start \in Int /\ a.records \in Nat /\ a.app \in Nat
          /\ b.start \in Int /\ b.records \in Nat /\ b.app \in Nat
          BY <1>11
    <3>2. a # b => a.start # b.start \/ a.app # b.app
          BY <1>12
    <3> QED BY <1>13, <3>1, <3>2
  <2>3. \A a, b, c \in rows : <<a, b>> \in R /\ <<b, c>> \in R => <<a, c>> \in R
    <3> TAKE a, b, c \in rows
    <3>1. /\ a.start \in Int /\ a.records \in Nat /\ a.app \in Nat
          /\ b.start \in Int /\ b.records \in Nat /\ b.app \in Nat
          /\ c.start \in Int /\ c.records \in Nat /\ c.app \in Nat
          BY <1>11
    <3>2. Before(a, b) /\ Before(b, c) => Before(a, c)
          BY <3>1
    <3> QED BY <1>13, <3>2
  <2> QED BY <2>1, <2>2, <2>3 DEF IsOrder
<1>15. ASSUME NEW s \in SetToSeqs(rows)
       PROVE  Rises(s) <=> \A i, j \in DOMAIN s : i < j => <<s[i], s[j]>> \in R
  <2>1. \A i \in DOMAIN s : s[i] \in rows
        BY <1>15 DEF SetToSeqs
  <2> HIDE DEF Before
  <2> QED BY <1>13, <2>1
<1>16. InOrder(all, rows, R)
  <2> HIDE DEF Rises
  <2>1. PICK s : InOrder(s, rows, R)
        BY <1>5, <1>14, Enumerated
  <2>2. s \in SetToSeqs(rows) /\ Rises(s)
        BY <1>15, <2>1 DEF InOrder
  <2>3. all \in SetToSeqs(rows) /\ Rises(all)
        BY <2>2
  <2> QED BY <1>15, <2>3 DEF InOrder
<1> HIDE DEF all
<1>17. ToSet(buckets) \subseteq rows /\ (ToSet(buckets) # rows => Len(buckets) = limit)
       BY <1>1, <1>3, <1>5, <1>14, <1>16, Beginning
<1> DEFINE of(b) == {i \in inside : memory[i].app = b.app
                                     /\ memory[i].at \in b.start .. b.start + width - 1}
<1>18. \A i \in inside : of(row(i)) = group(i)
       BY <1>7, <1>8 DEF group
<1>19. \A b \in rows : Cardinality(of(b)) = b.records /\ (b.start + q.offset) % width = 0
  <2> HIDE DEF of
  <2> QED BY <1>5, <1>6, <1>8, <1>18
<1>20. \A b, c \in rows : of(b) \cap of(c) # {} => b = c
  <2> SUFFICES ASSUME NEW b \in rows, NEW c \in rows, NEW i \in of(b) \cap of(c) PROVE b = c
      OBVIOUS
  <2>1. PICK j \in inside : b = row(j)
        BY <1>5
  <2>2. PICK k \in inside : c = row(k)
        BY <1>5
  <2>3. i \in inside /\ i \in group(j) /\ i \in group(k)
        BY <1>18, <2>1, <2>2
  <2>4. /\ start(j) = start(i) /\ memory[j].app = memory[i].app
        /\ start(k) = start(i) /\ memory[k].app = memory[i].app
        BY <2>3 DEF group
  <2> QED BY <1>10, <2>1, <2>2, <2>3, <2>4
<1>21. inside = UNION {of(b) : b \in rows}
  <2>1. ASSUME NEW i \in inside PROVE i \in of(row(i)) /\ row(i) \in rows
        BY <1>5, <1>18 DEF group
  <2>2. \A b \in rows : of(b) \subseteq inside
        OBVIOUS
  <2> HIDE DEF of
  <2> QED BY <2>1, <2>2
<1>22. inside = {i \in Ids : memory[i].at \in q.from .. q.to}
  <2>1. \A i \in Ids : memory[i].at \in Int
        BY RowsTyped, CapturesAssumption DEF Times
  <2> QED BY <1>1, <2>1 DEF inside
<1> DEFINE out == [args |-> q, buckets |-> buckets, truncated |-> Len(buckets) = limit]
<1>23. inside # UNION {of(b) : b \in ToSet(buckets)} => Len(buckets) = limit
  <2> HIDE DEF of
  <2> QED BY <1>17, <1>21
<1>24. TimelineAddsUp(out)
  <2> DEFINE seen == {i \in Ids : memory[i].at \in out.args.from .. out.args.to}
             counted(b) == {i \in seen : /\ memory[i].app = b.app
                                         /\ memory[i].at \in b.start
                                              .. b.start + Width(out.args.grain) - 1}
  <2>1. out.args = q /\ out.buckets = buckets /\ out.truncated = (Len(buckets) = limit)
        OBVIOUS
  <2> HIDE DEF out
  <2>2. seen = inside /\ width = Width(out.args.grain)
        BY <1>22, <2>1 DEF width
  <2>3. \A b : counted(b) = of(b)
        BY <2>2
  <2> HIDE DEF of
  <2>4. /\ \A b \in ToSet(out.buckets) :
              /\ Cardinality(counted(b)) = b.records
              /\ (b.start + out.args.offset) % Width(out.args.grain) = 0
        /\ \A b, c \in ToSet(out.buckets) : counted(b) \cap counted(c) # {} => b = c
        /\ seen # UNION {counted(b) : b \in ToSet(out.buckets)} => out.truncated
    <3> HIDE DEF seen, counted
    <3> QED BY <1>17, <1>19, <1>20, <1>23, <2>1, <2>2, <2>3
  <2> QED BY <2>4 DEF TimelineAddsUp
<1> QED BY <1>24


\* What a tool answers: nothing, or the tool and what it says.
Silent == "out" \notin DOMAIN reply'
Says(tool, out) ==
    /\ reply' = [tool |-> tool, status |-> "ok", out |-> out]
    /\ reply'.tool = tool /\ reply'.out = out

\* A tool says one of these.
LEMMA AnswerShape ==
  ASSUME NEW tool, NEW out
  PROVE  /\ Answer(tool, out) => Silent \/ Says(tool, out)
         /\ reply' \in {Refused(tool), Failed(tool)} => Silent
  BY DEF Answer, Refused, Failed, Silent, Says

\* The ledger holds decisions.
LEMMA LedgerType ==
  ASSUME TypeOK, ledger \in Seq(Decisions), [Next]_vars
  PROVE  ledger' \in Seq(Decisions)
<1>1. ASSUME NEW s \in Statements, NEW at \in {Epoch, Wall}, RememberDecision(s, at)
      PROVE  ledger' \in Seq(Decisions)
  <2>1. at \in Times
        BY CapturesAssumption DEF TypeOK, Times
  <2>2. ledger' = ledger \/ ledger' = Append(ledger, [at |-> at, statement |-> s])
        BY <1>1 DEF RememberDecision, AppendDecision
  <2>3. [at |-> at, statement |-> s] \in Decisions
        BY <2>1 DEF Decisions
  <2> QED BY <2>2, <2>3
<1>2. ASSUME Request PROVE ledger' \in Seq(Decisions)
  <2>1. CASE \E s \in Statements, at \in {Epoch, Wall} : RememberDecision(s, at)
        BY <1>1, <2>1
  <2>2. CASE ledger' = ledger
        BY <2>2
  <2>3. ledger' = ledger \/ \E s \in Statements, at \in {Epoch, Wall} : RememberDecision(s, at)
        BY <1>2 DEF Request, Timeline, Delta, Explain, OpenTarget, ActiveFocus, Recall, Feedback,
                    store
  <2> QED BY <2>1, <2>2, <2>3
<1>3. CASE Request
      BY <1>2, <1>3
<1>4. CASE ~Request
  <2>1. (\E c \in Credentials : Denied(c)) \/ Capture \/ SetClockBack \/ Tick \/ UNCHANGED vars
        BY <1>4 DEF Next
  <2>2. ASSUME NEW c, Denied(c) PROVE ledger' = ledger
        BY <2>2 DEF Denied, store
  <2>3. Capture \/ SetClockBack \/ Tick \/ UNCHANGED vars => ledger' = ledger
        BY DEF Capture, SetClockBack, Tick, vars, store
  <2> QED BY <2>1, <2>2, <2>3
<1> QED BY <1>3, <1>4

\* What is said of records that have not changed since still holds.
LEMMA StillTrue ==
  ASSUME UNCHANGED <<now, setBack, memory, ledger>>, NEW out, reply'.out = out
  PROVE  /\ TimelineAddsUp(out) => TimelineAddsUp(reply.out)'
         /\ ExplanationHolds(out) => ExplanationHolds(reply.out)'
         /\ FocusIsCurrent(out) => FocusIsCurrent(reply.out)'
         /\ RecallIsNewest(out) => RecallIsNewest(reply.out)'
<1>1. TimelineAddsUp(out) => TimelineAddsUp(reply.out)'
      BY DEF TimelineAddsUp, Ids
<1>2. ExplanationHolds(out) => ExplanationHolds(reply.out)'
      BY DEF ExplanationHolds, SearchHits, Matches, Ids
<1>3. FocusIsCurrent(out) => FocusIsCurrent(reply.out)'
      BY DEF FocusIsCurrent, Ids, Wall
<1>4. RecallIsNewest(out) => RecallIsNewest(reply.out)'
      BY DEF RecallIsNewest
<1> QED BY <1>1, <1>2, <1>3, <1>4


\* Each tool that counts says what holds of the records.
LEMMA RequestAnswers ==
  ASSUME TypeOK, ledger \in Seq(Decisions), UNCHANGED <<now, setBack>>, Request
  PROVE  AnswersAddUp'
<1> DEFINE Counting == {"timeline", "explain_retrieval", "active_focus", "recall"}
           Other(tool) == \/ \E out : Answer(tool, out)
                          \/ reply' \in {Refused(tool), Failed(tool)}
<1>1. ASSUME Silent PROVE AnswersAddUp'
      BY <1>1 DEF AnswersAddUp, Silent
<1>2. ASSUME NEW tool, tool \notin Counting, Other(tool) PROVE AnswersAddUp'
  <2>1. Silent \/ reply'.tool = tool
        BY <1>2, AnswerShape DEF Says
  <2> QED BY <1>1, <1>2, <2>1 DEF AnswersAddUp
<1>3. ASSUME NEW q \in TimelineArgs, Timeline(q) PROVE AnswersAddUp'
  <2> DEFINE limit == Min({q.limit, TimelineCap})
             buckets == ActivityBuckets(q.from, q.to, Width(q.grain), q.offset, limit)
             out == [args |-> q, buckets |-> buckets, truncated |-> Len(buckets) = limit]
  <2>1. TimelineAddsUp(out)
    <3> HIDE DEF ActivityBuckets
    <3> QED BY TimelineHolds
  <2>2. UNCHANGED <<now, setBack, memory, ledger>>
        BY <1>3 DEF Timeline, store
  <2>3. Answer("timeline", out) \/ reply' \in {Refused("timeline"), Failed("timeline")}
        BY <1>3 DEF Timeline
  <2> HIDE DEF out
  <2>4. Silent \/ Says("timeline", out)
        BY <2>3, AnswerShape
  <2>5. ASSUME Says("timeline", out) PROVE AnswersAddUp'
    <3>1. TimelineAddsUp(reply.out)' /\ reply'.tool = "timeline"
          BY <2>1, <2>2, <2>5, StillTrue DEF Says
    <3> QED BY <3>1 DEF AnswersAddUp
  <2> QED BY <1>1, <2>4, <2>5
<1>4. ASSUME NEW query \in Queries, NEW limit \in ExplainLimits, Explain(query, limit)
      PROVE  AnswersAddUp'
  <2> DEFINE out == ExplainRetrieval(query, limit)
  <2>1. ExplanationHolds(out)
        BY ExplainHolds
  <2>2. UNCHANGED <<now, setBack, memory, ledger>>
        BY <1>4 DEF Explain, store
  <2>3. Answer("explain_retrieval", out)
        BY <1>4 DEF Explain
  <2> HIDE DEF out
  <2>4. Silent \/ Says("explain_retrieval", out)
        BY <2>3, AnswerShape
  <2>5. ASSUME Says("explain_retrieval", out) PROVE AnswersAddUp'
    <3>1. ExplanationHolds(reply.out)' /\ reply'.tool = "explain_retrieval"
          BY <2>1, <2>2, <2>5, StillTrue DEF Says
    <3> QED BY <3>1 DEF AnswersAddUp
  <2> QED BY <1>1, <2>4, <2>5
<1>5. ASSUME NEW stale \in StaleAfter, ActiveFocus(stale) PROVE AnswersAddUp'
  <2> DEFINE out == [stale |-> stale,
                     status |-> IF memory = <<>> THEN "none"
                                ELSE IF Age(memory[LatestRecord].at) > stale THEN "stale"
                                ELSE "active"]
  <2>1. stale >= 0 => FocusIsCurrent(out)
        BY FocusHolds
  <2>2. UNCHANGED <<now, setBack, memory, ledger>>
        BY <1>5 DEF ActiveFocus, store
  <2>3. /\ Answer("active_focus", out) \/ reply' \in {Refused("active_focus"), Failed("active_focus")}
        /\ stale < 0 => reply' \in {Refused("active_focus"), Failed("active_focus")}
        BY <1>5 DEF ActiveFocus
  <2> HIDE DEF out
  <2>4. Silent \/ (stale >= 0 /\ Says("active_focus", out))
    <3>1. stale \in Int
          BY ArgumentsAssumption
    <3> QED BY <2>3, <3>1, AnswerShape
  <2>5. ASSUME stale >= 0, Says("active_focus", out) PROVE AnswersAddUp'
    <3>1. FocusIsCurrent(reply.out)' /\ reply'.tool = "active_focus"
          BY <2>1, <2>2, <2>5, StillTrue DEF Says
    <3> QED BY <3>1 DEF AnswersAddUp
  <2> QED BY <1>1, <2>4, <2>5
<1>6. ASSUME NEW q \in RecallArgs, Recall(q) PROVE AnswersAddUp'
  <2> DEFINE out == [args |-> q,
                     ids |-> NewestFirst(ledger, q.since, Min({q.limit, RecallCap}))]
  <2>1. RecallIsNewest(out)
        BY RecallHolds
  <2>2. UNCHANGED <<now, setBack, memory, ledger>>
        BY <1>6 DEF Recall, store
  <2>3. Answer("recall", out) \/ reply' \in {Refused("recall"), Failed("recall")}
        BY <1>6 DEF Recall
  <2> HIDE DEF out
  <2>4. Silent \/ Says("recall", out)
        BY <2>3, AnswerShape
  <2>5. ASSUME Says("recall", out) PROVE AnswersAddUp'
    <3>1. RecallIsNewest(reply.out)' /\ reply'.tool = "recall"
          BY <2>1, <2>2, <2>5, StillTrue DEF Says
    <3> QED BY <3>1 DEF AnswersAddUp
  <2> QED BY <1>1, <2>4, <2>5
<1>7. ASSUME NEW limit, Delta(limit) PROVE Other("delta")
      BY <1>7, Zenon DEF Delta, Other
<1>8. ASSUME NEW i, OpenTarget(i) PROVE Other("open_target")
      BY <1>8, Zenon DEF OpenTarget, Other
<1>9. ASSUME NEW s, NEW at, RememberDecision(s, at) PROVE Other("remember_decision")
      BY <1>9, Zenon DEF RememberDecision, Other
<1>10. ASSUME NEW query, Feedback(query) PROVE Other("feedback")
       BY <1>10, Zenon DEF Feedback, Other
<1> HIDE DEF Other
<1>11. \A tool \in {"delta", "open_target", "remember_decision", "feedback"} : tool \notin Counting
       OBVIOUS
<1> HIDE DEF Counting
<1> QED BY <1>2, <1>3, <1>4, <1>5, <1>6, <1>7, <1>8, <1>9, <1>10, <1>11 DEF Request

\* The answers, the ledger they are read from, and the types of both.
AnswersInv == TypeOK /\ ledger \in Seq(Decisions) /\ AnswersAddUp

\* Every step keeps the invariant.
LEMMA NextAnswers == PollInv /\ AnswersInv /\ [Next]_vars => AnswersInv'
<1> SUFFICES ASSUME PollInv, AnswersInv, [Next]_vars PROVE AnswersInv'
    OBVIOUS
<1>1. TypeOK' /\ ledger' \in Seq(Decisions)
      BY NextPoll, LedgerType DEF PollInv, AnswersInv
<1>2. ASSUME NEW c \in Credentials, Denied(c) PROVE AnswersAddUp'
      BY <1>2 DEF Denied, AnswersAddUp
<1>3. ASSUME NEW c \in Credentials, Admitted(c), Request PROVE AnswersAddUp'
  <2>1. UNCHANGED <<now, setBack>>
        BY <1>3 DEF Admitted, Counted
  <2> QED BY <1>3, <2>1, RequestAnswers DEF AnswersInv
<1>4. ASSUME Capture \/ SetClockBack \/ Tick PROVE AnswersAddUp'
  <2>1. reply' = NoReply
        BY <1>4 DEF Capture, SetClockBack, Tick
  <2> QED BY <2>1 DEF AnswersAddUp, NoReply
<1>5. ASSUME UNCHANGED vars PROVE AnswersAddUp'
  <2>1. UNCHANGED <<now, setBack, memory, ledger, reply>>
        BY <1>5 DEF vars, store
  <2>2. reply'.out = reply.out
        BY <2>1
  <2>3. ASSUME "out" \in DOMAIN reply' PROVE AnswersAddUp'
    <3>1. "out" \in DOMAIN reply /\ reply'.tool = reply.tool
          BY <2>1, <2>3
    <3> QED BY <2>1, <2>2, <3>1, StillTrue DEF AnswersInv, AnswersAddUp
  <2> QED BY <2>3 DEF AnswersAddUp
<1> QED BY <1>1, <1>2, <1>3, <1>4, <1>5 DEF AnswersInv, Next

\* Whatever was captured, renewed and decided, and for every limit, offset and cap: what
\* the counting tools answer adds up to the records they count.
THEOREM AnswersAddUpAlways == Spec => []AnswersAddUp
<1>1. Init => AnswersInv
  <2>1. Init => TypeOK
        BY InitPoll DEF PollInv
  <2>2. Init => ledger \in Seq(Decisions) /\ AnswersAddUp
        BY DEF Init, AnswersAddUp, NoReply
  <2> QED BY <2>1, <2>2 DEF AnswersInv
<1>2. AnswersInv => AnswersAddUp
      BY DEF AnswersInv
<1> QED BY <1>1, <1>2, NextAnswers, Invariance, PTL DEF Spec
=============================================================================
