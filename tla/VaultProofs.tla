----------------------------- MODULE VaultProofs -----------------------------
(***************************************************************************)
(* Proofs about the vault, for every set of records, every number of       *)
(* captures, calls and interruptions, every batch size and window.         *)
(*                                                                         *)
(* First the two stores, VaultIndex: IndexInv adds to the checked          *)
(* properties what each phase of an operation may rely on, SiteInv what a  *)
(* deletion by site may.  Then the readers, VaultReaders: CallInv(n) says  *)
(* at each stage of call n what its hits are worth.  A step of one call    *)
(* leaves the others alone; a step of the owner adds to what was held and  *)
(* takes from what was steady.                                             *)
(***************************************************************************)
EXTENDS VaultReaders, TLAPS

\* A batch in flight holds pending chunks of live records, as read.
BatchIsCurrent ==
    \A c \in batch : /\ c.record \in live
                     /\ c.text = text[c.record]
                     /\ flushedAt[c.record] = Pending

\* Only the phases between reading and stamping have a batch.
BatchHasPhase == phase \notin {"open", "indexes", "add", "mark"} => batch = {}

\* While the stamp is outstanding the rows are there already.
CommittedBeforeStamp ==
    phase = "mark" =>
        \A c \in batch : [record |-> c.record, text |-> c.text, copy |-> 1] \in rows

\* A pending chunk has rows only in that window, or because it was cut there.
PendingHasNoRow ==
    \A w \in rows : (flushedAt[w.record] = Pending /\ w.record \notin unstamped)
        => phase = "mark" /\ w.record \in BatchRecords

DeletionOrder == phase = "delTruth" => \A w \in rows : w.record \notin targets

RebuildIsClean ==
    /\ phase = "reset" => rows = {} /\ unstamped = {}
    /\ (phase \in FlushPhases /\ goal = "rebuild") => torn = {} /\ unstamped = {}
    /\ phase \in {"drop", "reset"} => goal = "rebuild"

OrphanInv == TypeOK /\ NoOrphanRows /\ BatchIsCurrent /\ BatchHasPhase /\ DeletionOrder

\* What fndr-store relies on when it stamps: the clock does not read zero, the
\* value that means "pending".
ClockRuns == Pending \notin FlushStamps

IndexInv == /\ OrphanInv
            /\ FlushedIsIndexed /\ SingleCurrentRow
            /\ CommittedBeforeStamp /\ PendingHasNoRow /\ RebuildIsClean

-----------------------------------------------------------------------------
\* Every batch of pending_chunks is a set of pending chunks with their text.
LEMMA ReadBatchFacts ==
    ASSUME TypeOK, ReadBatch
    PROVE  /\ batch' \subseteq Chunk
           /\ \A c \in batch' : /\ c.record \in live
                                /\ c.text = text[c.record]
                                /\ flushedAt[c.record] = Pending
           /\ phase' = "open"
<1>1. PICK B \in OldestPending : batch' = {[record |-> r, text |-> text[r]] : r \in B}
  BY DEF ReadBatch
<1>2. B \subseteq PendingChunks
  BY DEF OldestPending
<1>3. PendingChunks \subseteq live /\ \A r \in PendingChunks : flushedAt[r] = Pending
  BY DEF PendingChunks
<1>4. B \subseteq Records /\ \A r \in B : text[r] \in Texts
  BY <1>2, <1>3 DEF TypeOK
<1>5. QED
  BY <1>1, <1>2, <1>3, <1>4 DEF ReadBatch, Chunk

\* The empty vault is well typed.
LEMMA TypeCorrectInit == Init => TypeOK
  BY BoundsAssumption DEF Init, TypeOK, Texts, Phases, FlushPhases, NoScope, Pending

\* Type correctness: every operation keeps the two stores, the operation in
\* progress and the counters within their types.
THEOREM TypeCorrect == Spec => []TypeOK
<1>1. Init => TypeOK
  BY TypeCorrectInit
<1>2. TypeOK /\ [Next]_vars => TypeOK'
  <2> SUFFICES ASSUME TypeOK, [Next]_vars PROVE TypeOK'
    OBVIOUS
  <2> USE DEF TypeOK, truthVars, indexVars, opVars, auxVars
  <2>1. ASSUME NEW r \in Records, InsertCapture(r) PROVE TypeOK'
    BY <2>1, BoundsAssumption DEF InsertCapture, Texts, Moments, Pending
  <2>2. ASSUME NEW r \in Records, MergeCapture(r) PROVE TypeOK'
    <3>1. \A m \in {text[r], text[r] \cup {clock}} : m \in Texts
      BY <2>2 DEF MergeCapture, Texts
    <3>2. clock \in Moments /\ clock \in 0..MaxClock /\ clock + 1 \in 1..(MaxClock + 1)
      BY <2>2, BoundsAssumption DEF MergeCapture, Moments
    <3>3. QED
      BY <2>2, <3>1, <3>2 DEF MergeCapture
  <2>3. ASSUME NEW g \in {"once", "drain"}, StartFlush(g) PROVE TypeOK'
    BY <2>3, ReadBatchFacts DEF StartFlush, Phases, FlushPhases
  <2>4. ASSUME NEW s \in Scopes, StartDelete(s) PROVE TypeOK'
    BY <2>4 DEF StartDelete, RecordIdsForDelete, Phases
  <2>5. CASE StartRebuild
    BY <2>5 DEF StartRebuild, Phases
  <2>6. CASE OpenTable
    BY <2>6 DEF OpenTable, Phases, FlushPhases
  <2>7. CASE CreateIndexes
    BY <2>7 DEF CreateIndexes, Phases, FlushPhases
  <2>8. CASE AddRows
    <3>1. \A c \in batch : RowFor(c) \in Row
      BY DEF RowFor, Row, Chunk
    <3>2. QED
      BY <2>8, <3>1 DEF AddRows, Phases, FlushPhases
  <2>9. CASE MarkFlushed
    BY <2>9 DEF MarkFlushed, Phases, FlushPhases
  <2>10. CASE DrainNext
    BY <2>10, ReadBatchFacts DEF DrainNext, Phases, FlushPhases
  <2>11. CASE DeleteIndexRows
    BY <2>11 DEF DeleteIndexRows, Phases
  <2>12. CASE DeleteTruth
    BY <2>12 DEF DeleteTruth, Phases
  <2>13. CASE DropTable
    BY <2>13 DEF DropTable, Phases, RecordsIn, Row
  <2>14. CASE ResetFlushState
    BY <2>14 DEF ResetFlushState, Phases, FlushPhases, Pending
  <2>15. CASE Interrupt
    <3>1. BatchRecords \subseteq Records
      BY DEF BatchRecords, Chunk
    <3>2. interrupts + 1 \in 0..MaxInterrupts
      BY <2>15, BoundsAssumption DEF Interrupt
    <3>3. QED
      BY <2>15, <3>1, <3>2 DEF Interrupt, Phases
  <2>16. CASE UNCHANGED vars
    BY <2>16 DEF vars
  <2>17. QED
    BY <2>1, <2>2, <2>3, <2>4, <2>5, <2>6, <2>7, <2>8, <2>9, <2>10, <2>11, <2>12,
       <2>13, <2>14, <2>15, <2>16 DEF Next, OwnerStep, FlushStep, DeleteStep
<1>3. QED
  BY <1>1, <1>2, PTL DEF Spec

-----------------------------------------------------------------------------
\* Each step keeps the rows within the truth.
LEMMA OrphanInvStep == OrphanInv /\ TypeOK' /\ [Next]_vars => OrphanInv'
<1> SUFFICES ASSUME OrphanInv, TypeOK', [Next]_vars PROVE OrphanInv'
  OBVIOUS
<1> USE DEF OrphanInv, NoOrphanRows, BatchIsCurrent, BatchHasPhase, DeletionOrder,
            RecordsIn, truthVars, indexVars, opVars, auxVars
<1>1. ASSUME NEW r \in Records, InsertCapture(r) PROVE OrphanInv'
  BY <1>1 DEF InsertCapture
<1>2. ASSUME NEW r \in Records, MergeCapture(r) PROVE OrphanInv'
  BY <1>2 DEF MergeCapture
<1>3. ASSUME NEW g \in {"once", "drain"}, StartFlush(g) PROVE OrphanInv'
  BY <1>3, ReadBatchFacts DEF StartFlush
<1>4. ASSUME NEW s \in Scopes, StartDelete(s) PROVE OrphanInv'
  BY <1>4 DEF StartDelete
<1>5. CASE StartRebuild
  BY <1>5 DEF StartRebuild
<1>6. CASE OpenTable
  BY <1>6 DEF OpenTable
<1>7. CASE CreateIndexes
  BY <1>7 DEF CreateIndexes
<1>8. CASE AddRows
  <2>0. rows' = rows \cup {RowFor(c) : c \in batch}
    BY <1>8 DEF AddRows
  <2>1. \A w \in rows' : w \in rows \/ \E c \in batch : w.record = c.record
    <3>1. \A c \in batch : RowFor(c).record = c.record
      BY DEF RowFor
    <3>2. \A w \in rows' : w \in rows \/ \E c \in batch : w = RowFor(c)
      BY ONLY <2>0
    <3>3. QED
      BY ONLY <3>1, <3>2
  <2>2. \A w \in rows' : w.record \in live
    BY <2>1
  <2>3. UNCHANGED <<live, text, flushedAt, batch>> /\ phase' = "mark"
    BY <1>8 DEF AddRows
  <2>4. QED
    BY <2>2, <2>3
<1>9. CASE MarkFlushed
  BY <1>9 DEF MarkFlushed
<1>10. CASE DrainNext
  BY <1>10, ReadBatchFacts DEF DrainNext
<1>11. CASE DeleteIndexRows
  BY <1>11 DEF DeleteIndexRows
<1>12. CASE DeleteTruth
  BY <1>12 DEF DeleteTruth
<1>13. CASE DropTable
  BY <1>13 DEF DropTable
<1>14. CASE ResetFlushState
  BY <1>14 DEF ResetFlushState
<1>15. CASE Interrupt
  BY <1>15 DEF Interrupt
<1>16. CASE UNCHANGED vars
  BY <1>16 DEF vars
<1>17. QED
  BY <1>1, <1>2, <1>3, <1>4, <1>5, <1>6, <1>7, <1>8, <1>9, <1>10, <1>11, <1>12,
     <1>13, <1>14, <1>15, <1>16 DEF Next, OwnerStep, FlushStep, DeleteStep

\* From an empty vault, OrphanInv holds for ever.
LEMMA OrphanInvAlways == Spec => []OrphanInv
<1>1. Init => OrphanInv
  <2>1. Init => TypeOK
    BY TypeCorrectInit
  <2>2. QED
    BY <2>1 DEF Init, OrphanInv, NoOrphanRows, BatchIsCurrent, BatchHasPhase,
       DeletionOrder, RecordsIn
<1>2. OrphanInv /\ TypeOK' /\ [Next]_vars => OrphanInv'
  BY OrphanInvStep
<1>3. QED
  BY <1>1, <1>2, TypeCorrect, PTL DEF Spec

\* No row outlives its record: the index is emptied of the targets before
\* SQLite forgets them, and a flush publishes live records only.
THEOREM NoOrphanRowsAlways == Spec => []NoOrphanRows
<1>1. OrphanInv => NoOrphanRows
  BY DEF OrphanInv
<1>2. QED
  BY <1>1, OrphanInvAlways, PTL

-----------------------------------------------------------------------------
\* What the stamp means, the duplicates, and the state a rebuild works on: each
\* step keeps IndexInv, provided the clock runs.
LEMMA IndexInvStep ==
    ASSUME ClockRuns, IndexInv, OrphanInv', TypeOK', [Next]_vars
    PROVE  IndexInv'
<1> USE DEF IndexInv, FlushedIsIndexed, SingleCurrentRow, CommittedBeforeStamp,
            PendingHasNoRow, RebuildIsClean, truthVars, indexVars, opVars, auxVars
<1>a. OrphanInv
  OBVIOUS
<1>b. \A w \in rows : w.record \in live
  BY <1>a DEF OrphanInv, NoOrphanRows, RecordsIn
<1>1. ASSUME NEW r \in Records, InsertCapture(r) PROVE IndexInv'
  BY <1>1, <1>a, <1>b DEF InsertCapture, OrphanInv, TypeOK
<1>2. ASSUME NEW r \in Records, MergeCapture(r) PROVE IndexInv'
  <2>1. flushedAt[r] = Pending /\ phase = "idle" /\ r \in live
    BY <1>2 DEF MergeCapture, ContinuityCandidates, PendingChunks
  <2>2. \A w \in rows : w.record \notin unstamped => w.record # r
    BY <2>1
  <2>3. \A s \in Records : s # r => text'[s] = text[s]
    BY <1>2, <1>a DEF MergeCapture, OrphanInv, TypeOK
  <2>4. \A w \in rows : w.record \in Records
    BY <1>a DEF OrphanInv, TypeOK, Row
  <2>5. UNCHANGED <<live, flushedAt, indexVars, opVars, auxVars>>
    BY <1>2 DEF MergeCapture
  <2>6. FlushedIsIndexed'
    BY <2>1, <2>3, <2>5, <1>a DEF OrphanInv, TypeOK
  <2>7. SingleCurrentRow'
    BY <2>2, <2>3, <2>4, <2>5
  <2>8. CommittedBeforeStamp' /\ PendingHasNoRow' /\ RebuildIsClean'
    BY <2>1, <2>5 DEF BatchRecords
  <2>9. QED
    BY <2>6, <2>7, <2>8
<1>3. ASSUME NEW g \in {"once", "drain"}, StartFlush(g) PROVE IndexInv'
  BY <1>3, <1>a, ReadBatchFacts DEF StartFlush, OrphanInv
<1>4. ASSUME NEW s \in Scopes, StartDelete(s) PROVE IndexInv'
  BY <1>4 DEF StartDelete, FlushPhases, BatchRecords
<1>5. CASE StartRebuild
  BY <1>5 DEF StartRebuild, FlushPhases, BatchRecords
<1>6. CASE OpenTable
  BY <1>6 DEF OpenTable, FlushPhases, BatchRecords
<1>7. CASE CreateIndexes
  BY <1>7 DEF CreateIndexes, FlushPhases, BatchRecords
<1>8. CASE AddRows
  <2> DEFINE First(c) == [record |-> c.record, text |-> c.text, copy |-> 1]
  <2>1. phase = "add" /\ phase' = "mark"
        /\ rows' = rows \cup {RowFor(c) : c \in batch}
        /\ UNCHANGED <<truthVars, table, goal, batch, auxVars>>
    BY <1>8 DEF AddRows
  <2>2. \A c \in batch : First(c) \in rows'
    BY <2>1 DEF RowFor
  <2>3. \A w \in rows' : w \in rows \/ \E c \in batch :
            /\ w.record = c.record /\ w.text = c.text
            /\ w.copy = 1 \/ First(c) \in rows
    BY <2>1 DEF RowFor
  <2>4. \A c \in batch : First(c) \in rows => c.record \in unstamped
    <3> SUFFICES ASSUME NEW c \in batch, First(c) \in rows
                 PROVE c.record \in unstamped
      OBVIOUS
    <3>1. First(c).record = c.record /\ flushedAt[c.record] = Pending
      BY <1>a DEF OrphanInv, BatchIsCurrent
    <3> HIDE DEF First
    <3>2. QED
      BY <2>1, <3>1
  <2>5. \A c \in batch : c.text = text[c.record]
    BY <1>a DEF OrphanInv, BatchIsCurrent
  <2> HIDE DEF First
  <2>6. SingleCurrentRow'
    BY <2>1, <2>3, <2>4, <2>5
  <2>7. CommittedBeforeStamp'
    BY <2>1, <2>2 DEF First
  <2>8. PendingHasNoRow'
    BY <2>1, <2>3 DEF BatchRecords
  <2>9. FlushedIsIndexed' /\ RebuildIsClean'
    BY <2>1 DEF FlushPhases
  <2>10. QED
    BY <2>6, <2>7, <2>8, <2>9
<1>9. CASE MarkFlushed
  <2>1. PICK s \in FlushStamps :
          flushedAt' = [r \in Records |->
                          IF r \in BatchRecords \cap live THEN s ELSE flushedAt[r]]
    BY <1>9 DEF MarkFlushed
  <2>2. s # Pending
    BY DEF ClockRuns
  <2>3. phase = "mark" /\ phase' \in {"idle", "next"} /\ torn' = torn \ BatchRecords
        /\ batch' = {} /\ UNCHANGED <<live, text, rows, goal, unstamped>>
    BY <1>9 DEF MarkFlushed
  <2>4. \A r \in BatchRecords :
          r \in live /\ [record |-> r, text |-> text[r], copy |-> 1] \in rows
    <3> SUFFICES ASSUME NEW c \in batch
                 PROVE c.record \in live
                       /\ [record |-> c.record, text |-> text[c.record], copy |-> 1] \in rows
      BY DEF BatchRecords
    <3>1. QED
      BY <2>3, <1>a DEF OrphanInv, BatchIsCurrent
  <2>5. \A r \in Records : flushedAt'[r] = IF r \in BatchRecords THEN s ELSE flushedAt[r]
    BY <2>1, <2>4
  <2>6. live \subseteq Records /\ \A w \in rows : w.record \in Records
    BY <1>a DEF OrphanInv, TypeOK, Row
  <2>7. FlushedIsIndexed'
    BY <2>3, <2>4, <2>5, <2>6
  <2>8. PendingHasNoRow'
    BY <2>2, <2>3, <2>5, <2>6
  <2>9. SingleCurrentRow' /\ CommittedBeforeStamp'
    BY <2>3
  <2>10. RebuildIsClean'
    BY <2>3 DEF FlushPhases
  <2>11. QED
    BY <2>7, <2>8, <2>9, <2>10
<1>10. CASE DrainNext
  <2>1. phase = "next" /\ UNCHANGED <<truthVars, indexVars, goal, auxVars>>
        /\ phase' \in {"open", "idle"}
    BY <1>10, <1>a, ReadBatchFacts DEF DrainNext, OrphanInv
  <2>2. QED
    BY <2>1 DEF FlushPhases
<1>11. CASE DeleteIndexRows
  <2>1. phase = "delIndex" /\ phase' = "delTruth"
        /\ rows' = {w \in rows : w.record \notin targets}
        /\ torn' = torn \cup (targets \cap RecordsIn(rows))
        /\ UNCHANGED <<truthVars, goal, batch, unstamped>>
    BY <1>11 DEF DeleteIndexRows
  <2>2. ASSUME NEW r \in live, flushedAt[r] # Pending, r \notin torn'
        PROVE  [record |-> r, text |-> text[r], copy |-> 1] \in rows'
    BY <2>1, <2>2 DEF RecordsIn
  <2>3. FlushedIsIndexed'
    BY <2>1, <2>2
  <2>4. QED
    BY <2>1, <2>3 DEF FlushPhases
<1>12. CASE DeleteTruth
  <2>1. phase = "delTruth" /\ phase' = "idle" /\ live' = live \ targets
        /\ torn' = torn \ targets /\ unstamped' = unstamped \ targets
        /\ UNCHANGED <<text, flushedAt, rows, goal, batch>>
    BY <1>12 DEF DeleteTruth
  <2>2. \A w \in rows : w.record \notin targets
    BY <2>1, <1>a DEF OrphanInv, DeletionOrder
  <2>3. QED
    BY <2>1, <2>2 DEF FlushPhases
<1>13. CASE DropTable
  <2>1. phase = "drop" /\ phase' = "reset" /\ rows' = {}
        /\ torn' = torn \cup RecordsIn(rows) /\ unstamped' = {}
        /\ UNCHANGED <<truthVars, goal, batch>>
    BY <1>13 DEF DropTable
  <2>2. ASSUME NEW r \in live, flushedAt[r] # Pending, r \notin torn'
        PROVE  FALSE
    <3>1. [record |-> r, text |-> text[r], copy |-> 1] \in rows
      BY <2>1, <2>2
    <3>2. r \in RecordsIn(rows)
      BY <3>1 DEF RecordsIn
    <3>3. QED
      BY <2>1, <2>2, <3>2
  <2>3. FlushedIsIndexed'
    BY <2>1, <2>2
  <2>4. QED
    BY <2>1, <2>3 DEF FlushPhases
<1>14. CASE ResetFlushState
  <2>1. phase = "reset" /\ phase' = "next" /\ torn' = {}
        /\ flushedAt' = [r \in Records |-> Pending]
        /\ UNCHANGED <<live, text, rows, goal, batch, unstamped>>
    BY <1>14 DEF ResetFlushState
  <2>2. live \subseteq Records
    BY <1>a DEF OrphanInv, TypeOK
  <2>3. QED
    BY <2>1, <2>2 DEF FlushPhases
<1>15. CASE Interrupt
  <2>1. phase' = "idle" /\ goal' = "once" /\ batch' = {}
        /\ UNCHANGED <<truthVars, indexVars, torn>>
    BY <1>15 DEF Interrupt
  <2>2. unstamped \subseteq unstamped'
        /\ (phase = "mark" => unstamped' = unstamped \cup BatchRecords)
    BY <1>15 DEF Interrupt
  <2>3. PendingHasNoRow'
    BY <2>1, <2>2
  <2>4. QED
    BY <2>1, <2>2, <2>3 DEF FlushPhases
<1>16. CASE UNCHANGED vars
  BY <1>16 DEF vars, BatchRecords
<1>17. QED
  BY <1>1, <1>2, <1>3, <1>4, <1>5, <1>6, <1>7, <1>8, <1>9, <1>10, <1>11, <1>12,
     <1>13, <1>14, <1>15, <1>16 DEF Next, OwnerStep, FlushStep, DeleteStep

\* From an empty vault, IndexInv holds for ever.
LEMMA IndexInvAlways ==
    ASSUME ClockRuns PROVE Spec => [](IndexInv /\ TypeOK)
<1>1. Init => IndexInv
  <2>1. Init => TypeOK
    BY TypeCorrectInit
  <2>2. QED
    BY <2>1 DEF Init, IndexInv, OrphanInv, NoOrphanRows, BatchIsCurrent, BatchHasPhase,
       DeletionOrder, RecordsIn, FlushedIsIndexed, SingleCurrentRow,
       CommittedBeforeStamp, PendingHasNoRow, RebuildIsClean, FlushPhases
<1>2. IndexInv /\ TypeOK' /\ [Next]_vars => IndexInv'
  <2> SUFFICES ASSUME IndexInv, TypeOK', [Next]_vars PROVE IndexInv'
    OBVIOUS
  <2>1. OrphanInv'
    BY OrphanInvStep DEF IndexInv
  <2>2. QED
    BY <2>1, IndexInvStep
<1>3. QED
  BY <1>1, <1>2, TypeCorrect, PTL DEF Spec

\* A stamp never lies: a stamped chunk is in the index with its current text,
\* except where an interrupted deletion or rebuild already removed its rows.
THEOREM StampImpliesIndexed ==
    ASSUME ClockRuns PROVE Spec => []FlushedIsIndexed
<1>1. IndexInv => FlushedIsIndexed
  BY DEF IndexInv
<1>2. QED
  BY <1>1, IndexInvAlways, PTL

\* Duplicates and stale rows can only come from a flush cut between the Lance
\* commit and the stamp.
THEOREM DuplicatesOnlyFromCutFlush ==
    ASSUME ClockRuns PROVE Spec => []SingleCurrentRow
<1>1. IndexInv => SingleCurrentRow
  BY DEF IndexInv
<1>2. QED
  BY <1>1, IndexInvAlways, PTL

\* A rebuild that runs to its end leaves exactly one current row per chunk,
\* whatever crash-window duplicates it started from.
THEOREM RebuildReachesTruth ==
    ASSUME ClockRuns PROVE Spec => RebuildConverges
<1> DEFINE Ends == phase = "next" /\ goal = "rebuild" /\ phase' = "idle"
                   /\ interrupts' = interrupts
           Exact == rows' = {[record |-> r, text |-> text[r], copy |-> 1] : r \in live}
<1>1. IndexInv /\ TypeOK /\ [Next]_vars => (Ends => Exact)
  <2> SUFFICES ASSUME IndexInv, TypeOK, [Next]_vars, Ends PROVE Exact
    OBVIOUS
  <2>1. DrainNext
    BY BoundsAssumption DEF Next, OwnerStep, FlushStep, DeleteStep, InsertCapture, MergeCapture,
       StartFlush, StartDelete, StartRebuild, OpenTable, CreateIndexes, AddRows,
       MarkFlushed, DeleteIndexRows, DeleteTruth, DropTable, ResetFlushState,
       Interrupt, vars, opVars, TypeOK
  <2>2. PendingChunks = {} /\ rows' = rows
    BY <2>1, ReadBatchFacts DEF DrainNext, indexVars
  <2>3. torn = {} /\ unstamped = {}
    BY DEF IndexInv, RebuildIsClean, FlushPhases
  <2>4. \A r \in live : [record |-> r, text |-> text[r], copy |-> 1] \in rows
    BY <2>2, <2>3 DEF IndexInv, FlushedIsIndexed, PendingChunks
  <2>5. \A w \in rows : w.record \in live /\ w.text = text[w.record] /\ w.copy = 1
    BY <2>3 DEF IndexInv, OrphanInv, NoOrphanRows, RecordsIn, SingleCurrentRow
  <2>6. \A w \in rows : w = [record |-> w.record, text |-> w.text, copy |-> w.copy]
    BY DEF TypeOK, Row
  <2>7. QED
    BY <2>2, <2>4, <2>5, <2>6
<1>2. QED
  BY <1>1, IndexInvAlways, PTL DEF Spec, RebuildConverges

-----------------------------------------------------------------------------
\* A row shows no evidence that its record's text does not have.
RowsWithinTexts == \A w \in rows : w.text \subseteq text[w.record]

PromiseInv == OrphanInv /\ RowsWithinTexts

\* Texts only grow while a record lives, and a record that is stored anew has no rows.
LEMMA RowsWithinTextsStep ==
    ASSUME PromiseInv, [Next]_vars PROVE RowsWithinTexts'
<1> USE DEF RowsWithinTexts, truthVars, indexVars, opVars, auxVars
<1>a. /\ OrphanInv /\ TypeOK /\ RowsWithinTexts
      /\ \A w \in rows : w.record \in live /\ w.record \in Records
  BY DEF PromiseInv, OrphanInv, NoOrphanRows, RecordsIn, TypeOK, Row
<1>b. text \in [Records -> Texts]
  BY <1>a DEF TypeOK
<1> DEFINE Fewer == (\A w \in rows' : w \in rows) /\ text' = text
<1>f. Fewer => RowsWithinTexts'
  BY <1>a
<1>1. ASSUME NEW r \in Records, InsertCapture(r) PROVE RowsWithinTexts'
  <2>1. r \notin live /\ rows' = rows /\ text' = [text EXCEPT ![r] = {clock}]
    BY <1>1 DEF InsertCapture
  <2>2. QED
    BY <1>a, <1>b, <2>1
<1>2. ASSUME NEW r \in Records, MergeCapture(r) PROVE RowsWithinTexts'
  <2>1. PICK merged \in {text[r], text[r] \cup {clock}} :
          text' = [text EXCEPT ![r] = merged]
    BY <1>2 DEF MergeCapture
  <2>2. rows' = rows /\ text[r] \subseteq merged
    BY <1>2, <2>1 DEF MergeCapture
  <2>3. QED
    BY <1>a, <1>b, <2>1, <2>2
<1>3. ASSUME NEW g \in {"once", "drain"}, StartFlush(g) PROVE Fewer
  BY <1>3 DEF StartFlush
<1>4. ASSUME NEW s \in Scopes, StartDelete(s) PROVE Fewer
  BY <1>4 DEF StartDelete
<1>5. CASE StartRebuild
  BY <1>5, <1>f DEF StartRebuild
<1>6. CASE OpenTable
  BY <1>6, <1>f DEF OpenTable
<1>7. CASE CreateIndexes
  BY <1>7, <1>f DEF CreateIndexes
<1>8. CASE AddRows
  <2>1. rows' = rows \cup {RowFor(c) : c \in batch} /\ text' = text
    BY <1>8 DEF AddRows
  <2>2. \A c \in batch : RowFor(c).record = c.record /\ RowFor(c).text = text[c.record]
    BY <1>a DEF RowFor, OrphanInv, BatchIsCurrent
  <2>3. QED
    BY <1>a, <2>1, <2>2
<1>9. CASE MarkFlushed
  BY <1>9, <1>f DEF MarkFlushed
<1>10. CASE DrainNext
  BY <1>10, <1>f DEF DrainNext
<1>11. CASE DeleteIndexRows
  BY <1>11, <1>f DEF DeleteIndexRows
<1>12. CASE DeleteTruth
  BY <1>12, <1>f DEF DeleteTruth
<1>13. CASE DropTable
  BY <1>13, <1>f DEF DropTable
<1>14. CASE ResetFlushState
  BY <1>14, <1>f DEF ResetFlushState
<1>15. CASE Interrupt
  BY <1>15, <1>f DEF Interrupt
<1>16. CASE UNCHANGED vars
  BY <1>16, <1>f DEF vars
<1> HIDE DEF Fewer
<1>17. QED
  BY <1>f, <1>1, <1>2, <1>3, <1>4, <1>5, <1>6, <1>7, <1>8, <1>9, <1>10, <1>11, <1>12,
     <1>13, <1>14, <1>15, <1>16 DEF Next, OwnerStep, FlushStep, DeleteStep

\* So the index shows what SQLite holds, and no more.
LEMMA IndexedIsStored == PromiseInv => IndexedEvidence \subseteq StoredEvidence
  BY DEF PromiseInv, OrphanInv, NoOrphanRows, RecordsIn, RowsWithinTexts,
     IndexedEvidence, StoredEvidence

\* Stored evidence and rows are of captures the model makes.
LEMMA EvidenceIsOfMoments ==
    TypeOK => IndexedEvidence \subseteq Moments /\ StoredEvidence \subseteq Moments
  BY DEF TypeOK, Row, Texts, IndexedEvidence, StoredEvidence

\* Each step of the two stores is a step of the promise: where the rows stay, a revision
\* of the truth; where SQLite stays, a publication or a retraction.
LEMMA PromiseStep ==
    ASSUME PromiseInv, PromiseInv', [Next]_vars
    PROVE  [Promise!Next]_(Promise!vars)
<1> USE DEF truthVars, indexVars, opVars, auxVars
<1>i. /\ IndexedEvidence \subseteq StoredEvidence
      /\ IndexedEvidence \subseteq Moments /\ StoredEvidence \subseteq Moments
  BY IndexedIsStored, EvidenceIsOfMoments DEF PromiseInv, OrphanInv
<1>p. /\ IndexedEvidence' \subseteq StoredEvidence'
      /\ IndexedEvidence' \subseteq Moments /\ StoredEvidence' \subseteq Moments
  <2>1. (PromiseInv => IndexedEvidence \subseteq StoredEvidence)'
    BY IndexedIsStored, PTL
  <2>2. (TypeOK => IndexedEvidence \subseteq Moments /\ StoredEvidence \subseteq Moments)'
    BY EvidenceIsOfMoments, PTL
  <2>3. QED
    BY <2>1, <2>2 DEF PromiseInv, OrphanInv
<1>r. ASSUME rows' = rows PROVE Promise!Next
  <2>1. IndexedEvidence' = IndexedEvidence
    BY <1>r DEF IndexedEvidence
  <2> DEFINE lost == StoredEvidence \ StoredEvidence'
  <2>2. /\ lost \cap IndexedEvidence = {}
        /\ StoredEvidence' = (StoredEvidence \ lost) \cup StoredEvidence'
    BY <1>p, <2>1
  <2>3. Promise!Revise(lost, StoredEvidence')
    BY <2>1, <2>2 DEF Promise!Revise
  <2>4. lost \in SUBSET Moments /\ StoredEvidence' \in SUBSET Moments
    BY <1>i, <1>p
  <2> HIDE DEF lost
  <2>5. QED
    BY <2>3, <2>4 DEF Promise!Next
<1>t. ASSUME UNCHANGED <<live, text>>, rows \subseteq rows' \/ rows' \subseteq rows
      PROVE  Promise!Next
  <2>1. StoredEvidence' = StoredEvidence
    BY <1>t DEF StoredEvidence
  <2>2. CASE rows \subseteq rows'
    <3>1. IndexedEvidence' = IndexedEvidence \cup IndexedEvidence'
      BY <2>2 DEF IndexedEvidence
    <3>2. Promise!Publish(IndexedEvidence')
      BY <1>p, <2>1, <3>1 DEF Promise!Publish
    <3>3. IndexedEvidence' \in SUBSET Moments
      BY <1>p
    <3>4. QED
      BY <3>2, <3>3 DEF Promise!Next
  <2>3. CASE rows' \subseteq rows
    <3> DEFINE gone == IndexedEvidence \ IndexedEvidence'
    <3>1. IndexedEvidence' \subseteq IndexedEvidence
      BY <2>3 DEF IndexedEvidence
    <3>2. IndexedEvidence' = IndexedEvidence \ gone
      BY <3>1
    <3>3. Promise!Retract(gone)
      BY <2>1, <3>2 DEF Promise!Retract
    <3>4. gone \in SUBSET Moments
      BY <1>i
    <3> HIDE DEF gone
    <3>5. QED
      BY <3>3, <3>4 DEF Promise!Next
  <2>4. QED
    BY <1>t, <2>2, <2>3
<1>1. ASSUME NEW r \in Records, InsertCapture(r) PROVE rows' = rows
  BY <1>1 DEF InsertCapture
<1>2. ASSUME NEW r \in Records, MergeCapture(r) PROVE rows' = rows
  BY <1>2 DEF MergeCapture
<1>3. ASSUME NEW g \in {"once", "drain"}, StartFlush(g) PROVE rows' = rows
  BY <1>3 DEF StartFlush
<1>4. ASSUME NEW s \in Scopes, StartDelete(s) PROVE rows' = rows
  BY <1>4 DEF StartDelete
<1>5. CASE StartRebuild
  BY <1>5, <1>r DEF StartRebuild
<1>6. CASE OpenTable
  BY <1>6, <1>r DEF OpenTable
<1>7. CASE CreateIndexes
  BY <1>7, <1>r DEF CreateIndexes
<1>8. CASE AddRows
  BY <1>8, <1>t DEF AddRows
<1>9. CASE MarkFlushed
  BY <1>9, <1>r DEF MarkFlushed
<1>10. CASE DrainNext
  BY <1>10, <1>r DEF DrainNext
<1>11. CASE DeleteIndexRows
  <2>1. UNCHANGED <<live, text>> /\ rows' \subseteq rows
    BY <1>11 DEF DeleteIndexRows
  <2>2. QED
    BY <2>1, <1>t
<1>12. CASE DeleteTruth
  BY <1>12, <1>r DEF DeleteTruth
<1>13. CASE DropTable
  <2>1. UNCHANGED <<live, text>> /\ rows' \subseteq rows
    BY <1>13 DEF DropTable
  <2>2. QED
    BY <2>1, <1>t
<1>14. CASE ResetFlushState
  BY <1>14, <1>r DEF ResetFlushState
<1>15. CASE Interrupt
  BY <1>15, <1>r DEF Interrupt
<1>16. CASE UNCHANGED vars
  BY <1>16, <1>r DEF vars
<1>17. QED
  BY <1>r, <1>1, <1>2, <1>3, <1>4, <1>5, <1>6, <1>7, <1>8, <1>9, <1>10, <1>11, <1>12,
     <1>13, <1>14, <1>15, <1>16 DEF Next, OwnerStep, FlushStep, DeleteStep

\* The two stores keep the promise of the derived index, for every piece of evidence:
\* what SQLite forgets, by a merge or a deletion, after whatever interruption, no row
\* shows any more, and no row shows what SQLite does not hold.
THEOREM StoresKeepPromise == Spec => ImplementsPromise
<1>1. Init => Promise!Init
  BY DEF Init, Promise!Init, IndexedEvidence, StoredEvidence
<1>2. Init => RowsWithinTexts
  BY DEF Init, RowsWithinTexts
<1>3. OrphanInv /\ RowsWithinTexts /\ [Next]_vars => RowsWithinTexts'
  BY RowsWithinTextsStep DEF PromiseInv
<1>4. OrphanInv /\ RowsWithinTexts /\ OrphanInv' /\ RowsWithinTexts' /\ [Next]_vars
          => [Promise!Next]_(Promise!vars)
  BY PromiseStep DEF PromiseInv
<1>5. QED
  BY <1>1, <1>2, <1>3, <1>4, OrphanInvAlways, PTL DEF Spec, ImplementsPromise, Promise!Spec

-----------------------------------------------------------------------------
(* Deletion by site.  A merge moves a record to another moment, and a cut     *)
(* flush leaves rows that no longer say what their record says: neither takes *)
(* evidence out of the site its record is found by.                           *)

OfItsSite ==
    /\ \A r \in live : /\ capturedAt[r] \in Moments
                       /\ \A m \in text[r] : SiteOf[m] = SiteOf[capturedAt[r]]
    /\ \A w \in rows : \A m \in w.text : SiteOf[m] = SiteOf[capturedAt[w.record]]

TargetsOfScope ==
    phase \in {"delIndex", "delTruth"} =>
        scope \in Scopes /\ targets = RecordIdsForDelete(scope)

SiteInv == OfItsSite /\ TargetsOfScope

\* Each step keeps every text on the site of its record.
LEMMA SiteInvStep == OrphanInv /\ SiteInv /\ [Next]_vars => SiteInv'
<1> SUFFICES ASSUME OrphanInv, SiteInv, [Next]_vars PROVE SiteInv'
  OBVIOUS
<1> USE DEF SiteInv, OfItsSite, TargetsOfScope, RecordIdsForDelete, InScope,
            truthVars, indexVars, opVars, auxVars
<1>t. /\ live \subseteq Records /\ \A w \in rows : w.record \in live
      /\ text \in [Records -> Texts] /\ capturedAt \in [Records -> 0..MaxClock]
  BY DEF OrphanInv, NoOrphanRows, RecordsIn, TypeOK
<1>1. ASSUME NEW r \in Records, InsertCapture(r) PROVE SiteInv'
  <2>1. /\ r \notin live /\ clock \in Moments /\ live' = live \cup {r} /\ rows' = rows
        /\ text'[r] = {clock} /\ capturedAt'[r] = clock /\ phase' = "idle"
        /\ \A s \in live : text'[s] = text[s] /\ capturedAt'[s] = capturedAt[s]
    BY <1>1, <1>t DEF InsertCapture
  <2> QED
    BY <2>1, <1>t
<1>2. ASSUME NEW r \in Records, MergeCapture(r) PROVE SiteInv'
  <2>1. /\ r \in live /\ clock \in Moments /\ live' = live /\ rows' = rows
        /\ text'[r] \subseteq text[r] \cup {clock} /\ capturedAt'[r] = clock /\ phase' = "idle"
        /\ SiteOf[clock] = SiteOf[capturedAt[r]]
        /\ \A s \in live \ {r} : text'[s] = text[s] /\ capturedAt'[s] = capturedAt[s]
    BY <1>2, <1>t DEF MergeCapture, ContinuityCandidates, PendingChunks
  <2>2. \A s \in live : SiteOf[capturedAt'[s]] = SiteOf[capturedAt[s]]
    BY <2>1
  <2> QED
    BY <2>1, <2>2, <1>t
<1>3. ASSUME NEW g \in {"once", "drain"}, StartFlush(g) PROVE SiteInv'
  BY <1>3 DEF StartFlush, ReadBatch
<1>4. ASSUME NEW s \in Scopes, StartDelete(s) PROVE SiteInv'
  BY <1>4 DEF StartDelete
<1>5. CASE StartRebuild
  BY <1>5 DEF StartRebuild
<1>6. CASE OpenTable
  BY <1>6 DEF OpenTable
<1>7. CASE CreateIndexes
  BY <1>7 DEF CreateIndexes
<1>8. CASE AddRows
  <2>1. /\ rows' = rows \cup {RowFor(c) : c \in batch} /\ phase' = "mark"
        /\ UNCHANGED <<live, text, capturedAt>>
    BY <1>8 DEF AddRows
  <2>2. \A c \in batch : /\ RowFor(c).record = c.record /\ RowFor(c).text = c.text
                         /\ c.record \in live /\ c.text = text[c.record]
    BY DEF RowFor, OrphanInv, BatchIsCurrent
  <2>3. \A c \in batch : \A m \in RowFor(c).text :
            SiteOf[m] = SiteOf[capturedAt[RowFor(c).record]]
    BY <2>2
  <2> QED
    BY <2>1, <2>3
<1>9. CASE MarkFlushed
  BY <1>9 DEF MarkFlushed
<1>10. CASE DrainNext
  BY <1>10 DEF DrainNext, ReadBatch
<1>11. CASE DeleteIndexRows
  BY <1>11 DEF DeleteIndexRows
<1>12. CASE DeleteTruth
  BY <1>12 DEF DeleteTruth
<1>13. CASE DropTable
  BY <1>13 DEF DropTable
<1>14. CASE ResetFlushState
  BY <1>14 DEF ResetFlushState
<1>15. CASE Interrupt
  BY <1>15 DEF Interrupt
<1>16. CASE UNCHANGED vars
  BY <1>16 DEF vars
<1> QED
  BY <1>1, <1>2, <1>3, <1>4, <1>5, <1>6, <1>7, <1>8, <1>9, <1>10, <1>11, <1>12,
     <1>13, <1>14, <1>15, <1>16 DEF Next, OwnerStep, FlushStep, DeleteStep

\* A completed deletion by site, or of everything, leaves no evidence of its scope:
\* not in a record that merges have moved, and not in a row of a cut flush.
THEOREM SiteDeletionErasesAlways == Spec => SiteDeletionErases
<1> DEFINE Erases == DeleteTruth /\ scope.kind \in {"site", "all"}
                       => \A m \in MomentsOf(scope) : Erased(m)'
<1>1. OrphanInv /\ SiteInv /\ [Next]_vars => [Erases]_vars
  <2> SUFFICES ASSUME OrphanInv, SiteInv, DeleteTruth, scope.kind \in {"site", "all"},
                      NEW m \in MomentsOf(scope)
               PROVE  Erased(m)'
    OBVIOUS
  <2>1. /\ phase = "delTruth" /\ live' = live \ targets /\ UNCHANGED <<text, rows>>
    BY DEF DeleteTruth, indexVars
  <2>2. /\ targets = {r \in live : InScope(r, scope)}
        /\ \A w \in rows : w.record \in live /\ w.record \notin targets
    BY <2>1 DEF SiteInv, TargetsOfScope, RecordIdsForDelete, OrphanInv, NoOrphanRows,
       DeletionOrder, RecordsIn
  <2>3. CASE scope.kind = "all"
    BY <2>1, <2>2, <2>3 DEF InScope, Erased
  <2>4. CASE scope.kind = "site"
    <3>1. SiteOf[m] = scope.site
      BY <2>4 DEF MomentsOf
    <3>2. \A r \in live \ targets : SiteOf[capturedAt[r]] # scope.site
      BY <2>2, <2>4 DEF InScope
    <3> QED
      BY <2>1, <2>2, <3>1, <3>2 DEF Erased, SiteInv, OfItsSite
  <2> QED
    BY <2>3, <2>4
<1>2. Init => SiteInv
  BY DEF Init, SiteInv, OfItsSite, TargetsOfScope
<1> HIDE DEF Erases
<1>3. Spec => [][Erases]_vars
  BY <1>1, <1>2, SiteInvStep, OrphanInvAlways, PTL DEF Spec
<1> QED
  BY <1>3 DEF SiteDeletionErases, Erases

-----------------------------------------------------------------------------
(* The readers                                                             *)

StagesOf(t) ==
    {"audit", "answer"} \cup
    (CASE t \in {"search", "desktop"}                      -> {"keyword", "vector", "snippets"}
       [] t = "context_pack"                               -> {"keyword", "pack"}
       [] t \in {"source_evidence", "source_evidence_raw"} -> {"row", "chunks"}
       [] t = "active_focus"                               -> {"latest", "row", "chunks"}
       [] t = "timeline"                                   -> {"read"}
       [] t = "remember_decision"                          -> {"write"})

\* A call is at a stage of its tool; it has no hit before it has read, nor refused, and
\* says nothing of the vector route before it has tried it.
AtItsStage(n) ==
    /\ pc[n] \in Stages => pc[n] \in StagesOf(tool[n])
    /\ pc[n] \in {"new", "keyword", "vector"} => route[n] = "off"
    /\ pc[n] \in {"new", "keyword", "latest", "row", "read", "write", "refused"} => found[n] = {}
    /\ pc[n] \in {"audit", "answer"} /\ outcome[n] = "refused" => found[n] = {}

\* Every hit was held; while the call runs, so is what SQLite has.
HitsWereHeld(n) ==
    /\ pc[n] \in Stages => Truth \subseteq held[n]
    /\ \A h \in found[n] : /\ h.record \in {p.record : p \in held[n]}
                           /\ h.text # {} => [record |-> h.record, text |-> h.text] \in held[n]

\* One hit for each record, and none yet for a record that is to be packed.
HitsDiffer(n) ==
    /\ \A g, h \in found[n] : g.record = h.record => g = h
    /\ pc[n] = "pack" => todo[n] \cap Seen(n) = {}

\* From its vector stage on, a search has seen whatever was indexed throughout.
NothingMissed(n) ==
    /\ pc[n] \in Stages => steady[n] \subseteq Current
    /\ Promises(n) =>
         (pc[n] \in {"snippets", "ok"} \/ (pc[n] \in {"audit", "answer"} /\ outcome[n] = "ok")
              => steady[n] \subseteq Seen(n))

Shape == found \in [Calls -> SUBSET Hit] /\ held \in [Calls -> SUBSET Chunk]

CallInv(n) == AtItsStage(n) /\ HitsWereHeld(n) /\ HitsDiffer(n) /\ LogIsExact(n)

ReadersInv == ReadersTypeOK /\ Shape /\ \A n \in Calls : CallInv(n)

\* Nothing of call m changes.
Untouched(m) ==
    /\ pc'[m] = pc[m] /\ tool'[m] = tool[m] /\ route'[m] = route[m] /\ found'[m] = found[m] /\ todo'[m] = todo[m]
    /\ outcome'[m] = outcome[m] /\ held'[m] = held[m] /\ steady'[m] = steady[m]
    /\ {e \in log' : e.call = m} = {e \in log : e.call = m}

-----------------------------------------------------------------------------
\* The owner's steps are those of VaultIndex, and the readers change none of its state.
LEMMA ReadersRefineVault == ReadersNext => [Next]_vars
<1> SUFFICES ASSUME ReadersNext PROVE [Next]_vars
    OBVIOUS
<1>1. CASE ReaderNext
      BY <1>1 DEF ReaderNext
<1>2. CASE OwnerNext
  <2>1. \A ids \in SUBSET Records : [kind |-> "records", ids |-> ids] \in Scopes
        BY DEF Scopes
  <2> QED BY <1>2, <2>1 DEF OwnerNext, Next
<1> QED BY <1>1, <1>2 DEF ReadersNext

\* So what is proved of VaultIndex holds while it is being read.
LEMMA VaultUnderReaders == ReadersSpec => Spec
<1>1. ReadersInit => Init
      BY DEF ReadersInit
<1>2. [ReadersNext]_<<vars, readerVars>> => [Next]_vars
      BY ReadersRefineVault
<1> QED BY <1>1, <1>2, PTL DEF ReadersSpec, Spec

\* What SQLite has is well typed.
LEMMA TruthTyped ==
  ASSUME TypeOK
  PROVE  /\ Truth \subseteq Chunk
         /\ \A r \in live : r \in Records /\ text[r] \in Texts
                            /\ [record |-> r, text |-> text[r]] \in Truth
         /\ RecordsIn(rows) \subseteq Records
  BY DEF TypeOK, Truth, Chunk, Row, RecordsIn

\* Whoever holds all that SQLite has holds each of its records.
LEMMA LiveIsHeld ==
  ASSUME TypeOK, NEW S, Truth \subseteq S, NEW r \in live
  PROVE  [record |-> r, text |-> text[r]] \in S /\ r \in {p.record : p \in S}
<1>1. [record |-> r, text |-> text[r]] \in S
      BY TruthTyped
<1> QED BY <1>1

\* Keyword hits carry the text SQLite has, one for each record.
LEMMA KeywordHitsAre ==
  ASSUME TypeOK, NEW q
  PROVE  \A h \in KeywordHits(q) :
            /\ h \in Hit /\ h.record \in live /\ h.text = text[h.record]
            /\ h = [record |-> h.record, route |-> "keyword", copy |-> 1, text |-> h.text]
<1>1. \A r \in live : r \in Records /\ text[r] \in Texts
      BY TruthTyped
<1> QED BY <1>1 DEF KeywordHits, Hit

\* Vector hits carry no text yet, and are new, one for each record of the index.
LEMMA VectorHitsAre ==
  ASSUME TypeOK, NEW n, NEW H \in VectorHits(n)
  PROVE  /\ \A h \in H : h \in Hit /\ h.record \in RecordsIn(rows) \ Seen(n) /\ h.text = {}
         /\ \A g, h \in H : g.record = h.record => g = h
         /\ RecordsIn(rows) \ Seen(n) \subseteq {h.record : h \in H}
<1> DEFINE new == RecordsIn(rows) \ Seen(n)
<1>1. PICK pick \in [new -> {1, 2}] :
        H = {[record |-> r, route |-> "vector", copy |-> pick[r], text |-> {}] : r \in new}
      BY DEF VectorHits
<1>2. new \subseteq Records /\ {} \in Texts
      BY TruthTyped DEF Texts
<1> HIDE DEF new
<1>3. \A h \in H : h \in Hit /\ h.record \in new /\ h.text = {}
      BY <1>1, <1>2 DEF Hit
<1>4. ASSUME NEW g \in H, NEW h \in H, g.record = h.record PROVE g = h
  <2>1. PICK r \in new : g = [record |-> r, route |-> "vector", copy |-> pick[r], text |-> {}]
        BY <1>1
  <2>2. PICK s \in new : h = [record |-> s, route |-> "vector", copy |-> pick[s], text |-> {}]
        BY <1>1
  <2>3. r = s
        BY <1>4, <2>1, <2>2
  <2> QED BY <2>1, <2>2, <2>3
<1>5. ASSUME NEW r \in new PROVE r \in {h.record : h \in H}
  <2>1. [record |-> r, route |-> "vector", copy |-> pick[r], text |-> {}] \in H
        BY <1>1
  <2> QED BY <2>1
<1> QED BY <1>3, <1>4, <1>5 DEF new

\* The invariant holds before any call.
LEMMA InitReaders == ReadersInit => ReadersInv
<1> SUFFICES ASSUME ReadersInit PROVE ReadersInv
    OBVIOUS
<1>1. ReadersTypeOK /\ Shape
      BY CallsAssumption DEF ReadersInit, ReadersTypeOK, Shape, Tools, McpTools
<1>2. ASSUME NEW n \in Calls PROVE CallInv(n)
      BY <1>2 DEF ReadersInit, CallInv, AtItsStage, HitsWereHeld, HitsDiffer, LogIsExact,
              Stages, Seen
<1> QED BY <1>1, <1>2 DEF ReadersInv

\* A step of call n leaves every other call untouched.
LEMMA OthersUntouched ==
  ASSUME ReadersTypeOK, Shape, NEW n \in Calls,
         CallStep(n) \/ \E t \in Tools : Call(n, t), NEW m \in Calls \ {n}
  PROVE  Untouched(m)
<1> USE DEF ReadersTypeOK, Shape, Untouched, sinceVars, Goto, Return, Take
<1>1. CASE \E t \in Tools : Call(n, t)
  <2>1. PICK t \in Tools : Call(n, t)
        BY <1>1
  <2> QED BY <2>1 DEF Call
<1>2. CASE HandlerFails(n)
      BY <1>2 DEF HandlerFails
<1>3. CASE Keyword(n)
      BY <1>3 DEF Keyword
<1>4. CASE Vector(n)
      BY <1>4 DEF Vector
<1>5. CASE VectorFails(n)
      BY <1>5 DEF VectorFails
<1>6. CASE Snippet(n)
      BY <1>6 DEF Snippet
<1>7. CASE SnippetsDone(n) \/ PackDone(n) \/ Read(n) \/ Write(n)
      BY <1>7 DEF SnippetsDone, PackDone, Read, Write
<1>8. CASE PackOne(n)
      BY <1>8 DEF PackOne
<1>9. CASE Latest(n)
      BY <1>9 DEF Latest
<1>10. CASE EvidenceRow(n)
      BY <1>10 DEF EvidenceRow
<1>11. CASE Chunks(n)
      BY <1>11 DEF Chunks
<1>12. CASE Audit(n)
      BY <1>12 DEF Audit
<1>13. CASE AuditFails(n)
      BY <1>13 DEF AuditFails
<1>14. CASE Answer(n)
      BY <1>14 DEF Answer
<1> QED BY <1>1, <1>2, <1>3, <1>4, <1>5, <1>6, <1>7, <1>8, <1>9, <1>10, <1>11, <1>12, <1>13, <1>14
        DEF CallStep

\* An untouched call keeps its part of the invariant.
LEMMA UntouchedKeeps ==
  ASSUME NEW m \in Calls, CallInv(m), Untouched(m), UNCHANGED vars
  PROVE  CallInv(m)'
  BY DEF CallInv, Untouched, AtItsStage, HitsWereHeld, HitsDiffer, LogIsExact, Seen, Mcp,
         Truth, vars, truthVars

\* The steps of calls and of the owner keep the types.
LEMMA ReadersTyped ==
  ASSUME ReadersTypeOK, Shape, TypeOK, NEW n \in Calls,
         CallStep(n) \/ \E t \in Tools : Call(n, t), UNCHANGED vars
  PROVE  ReadersTypeOK' /\ Shape'
<1> USE CallsAssumption, TruthTyped
    DEF ReadersTypeOK, Shape, sinceVars, Goto, Return, Take, Stages, Ended, Mcp
<1>a. Tools = McpTools \cup {"desktop"} /\ McpTools \subseteq Tools
      BY DEF Tools
<1>1. CASE \E t \in Tools : Call(n, t)
  <2>1. PICK t \in Tools : Call(n, t)
        BY <1>1
  <2>2. FirstStage(t) \in Stages
        BY DEF FirstStage, Tools, McpTools, RawTools
  <2>3. Current \subseteq Records
        BY DEF Current, TypeOK
  <2> QED BY <2>1, <2>2, <2>3 DEF Call
<1>2. CASE HandlerFails(n)
      BY <1>2 DEF HandlerFails
<1>3. CASE Keyword(n)
  <2>1. ASSUME NEW q
        PROVE  KeywordHits(q) \subseteq Hit /\ {h.record : h \in KeywordHits(q)} \subseteq Records
    <3>1. \A h \in KeywordHits(q) : h \in Hit
          BY KeywordHitsAre
    <3>2. \A h \in Hit : h.record \in Records
          BY DEF Hit
    <3> QED BY <3>1, <3>2
  <2> QED BY <1>3, <2>1 DEF Keyword
<1>4. CASE Vector(n)
  <2>1. ASSUME NEW H \in VectorHits(n)
        PROVE  H \subseteq Hit /\ {h.record : h \in H} \subseteq Records
    <3>1. \A h \in H : h \in Hit
          BY VectorHitsAre
    <3>2. \A h \in Hit : h.record \in Records
          BY DEF Hit
    <3> QED BY <3>1, <3>2
  <2> QED BY <1>4, <2>1 DEF Vector
<1>5. CASE VectorFails(n)
      BY <1>5 DEF VectorFails
<1>6. CASE Snippet(n)
  <2>a. PICK r \in todo[n] :
           /\ \E shown \in {{}} \cup {text[s] : s \in live \cap {r}} :
                found' = [found EXCEPT ![n] =
                           {IF h.record = r THEN [h EXCEPT !.text = shown] ELSE h : h \in @}]
           /\ todo' = [todo EXCEPT ![n] = @ \ {r}]
        BY <1>6 DEF Snippet
  <2>1. PICK shown \in {{}} \cup {text[s] : s \in live \cap {r}} :
           found' = [found EXCEPT ![n] =
                      {IF h.record = r THEN [h EXCEPT !.text = shown] ELSE h : h \in @}]
        BY <2>a
  <2>2. shown \in Texts
    <3>1. {} \in Texts
          BY DEF Texts
    <3>2. \A s \in live : text[s] \in Texts
          BY TruthTyped
    <3>3. shown = {} \/ \E s \in live : shown = text[s]
          OBVIOUS
    <3> QED BY <3>1, <3>2, <3>3
  <2>3. \A h \in Hit : [h EXCEPT !.text = shown] \in Hit
        BY <2>2 DEF Hit
  <2> QED BY <1>6, <2>a, <2>1, <2>3 DEF Snippet
<1>7. CASE SnippetsDone(n) \/ PackDone(n) \/ Read(n) \/ Write(n)
      BY <1>7 DEF SnippetsDone, PackDone, Read, Write
<1>8. CASE PackOne(n)
  <2>1. \A r \in live : Cited(r) \in Hit
        BY DEF Cited, Hit
  <2> QED BY <1>8, <2>1 DEF PackOne
<1>9. CASE Latest(n)
  <2>1. live \subseteq Records
        BY DEF TypeOK
  <2> QED BY <1>9, <2>1 DEF Latest
<1>10. CASE EvidenceRow(n)
  <2>1. \A r \in Records : Metadata(r) \in Hit
        BY DEF Metadata, Hit, Texts
  <2> QED BY <1>10, <2>1 DEF EvidenceRow
<1>11. CASE Chunks(n)
  <2>1. \A r \in live : Cited(r) \in Hit
        BY DEF Cited, Hit
  <2> QED BY <1>11, <2>1 DEF Chunks
<1>12. CASE Audit(n)
  <2>1. \A b \in BOOLEAN : [call |-> n, outcome |-> outcome[n], raw |-> b] \in LogRow
        BY DEF LogRow
  <2>2. (outcome[n] = "ok" /\ tool[n] \in RawTools) \in BOOLEAN
        OBVIOUS
  <2> QED BY <1>12, <2>1, <2>2 DEF Audit
<1>13. CASE AuditFails(n)
      BY <1>13 DEF AuditFails
<1>14. CASE Answer(n)
      BY <1>14 DEF Answer
<1> QED BY <1>1, <1>2, <1>3, <1>4, <1>5, <1>6, <1>7, <1>8, <1>9, <1>10, <1>11, <1>12, <1>13, <1>14
        DEF CallStep

\* A call that goes on before its row is written keeps the log exact.
LEMMA LogUnchanged ==
  ASSUME NEW n \in Calls, LogIsExact(n), pc[n] \in Stages \ {"answer"}, log' = log,
         pc'[n] \notin {"answer", "ok", "refused"} \/ ~Mcp(n)', tool'[n] = tool[n]
  PROVE  LogIsExact(n)'
<1>1. {e \in log : e.call = n} = {}
  BY DEF LogIsExact, Stages
<1> QED BY <1>1 DEF LogIsExact, Mcp

\* Each step of a call keeps its part of the invariant.
LEMMA StepKeeps ==
  ASSUME ReadersTypeOK, Shape, TypeOK, NoOrphanRows, NEW n \in Calls, CallInv(n),
         CallStep(n) \/ \E t \in Tools : Call(n, t), UNCHANGED vars
  PROVE  CallInv(n)'
<1> USE TruthTyped
    DEF ReadersTypeOK, Shape, sinceVars, Goto, Return, Take, Stages, Mcp, StagesOf,
        CallInv, AtItsStage, HitsWereHeld, HitsDiffer, Seen
<1>v. Truth' = Truth
      BY DEF Truth, vars, truthVars
<1>t. \A t \in Tools : t \in McpTools \/ t = "desktop"
      BY DEF Tools
<1>1. CASE \E t \in Tools : Call(n, t)
  <2>1. PICK t \in Tools : Call(n, t)
        BY <1>1
  <2>2. FirstStage(t) \in StagesOf(t) /\ FirstStage(t) \in {"keyword", "row", "latest", "read", "write"}
        BY DEF FirstStage, Tools, McpTools, RawTools
  <2> QED BY <2>1, <2>2, <1>v DEF Call, LogIsExact
<1>2. CASE HandlerFails(n)
      BY <1>2, <1>v, LogUnchanged DEF HandlerFails, MayFail
<1>3. CASE Keyword(n)
  <2>1. PICK q \in Moments \cup {NoMoment} :
         IF tool[n] = "context_pack"
         THEN /\ todo' = [todo EXCEPT ![n] = {h.record : h \in KeywordHits(q)}]
              /\ Goto(n, "pack") /\ Take(n)
              /\ UNCHANGED <<route, found, outcome>>
         ELSE /\ found' = [found EXCEPT ![n] = KeywordHits(q)]
              /\ \/ Goto(n, "vector") /\ UNCHANGED <<route, todo, outcome, guard>>
                 \/ Return(n, "ok")
        BY <1>3 DEF Keyword
  <2>2. /\ pc[n] = "keyword" /\ found[n] = {} /\ tool' = tool /\ log' = log
        /\ held' = held /\ tool[n] \in {"search", "desktop", "context_pack"}
        BY <1>3 DEF Keyword, Tools, McpTools, RawTools
  <2>3. \A h \in KeywordHits(q) :
           /\ h.record \in live /\ h.text = text[h.record]
           /\ h = [record |-> h.record, route |-> "keyword", copy |-> 1, text |-> h.text]
        BY KeywordHitsAre
  <2>4. \A h \in KeywordHits(q) : [record |-> h.record, text |-> h.text] \in held[n]
        BY <2>2, <2>3
  <2>5. CASE tool[n] = "context_pack"
        BY <2>1, <2>2, <2>5, <1>v, LogUnchanged DEF RawTools, McpTools
  <2>6. CASE tool[n] # "context_pack"
    <3>1. found'[n] = KeywordHits(q)
          BY <2>1, <2>6
    <3>2. pc'[n] \in {"vector", "audit", "ok"} /\ (pc'[n] = "audit" => outcome'[n] = "ok")
          BY <2>1, <2>6
    <3>3. pc'[n] = "vector" => route'[n] = "off"
          BY <2>1, <2>2, <2>6
    <3>4. HitsWereHeld(n)'
          BY <2>2, <2>4, <3>1, <3>2, <1>v
    <3>5. HitsDiffer(n)'
          BY <2>3, <3>1, <3>2
    <3>6. AtItsStage(n)'
          BY <2>2, <2>6, <3>2, <3>3
    <3>7. pc'[n] = "ok" => ~Mcp(n)
          BY <2>1, <2>6
    <3> QED BY <2>2, <3>2, <3>4, <3>5, <3>6, <3>7, LogUnchanged
  <2> QED BY <2>5, <2>6
<1>4. CASE Vector(n)
  <2>1. PICK H \in VectorHits(n) :
           found' = [found EXCEPT ![n] = @ \cup H]
        BY <1>4 DEF Vector
  <2>2. /\ pc[n] = "vector" /\ pc'[n] = "snippets" /\ tool' = tool /\ log' = log
        /\ held' = held /\ outcome' = outcome /\ found'[n] = found[n] \cup H
        BY <1>4, <2>1 DEF Vector
  <2>3. /\ \A h \in H : h.record \in RecordsIn(rows) \ Seen(n) /\ h.text = {}
        /\ \A g, h \in H : g.record = h.record => g = h
        BY VectorHitsAre
  <2>4. \A h \in H : h.record \in {p.record : p \in held[n]}
    <3>1. \A r \in live : r \in {p.record : p \in held[n]}
          BY <2>2, LiveIsHeld
    <3> QED BY <2>3, <3>1 DEF NoOrphanRows
  <2>5. HitsWereHeld(n)'
        BY <2>2, <2>3, <2>4, <1>v
  <2>6. HitsDiffer(n)'
        BY <2>2, <2>3
  <2>7. AtItsStage(n)'
    <3>1. tool[n] \in {"search", "desktop"}
          BY <2>2 DEF Tools, McpTools, RawTools
    <3> QED BY <2>2, <3>1
  <2> QED BY <2>2, <2>5, <2>6, <2>7, LogUnchanged
<1>5. CASE VectorFails(n)
      BY <1>5, <1>v, LogUnchanged DEF VectorFails
<1>6. CASE Snippet(n)
  <2>1. PICK r \in todo[n] :
           \E shown \in {{}} \cup {text[s] : s \in live \cap {r}} :
              found' = [found EXCEPT ![n] =
                         {IF h.record = r THEN [h EXCEPT !.text = shown] ELSE h : h \in @}]
        BY <1>6 DEF Snippet
  <2>2. PICK shown \in {{}} \cup {text[s] : s \in live \cap {r}} :
           found' = [found EXCEPT ![n] =
                      {IF h.record = r THEN [h EXCEPT !.text = shown] ELSE h : h \in @}]
        BY <2>1
  <2> DEFINE New(h) == IF h.record = r THEN [h EXCEPT !.text = shown] ELSE h
  <2>3. /\ pc[n] = "snippets" /\ pc'[n] = "snippets" /\ tool' = tool /\ log' = log
        /\ held' = held /\ outcome' = outcome /\ found'[n] = {New(h) : h \in found[n]}
        BY <1>6, <2>2 DEF Snippet
  <2>4. shown = {} \/ [record |-> r, text |-> shown] \in held[n]
        BY <2>3
  <2>5. ASSUME NEW h \in found[n]
        PROVE  /\ New(h).record = h.record
               /\ New(h).text = IF h.record = r THEN shown ELSE h.text
        BY DEF Hit
  <2>6. HitsWereHeld(n)'
    <3>1. ASSUME NEW h \in found[n]
          PROVE  /\ New(h).record \in {p.record : p \in held[n]}
                 /\ New(h).text # {} =>
                      [record |-> New(h).record, text |-> New(h).text] \in held[n]
          BY <2>4, <2>5
    <3> HIDE DEF New
    <3> QED BY <2>3, <3>1, <1>v
  <2>7. HitsDiffer(n)'
    <3>1. \A g, h \in found[n] : New(g).record = New(h).record => New(g) = New(h)
          BY <2>5
    <3> HIDE DEF New
    <3> QED BY <2>3, <3>1
  <2>8. AtItsStage(n)'
        BY <2>3
  <2> QED BY <2>3, <2>6, <2>7, <2>8, LogUnchanged
<1>7. CASE SnippetsDone(n) \/ PackDone(n) \/ Read(n) \/ Write(n)
      BY <1>7, <1>v, LogUnchanged DEF SnippetsDone, PackDone, Read, Write
<1>8. CASE PackOne(n)
  <2>1. PICK r \in todo[n] :
           /\ \/ r \in live /\ found' = [found EXCEPT ![n] = @ \cup {Cited(r)}]
              \/ UNCHANGED found
           /\ todo' = [todo EXCEPT ![n] = @ \ {r}]
        BY <1>8 DEF PackOne
  <2>2. /\ pc[n] = "pack" /\ pc' = pc /\ tool' = tool /\ log' = log
        /\ held' = held /\ outcome' = outcome /\ todo'[n] = todo[n] \ {r}
        BY <1>8, <2>1 DEF PackOne
  <2>3. Cited(r).record = r /\ Cited(r).text = text[r]
        BY DEF Cited
  <2>4. r \in live => [record |-> r, text |-> text[r]] \in held[n]
        BY <2>2
  <2>5. CASE r \in live /\ found'[n] = found[n] \cup {Cited(r)}
    <3>1. HitsWereHeld(n)'
          BY <2>2, <2>3, <2>4, <2>5, <1>v
    <3>2. HitsDiffer(n)'
          BY <2>2, <2>3, <2>5
    <3> QED BY <2>2, <3>1, <3>2, LogUnchanged
  <2>6. CASE UNCHANGED found
        BY <2>2, <2>6, <1>v, LogUnchanged
  <2> QED BY <2>1, <2>5, <2>6
<1>9. CASE Latest(n)
  <2>1. /\ pc[n] = "latest" /\ found[n] = {} /\ tool' = tool /\ log' = log
        /\ held' = held /\ found' = found /\ tool[n] = "active_focus"
        BY <1>9 DEF Latest, Tools, McpTools, RawTools
  <2>2. pc'[n] = "row" \/ (pc'[n] = "audit" /\ outcome'[n] = "ok")
        BY <1>9, <2>1 DEF Latest, McpTools
  <2> QED BY <2>1, <2>2, <1>v, LogUnchanged
<1>10. CASE EvidenceRow(n)
  <2>1. /\ pc[n] = "row" /\ found[n] = {} /\ tool' = tool /\ log' = log /\ held' = held
        /\ tool[n] \in {"source_evidence", "source_evidence_raw", "active_focus"}
        BY <1>10 DEF EvidenceRow, Tools, McpTools, RawTools
  <2>2. \/ found'[n] = {} /\ pc'[n] = "audit"
        \/ pc'[n] = "chunks" /\ \E r \in live : found'[n] = {Metadata(r)}
        BY <1>10, <2>1 DEF EvidenceRow, McpTools, RawTools
  <2>3. CASE found'[n] = {} /\ pc'[n] = "audit"
        BY <2>1, <2>3, <1>v, LogUnchanged
  <2>4. CASE pc'[n] = "chunks" /\ \E r \in live : found'[n] = {Metadata(r)}
    <3>1. PICK r \in live : found'[n] = {Metadata(r)}
          BY <2>4
    <3>2. Metadata(r).record = r /\ Metadata(r).text = {}
          BY DEF Metadata
    <3>3. r \in {p.record : p \in held[n]}
          BY <2>1, LiveIsHeld
    <3>4. HitsWereHeld(n)'
          BY <2>1, <2>4, <3>1, <3>2, <3>3, <1>v
    <3>5. HitsDiffer(n)' /\ AtItsStage(n)'
          BY <2>1, <2>4, <3>1
    <3> QED BY <2>1, <2>4, <3>4, <3>5, LogUnchanged
  <2> QED BY <2>2, <2>3, <2>4
<1>11. CASE Chunks(n)
      BY <1>11, <1>v, LogUnchanged DEF Chunks, Cited
<1>12. CASE Audit(n)
  <2> DEFINE row == [call |-> n, outcome |-> outcome[n],
                     raw |-> outcome[n] = "ok" /\ tool[n] \in RawTools]
  <2>1. /\ pc[n] = "audit" /\ pc'[n] = "answer" /\ log' = log \cup {row}
        /\ tool' = tool /\ held' = held /\ found' = found /\ outcome' = outcome
        BY <1>12 DEF Audit
  <2>2. {e \in log : e.call = n} = {}
        BY <2>1 DEF LogIsExact
  <2>3. {e \in log' : e.call = n} = {row}
        BY <2>1, <2>2
  <2>4. /\ row.outcome = outcome[n]
        /\ row.raw <=> (outcome[n] = "ok" /\ tool[n] \in RawTools)
        /\ outcome[n] \in {"ok", "refused"}
        OBVIOUS
  <2>5. LogIsExact(n)'
    <3> HIDE DEF row
    <3> QED BY <2>1, <2>3, <2>4 DEF LogIsExact
  <2>6. AtItsStage(n)' /\ HitsWereHeld(n)' /\ HitsDiffer(n)'
        BY <2>1, <1>v
  <2> QED BY <2>5, <2>6
<1>13. CASE AuditFails(n)
      BY <1>13, <1>v, LogUnchanged DEF AuditFails
<1>14. CASE Answer(n)
  <2>1. /\ pc[n] = "answer" /\ pc'[n] = outcome[n] /\ outcome[n] \in {"ok", "refused"}
        /\ log' = log /\ tool' = tool /\ held' = held /\ found' = found
        /\ outcome' = outcome /\ route' = route /\ todo' = todo
        BY <1>14 DEF Answer
  <2>2. LogIsExact(n)'
        BY <2>1 DEF LogIsExact
  <2>3. AtItsStage(n)' /\ HitsWereHeld(n)' /\ HitsDiffer(n)'
        BY <2>1, <1>v
  <2> QED BY <2>2, <2>3
<1> QED BY <1>1, <1>2, <1>3, <1>4, <1>5, <1>6, <1>7, <1>8, <1>9, <1>10, <1>11, <1>12, <1>13, <1>14
        DEF CallStep

\* The owner's commits add to what was held; the calls themselves do not move.
LEMMA OwnerKeeps ==
  ASSUME ReadersInv, TypeOK, TypeOK', OwnerNext
  PROVE  ReadersInv'
<1> USE DEF ReadersInv, ReadersTypeOK, Shape, callVars
<1>1. /\ UNCHANGED callVars
      /\ held' = [n \in Calls |-> IF pc[n] \in Stages THEN held[n] \cup Truth' ELSE held[n]]
      /\ steady' = [n \in Calls |-> IF pc[n] \in Stages THEN steady[n] \cap Current' ELSE steady[n]]
      BY DEF OwnerNext
<1>2. Truth' \subseteq Chunk
      BY TruthTyped DEF TypeOK, Truth, Chunk
<1>3. ReadersTypeOK' /\ Shape'
      BY <1>1, <1>2
<1>4. ASSUME NEW n \in Calls PROVE CallInv(n)'
  <2>1. CallInv(n) /\ held[n] \subseteq held'[n] /\ (pc[n] \in Stages => Truth' \subseteq held'[n])
        BY <1>1
  <2>2. HitsWereHeld(n)'
    <3>1. \A h \in found[n] : h.record \in {p.record : p \in held'[n]}
          BY <2>1 DEF CallInv, HitsWereHeld
    <3> QED BY <1>1, <2>1, <3>1 DEF CallInv, HitsWereHeld
  <2>3. AtItsStage(n)' /\ HitsDiffer(n)' /\ LogIsExact(n)'
        BY <1>1, <2>1 DEF CallInv, AtItsStage, HitsDiffer, LogIsExact, Seen, Mcp
  <2> QED BY <2>2, <2>3 DEF CallInv
<1> QED BY <1>3, <1>4

\* A server that stops takes its calls with it, unanswered, logged or not.
LEMMA StopKeeps ==
  ASSUME ReadersInv, ServerStops, UNCHANGED vars
  PROVE  ReadersInv'
<1> USE DEF ReadersInv, ReadersTypeOK, Shape, sinceVars, Stages, Ended
<1>1. ReadersTypeOK' /\ Shape'
      BY DEF ServerStops
<1>2. ASSUME NEW n \in Calls PROVE CallInv(n)'
  <2>1. CASE Mcp(n) /\ pc[n] \in Stages
    <3>1. /\ pc'[n] = "dead" /\ found'[n] = {} /\ log' = log
          /\ outcome' = outcome /\ tool' = tool
          BY <2>1 DEF ServerStops
    <3> QED BY <2>1, <3>1 DEF CallInv, AtItsStage, HitsWereHeld, HitsDiffer, LogIsExact
  <2>2. CASE ~(Mcp(n) /\ pc[n] \in Stages)
    <3>1. Untouched(n)
          BY <2>2 DEF ServerStops, Untouched
    <3> QED BY <3>1, UntouchedKeeps
  <2> QED BY <2>1, <2>2
<1> QED BY <1>1, <1>2

\* Every step of the readers and of the owner keeps the invariant.
LEMMA NextReaders ==
  ReadersInv /\ OrphanInv /\ TypeOK' /\ [ReadersNext]_<<vars, readerVars>> => ReadersInv'
<1> SUFFICES ASSUME ReadersInv, OrphanInv, TypeOK', [ReadersNext]_<<vars, readerVars>>
             PROVE  ReadersInv'
    OBVIOUS
<1>1. TypeOK /\ NoOrphanRows
      BY DEF OrphanInv
<1>2. CASE OwnerNext
      BY <1>1, <1>2, OwnerKeeps
<1>3. CASE ServerStops /\ UNCHANGED vars
      BY <1>3, StopKeeps
<1>4. ASSUME NEW n \in Calls, CallStep(n) \/ \E t \in Tools : Call(n, t), UNCHANGED vars
      PROVE  ReadersInv'
  <2>1. ReadersTypeOK' /\ Shape'
        BY <1>1, <1>4, ReadersTyped DEF ReadersInv
  <2>2. CallInv(n)'
        BY <1>1, <1>4, StepKeeps DEF ReadersInv
  <2>3. ASSUME NEW m \in Calls \ {n} PROVE CallInv(m)'
        BY <1>4, OthersUntouched, UntouchedKeeps DEF ReadersInv
  <2> QED BY <2>1, <2>2, <2>3 DEF ReadersInv
<1>5. CASE UNCHANGED <<vars, readerVars>>
  <2>1. ASSUME NEW m \in Calls PROVE CallInv(m)'
        BY <1>5, UntouchedKeeps DEF ReadersInv, Untouched, readerVars, callVars, sinceVars
  <2> QED BY <1>5, <2>1 DEF ReadersInv, ReadersTypeOK, Shape, readerVars, callVars, sinceVars
<1> QED BY <1>2, <1>3, <1>4, <1>5 DEF ReadersNext, ReaderNext

\* The invariant holds in every reachable state.
LEMMA ReadersInvariance == ReadersSpec => []ReadersInv
<1>1. OrphanInv => TypeOK
      BY DEF OrphanInv
<1> QED BY <1>1, InitReaders, NextReaders, VaultUnderReaders, OrphanInvAlways, PTL DEF ReadersSpec

-----------------------------------------------------------------------------
\* The state of every call, of the log and of the mutex keeps its type.
THEOREM ReadersTypeCorrect == ReadersSpec => []ReadersTypeOK
<1>1. ReadersInv => ReadersTypeOK
      BY DEF ReadersInv
<1> QED BY <1>1, ReadersInvariance, PTL

\* No answer names a record or shows a text that SQLite did not hold at some moment
\* of the call, although hits come from an index that may be stale or orphaned.
THEOREM AnswersAreTrue == ReadersSpec => []AnswerWasTrue
<1>1. ReadersInv => AnswerWasTrue
      BY DEF ReadersInv, CallInv, HitsWereHeld, AnswerWasTrue
<1> QED BY <1>1, ReadersInvariance, PTL

\* A chunk appears once in an answer, however many rows and routes lead to it.
THEOREM ChunksAppearOnce == ReadersSpec => []EachChunkOnce
<1>1. ReadersInv => EachChunkOnce
      BY DEF ReadersInv, CallInv, HitsDiffer, EachChunkOnce
<1> QED BY <1>1, ReadersInvariance, PTL

\* The audit log has one row for each answer, with its outcome, none for a call that
\* failed, one at most for a call that died, whenever the server stops; and the tools
\* that declare raw text release it only under the flag.
THEOREM AuditLogIsExact == ReadersSpec => []AuditIsExact
<1>1. ReadersInv => AuditIsExact
      BY DEF ReadersInv, CallInv, LogIsExact, AuditIsExact
<1> QED BY <1>1, ReadersInvariance, PTL

-----------------------------------------------------------------------------
SearchInv == \A n \in Calls : NothingMissed(n)

\* What is stamped and not torn has a row in the index.
LEMMA CurrentIsIndexed == FlushedIsIndexed => Current \subseteq RecordsIn(rows)
<1> SUFFICES ASSUME FlushedIsIndexed, NEW r \in Current PROVE r \in RecordsIn(rows)
    OBVIOUS
<1>1. [record |-> r, text |-> text[r], copy |-> 1] \in rows
      BY DEF FlushedIsIndexed, Current
<1> QED BY <1>1 DEF RecordsIn

\* A search has seen the whole index when it leaves its vector stage.
LEMMA StepMissesNothing ==
  ASSUME ReadersTypeOK, Shape, TypeOK, FlushedIsIndexed, NEW n \in Calls, CallInv(n),
         NothingMissed(n), CallStep(n) \/ \E t \in Tools : Call(n, t), UNCHANGED vars
  PROVE  NothingMissed(n)'
<1> USE DEF ReadersTypeOK, Shape, sinceVars, Goto, Return, Take, Stages, NothingMissed,
        Promises
<1>c. Current' = Current
      BY DEF Current, vars, truthVars, auxVars
<1>s. /\ pc[n] \in Stages => pc[n] \in StagesOf(tool[n])
      /\ pc[n] \in {"new", "keyword", "vector"} => route[n] = "off"
      BY DEF CallInv, AtItsStage
<1>1. CASE \E t \in Tools : Call(n, t)
  <2>1. PICK t \in Tools : Call(n, t)
        BY <1>1
  <2>2. FirstStage(t) \in {"keyword", "row", "latest", "read", "write"}
        BY DEF FirstStage, Tools, McpTools, RawTools
  <2> QED BY <2>1, <2>2, <1>c DEF Call
<1>2. CASE HandlerFails(n) \/ VectorFails(n) \/ AuditFails(n)
      BY <1>2, <1>c DEF HandlerFails, VectorFails, AuditFails, MayFail, Mcp, McpTools
<1>3. CASE Keyword(n)
  <2>1. /\ pc[n] = "keyword" /\ route[n] = "off" /\ tool' = tool /\ steady' = steady
        BY <1>3, <1>s DEF Keyword
  <2>2. CASE tool[n] = "context_pack"
        BY <1>3, <1>c, <2>1, <2>2 DEF Keyword
  <2>3. CASE tool[n] # "context_pack" /\ pc'[n] = "vector"
        BY <1>c, <2>1, <2>3
  <2>4. CASE tool[n] # "context_pack" /\ pc'[n] # "vector"
    <3>1. MayDoWithout(n) /\ route'[n] = "missing"
          BY <1>3, <2>4 DEF Keyword
    <3>2. ~Promises(n)'
          BY <2>1, <3>1 DEF MayDoWithout, Mcp, McpTools
    <3>3. steady[n] \subseteq Current
          BY <2>1
    <3> QED BY <1>c, <2>1, <3>2, <3>3
  <2> QED BY <2>2, <2>3, <2>4
<1>4. CASE Vector(n)
  <2>1. PICK H \in VectorHits(n) : found' = [found EXCEPT ![n] = @ \cup H]
        BY <1>4 DEF Vector
  <2>2. found'[n] = found[n] \cup H /\ steady' = steady /\ pc[n] = "vector" /\ tool' = tool
        BY <1>4, <2>1 DEF Vector
  <2>3. RecordsIn(rows) \ Seen(n) \subseteq {h.record : h \in H}
        BY VectorHitsAre
  <2>4. RecordsIn(rows) \subseteq Seen(n)'
        BY <2>2, <2>3 DEF Seen
  <2>5. steady[n] \subseteq Current
        BY <2>2
  <2> QED BY <2>2, <2>4, <2>5, <1>c, CurrentIsIndexed
<1>5. CASE Snippet(n)
  <2>1. PICK r \in todo[n] :
           \E shown \in {{}} \cup {text[s] : s \in live \cap {r}} :
              found' = [found EXCEPT ![n] =
                         {IF h.record = r THEN [h EXCEPT !.text = shown] ELSE h : h \in @}]
        BY <1>5 DEF Snippet
  <2>2. PICK shown \in {{}} \cup {text[s] : s \in live \cap {r}} :
           found' = [found EXCEPT ![n] =
                      {IF h.record = r THEN [h EXCEPT !.text = shown] ELSE h : h \in @}]
        BY <2>1
  <2> DEFINE New(h) == IF h.record = r THEN [h EXCEPT !.text = shown] ELSE h
  <2>3. found'[n] = {New(h) : h \in found[n]}
        BY <2>2
  <2>4. \A h \in found[n] : New(h).record = h.record
        BY DEF Hit
  <2>5. Seen(n)' = Seen(n)
    <3> HIDE DEF New
    <3> QED BY <2>3, <2>4 DEF Seen
  <2>6. /\ steady' = steady /\ tool' = tool /\ route' = route /\ pc' = pc
        /\ pc[n] = "snippets"
        BY <1>5 DEF Snippet
  <2> QED BY <2>5, <2>6, <1>c
<1>6. CASE SnippetsDone(n)
      BY <1>6, <1>c DEF SnippetsDone, Seen
<1>7. CASE PackOne(n) \/ PackDone(n) \/ Latest(n) \/ EvidenceRow(n) \/ Chunks(n) \/ Read(n)
           \/ Write(n)
  <2>1. /\ steady' = steady /\ tool' = tool /\ pc[n] \in Stages
        /\ pc[n] \in {"pack", "latest", "row", "chunks", "read", "write"}
        BY <1>7 DEF PackOne, PackDone, Latest, EvidenceRow, Chunks, Read, Write
  <2>2. tool[n] \notin {"search", "desktop"}
        BY <1>s, <2>1 DEF StagesOf
  <2> QED BY <2>1, <2>2, <1>c
<1>8. CASE Audit(n) \/ Answer(n)
      BY <1>8, <1>c DEF Audit, Answer, Seen
<1> QED BY <1>1, <1>2, <1>3, <1>4, <1>5, <1>6, <1>7, <1>8 DEF CallStep

\* Every step keeps what searches have seen complete.
LEMMA NextMissesNothing ==
  ReadersInv /\ TypeOK /\ FlushedIsIndexed /\ SearchInv /\ [ReadersNext]_<<vars, readerVars>>
     => SearchInv'
<1> SUFFICES ASSUME ReadersInv, TypeOK, FlushedIsIndexed, SearchInv,
                    [ReadersNext]_<<vars, readerVars>>, NEW m \in Calls
             PROVE  NothingMissed(m)'
    BY DEF SearchInv
<1> USE DEF ReadersInv, SearchInv
<1>1. CASE OwnerNext
  <2>1. /\ UNCHANGED callVars
        /\ steady'[m] = IF pc[m] \in Stages THEN steady[m] \cap Current' ELSE steady[m]
        BY <1>1 DEF OwnerNext
  <2> QED BY <2>1 DEF NothingMissed, Promises, callVars, Seen
<1>2. ASSUME Untouched(m), UNCHANGED vars PROVE NothingMissed(m)'
      BY <1>2 DEF Untouched, NothingMissed, Promises, Seen, Current, vars, truthVars, auxVars
<1>3. CASE ServerStops /\ UNCHANGED vars
  <2>1. CASE Mcp(m) /\ pc[m] \in Stages
    <3>1. pc'[m] = "dead"
          BY <1>3, <2>1 DEF ServerStops
    <3> QED BY <3>1 DEF NothingMissed, Stages
  <2>2. CASE ~(Mcp(m) /\ pc[m] \in Stages)
    <3>1. Untouched(m)
          BY <1>3, <2>2 DEF ServerStops, Untouched, sinceVars, ReadersTypeOK, Shape
    <3> QED BY <1>2, <1>3, <3>1
  <2> QED BY <2>1, <2>2
<1>4. ASSUME NEW n \in Calls, CallStep(n) \/ \E t \in Tools : Call(n, t), UNCHANGED vars
      PROVE  NothingMissed(m)'
  <2>1. CASE m = n
        BY <1>4, <2>1, StepMissesNothing
  <2>2. CASE m # n
    <3>1. Untouched(m)
          BY <1>4, <2>2, OthersUntouched
    <3> QED BY <1>2, <1>4, <3>1
  <2> QED BY <2>1, <2>2
<1>5. CASE UNCHANGED <<vars, readerVars>>
      BY <1>2, <1>5 DEF Untouched, readerVars, callVars, sinceVars
<1> QED BY <1>1, <1>3, <1>4, <1>5 DEF ReadersNext, ReaderNext

\* A search that is answered has seen every record that was stamped as indexed
\* throughout the call, if stamps are never the value that means pending.
THEOREM SearchesMissNothing == ASSUME ClockRuns PROVE ReadersSpec => []SearchIsComplete
<1>1. ReadersInit => SearchInv
      BY DEF ReadersInit, SearchInv, NothingMissed, Stages
<1>2. IndexInv => FlushedIsIndexed
      BY DEF IndexInv
<1>3. SearchInv => SearchIsComplete
      BY DEF SearchInv, NothingMissed, SearchIsComplete
<1>4. Spec => [](IndexInv /\ TypeOK)
      BY IndexInvAlways
<1> QED BY <1>1, <1>2, <1>3, <1>4, NextMissesNothing, ReadersInvariance, VaultUnderReaders, PTL
        DEF ReadersSpec
=============================================================================
