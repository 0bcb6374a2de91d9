---------------------------- MODULE VaultReaders ----------------------------
(***************************************************************************)
(* Who reads the vault while its owner changes it: the MCP tools           *)
(* (server.rs), the shared search of fndr-retrieval (lib.rs,               *)
(* merged_search.rs) and the desktop search (search.rs), composed with     *)
(* VaultIndex.                                                             *)
(*                                                                         *)
(* The MCP server is another process: its mutex orders its own calls, not  *)
(* the owner's commits, which come between any two statements of a call.   *)
(*                                                                         *)
(* A keyword query asks for the evidence of one capture moment, or for     *)
(* words that nothing contains.  A vector query's limit is above the       *)
(* number of rows.                                                         *)
(***************************************************************************)
EXTENDS VaultIndex

CONSTANTS Calls,        \* the calls the model makes (bound)
          VectorRoute   \* TRUE iff the server was given a model and an index

NoCall == "nocall"

ASSUME CallsAssumption == VectorRoute \in BOOLEAN /\ NoCall \notin Calls

VARIABLES
    pc,      \* what each call does next, and how it ended
    tool,    \* the tool it called
    route,   \* what it says of the vector route: "off" until known
    found,   \* the hits it has so far
    todo,    \* records whose text it has yet to read
    outcome, \* what its handler returned: "ok" or "refused"
    guard,   \* the call that holds the mutex of the server's Store
    log,     \* mcp_audit
    ledger   \* calls with a row in decision_ledger or result_feedback

\* Auxiliary, while a call is under way.
VARIABLES
    held,    \* what SQLite held at some moment of the call
    steady   \* of a search: the records that were in the index and up to date all the time

callVars   == <<pc, tool, route, found, todo, outcome, guard, log, ledger>>
sinceVars  == <<held, steady>>
readerVars == <<callVars, sinceVars>>

RawTools == {"context_pack", "source_evidence_raw"}
McpTools == RawTools \cup {"search", "source_evidence", "active_focus", "timeline",
                           "remember_decision"}
Tools    == McpTools \cup {"desktop"}
Searches == {"search", "desktop"}
Ended    == {"ok", "refused", "failed", "dead"}
Stages   == {"keyword", "vector", "snippets", "pack", "row", "chunks", "latest", "read",
             "write", "audit", "answer"}

Hit     == [record : Records, route : {"keyword", "vector"}, copy : {1, 2}, text : Texts]
LogRow  == [call : Calls, outcome : {"ok", "refused"}, raw : BOOLEAN]

ReadersTypeOK ==
    /\ pc \in [Calls -> {"new"} \cup Stages \cup Ended]
    /\ tool \in [Calls -> Tools]
    /\ route \in [Calls -> {"off", "available", "missing", "failed"}]
    /\ \A n \in Calls : found[n] \subseteq Hit
    /\ todo \in [Calls -> SUBSET Records]
    /\ outcome \in [Calls -> {"ok", "refused"}]
    /\ guard \in Calls \cup {NoCall}
    /\ log \subseteq LogRow
    /\ ledger \subseteq Calls
    /\ \A n \in Calls : held[n] \subseteq Chunk
    /\ steady \in [Calls -> SUBSET Records]

ReadersInit ==
    /\ Init
    /\ pc = [n \in Calls |-> "new"]
    /\ tool = [n \in Calls |-> "desktop"] /\ route = [n \in Calls |-> "off"]
    /\ found = [n \in Calls |-> {}] /\ todo = [n \in Calls |-> {}]
    /\ outcome = [n \in Calls |-> "ok"]
    /\ guard = NoCall /\ log = {} /\ ledger = {}
    /\ held = [n \in Calls |-> {}] /\ steady = [n \in Calls |-> {}]

Truth   == {[record |-> r, text |-> text[r]] : r \in live}
Current == {r \in live : flushedAt[r] # Pending /\ r \notin torn}

-----------------------------------------------------------------------------
(* Stages of a call                                                        *)

Mcp(n)  == tool[n] \in McpTools
Free(n) == guard = NoCall \/ guard = n \/ ~Mcp(n)
Goto(n, stage) == pc' = [pc EXCEPT ![n] = stage]

\* The handler is left, its guard dropped; the desktop search has no audit log.
Return(n, result) ==
    /\ outcome' = [outcome EXCEPT ![n] = result]
    /\ todo' = [todo EXCEPT ![n] = {}]
    /\ guard' = IF guard = n THEN NoCall ELSE guard
    /\ Goto(n, IF Mcp(n) THEN "audit" ELSE IF result = "ok" THEN "ok" ELSE "failed")

Take(n) == guard' = IF Mcp(n) THEN n ELSE guard

VectorRecords(n) == {h.record : h \in {g \in found[n] : g.route = "vector"}}

\* One search statement over chunks_fts.
KeywordHits(q) ==
    {[record |-> r, route |-> "keyword", copy |-> 1, text |-> text[r]] :
        r \in {s \in live : q \in text[s]}}

FirstStage(t) ==
    CASE t \in {"search", "context_pack", "desktop"}      -> "keyword"
      [] t \in {"source_evidence", "source_evidence_raw"} -> "row"
      [] t = "active_focus"                               -> "latest"
      [] t = "timeline"                                   -> "read"
      [] t = "remember_decision"                          -> "write"

Call(n, t) ==
    /\ pc[n] = "new"
    /\ tool' = [tool EXCEPT ![n] = t]
    /\ Goto(n, FirstStage(t))
    /\ held' = [held EXCEPT ![n] = Truth]
    /\ steady' = [steady EXCEPT ![n] = IF t \in Searches THEN Current ELSE {}]
    /\ UNCHANGED <<route, found, todo, outcome, guard, log, ledger>>

\* A statement errs, or the vault cannot be opened again: the desktop reopens it
\* before its first snippet.  The stages that swallow errors have their own.
MayFail(n) ==
    IF pc[n] = "snippets"
    THEN ~Mcp(n) /\ todo[n] # {} /\ todo[n] = VectorRecords(n)
    ELSE pc[n] \in Stages \ {"vector", "audit", "answer"}

HandlerFails(n) ==
    /\ MayFail(n) /\ Free(n)
    /\ Return(n, "refused")
    /\ found' = [found EXCEPT ![n] = {}]
    /\ UNCHANGED <<tool, route, log, ledger, sinceVars>>

NoMoment == 0

\* The MCP server has the route it was started with; the desktop has none without a
\* model file or an index directory (embedder, unavailable_vector_route).
MayTryVectors(n) == VectorRoute \/ ~Mcp(n)
MayDoWithout(n)  == ~VectorRoute \/ ~Mcp(n)

\* keyword_hits; a pack goes on under the same guard.
Keyword(n) ==
    /\ pc[n] = "keyword" /\ Free(n)
    /\ \E q \in Moments \cup {NoMoment} :
         IF tool[n] = "context_pack"
         THEN /\ todo' = [todo EXCEPT ![n] = {h.record : h \in KeywordHits(q)}]
              /\ Goto(n, "pack") /\ Take(n)
              /\ UNCHANGED <<route, found, outcome>>
         ELSE /\ found' = [found EXCEPT ![n] = KeywordHits(q)]
              /\ \/ /\ MayTryVectors(n) /\ Goto(n, "vector")
                    /\ UNCHANGED <<route, todo, outcome, guard>>
                 \/ /\ MayDoWithout(n) /\ Return(n, "ok")
                    /\ route' = [route EXCEPT ![n] = "missing"]
    /\ UNCHANGED <<tool, log, ledger, sinceVars>>

Seen(n) == {h.record : h \in found[n]}

\* Regression: vector hits are checked against the keyword hits only.
VectorHitsUnfiltered(n) ==
    {{[record |-> w.record, route |-> "vector", copy |-> w.copy, text |-> {}] :
        w \in {v \in rows : v.record \notin Seen(n)}}}

\* vector_hits: one row, of whichever copy, for each chunk not seen yet.
VectorHits(n) ==
    LET new == RecordsIn(rows) \ Seen(n)
    IN  {{[record |-> r, route |-> "vector", copy |-> pick[r], text |-> {}] : r \in new} :
            pick \in {f \in [new -> {1, 2}] :
                        \A r \in new : \E w \in rows : w.record = r /\ w.copy = f[r]}}

\* No mutex here: embedding and Lance do not need the store.
Vector(n) ==
    /\ pc[n] = "vector" /\ table # "none"
    /\ \E H \in VectorHits(n) :
         /\ found' = [found EXCEPT ![n] = @ \cup H]
         /\ todo' = [todo EXCEPT ![n] = {h.record : h \in H}]
    /\ Goto(n, "snippets")
    /\ route' = [route EXCEPT ![n] = "available"]
    /\ UNCHANGED <<tool, outcome, guard, log, ledger, sinceVars>>

\* Regression: the server answers with the keyword hits alone, as if that were all.
VectorFailsQuietly(n) ==
    /\ pc[n] = "vector"
    /\ Return(n, "ok")
    /\ UNCHANGED <<tool, route, found, log, ledger, sinceVars>>

\* No table, or no vector: the server refuses the whole search, the desktop
\* shows its keyword hits beside the state Failed.
VectorFails(n) ==
    /\ pc[n] = "vector"
    /\ IF Mcp(n) THEN Return(n, "refused") /\ found' = [found EXCEPT ![n] = {}]
       ELSE Return(n, "ok") /\ UNCHANGED found
    /\ route' = [route EXCEPT ![n] = "failed"]
    /\ UNCHANGED <<tool, log, ledger, sinceVars>>

\* Regression: the snippet is the text of the index row.
SnippetFromIndex(n) ==
    /\ pc[n] = "snippets" /\ Free(n)
    /\ \E r \in todo[n], w \in rows :
         /\ w.record = r
         /\ found' = [found EXCEPT ![n] =
                        {IF h.record = r THEN [h EXCEPT !.text = w.text] ELSE h : h \in @}]
         /\ todo' = [todo EXCEPT ![n] = @ \ {r}]
    /\ Take(n)
    /\ UNCHANGED <<pc, tool, route, outcome, log, ledger, sinceVars>>

\* tag_vector_hits_with_snippets, one record_evidence after the other; a record
\* that is gone by now, or cannot be read, leaves an empty snippet.
Snippet(n) ==
    /\ pc[n] = "snippets" /\ Free(n)
    /\ \E r \in todo[n] :
         /\ \E shown \in {{}} \cup {text[s] : s \in live \cap {r}} :
              found' = [found EXCEPT ![n] =
                         {IF h.record = r THEN [h EXCEPT !.text = shown] ELSE h : h \in @}]
         /\ todo' = [todo EXCEPT ![n] = @ \ {r}]
    /\ Take(n)
    /\ UNCHANGED <<pc, tool, route, outcome, log, ledger, sinceVars>>

SnippetsDone(n) ==
    /\ pc[n] = "snippets" /\ todo[n] = {} /\ Free(n)
    /\ Return(n, "ok")
    /\ UNCHANGED <<tool, route, found, log, ledger, sinceVars>>

Cited(r) == [record |-> r, route |-> "keyword", copy |-> 1, text |-> text[r]]

\* context_pack: a hit that is gone is skipped, as is one beyond the budget.
PackOne(n) ==
    /\ pc[n] = "pack"
    /\ \E r \in todo[n] :
         /\ \/ r \in live /\ found' = [found EXCEPT ![n] = @ \cup {Cited(r)}]
            \/ UNCHANGED found
         /\ todo' = [todo EXCEPT ![n] = @ \ {r}]
    /\ UNCHANGED <<pc, tool, route, outcome, guard, log, ledger, sinceVars>>

\* Regression: the audit row is written before the guard is dropped.
PackDoneUnderGuard(n) ==
    /\ pc[n] = "pack" /\ todo[n] = {}
    /\ outcome' = [outcome EXCEPT ![n] = "ok"]
    /\ Goto(n, "audit")
    /\ UNCHANGED <<tool, route, found, todo, guard, log, ledger, sinceVars>>

PackDone(n) ==
    /\ pc[n] = "pack" /\ todo[n] = {}
    /\ Return(n, "ok")
    /\ UNCHANGED <<tool, route, found, log, ledger, sinceVars>>

\* Regression: an empty vault's missing id is looked up like any other.
LatestUnwrapped(n) ==
    /\ pc[n] = "latest" /\ Free(n)
    /\ todo' = [todo EXCEPT ![n] =
                  IF live = {} THEN {NoCall}
                  ELSE {CHOOSE r \in live : \A s \in live : capturedAt[s] <= capturedAt[r]}]
    /\ Goto(n, "row") /\ Take(n)
    /\ UNCHANGED <<tool, route, found, outcome, log, ledger, sinceVars>>

\* latest_record_id, then record_evidence: both statements of active_focus.
Latest(n) ==
    /\ pc[n] = "latest" /\ Free(n)
    /\ IF live = {} THEN Return(n, "ok")
       ELSE \E r \in live :
              /\ \A s \in live : capturedAt[s] <= capturedAt[r]
              /\ todo' = [todo EXCEPT ![n] = {r}]
              /\ Goto(n, "row") /\ Take(n)
              /\ UNCHANGED outcome
    /\ UNCHANGED <<tool, route, found, log, ledger, sinceVars>>

Metadata(r) == [record |-> r, route |-> "keyword", copy |-> 1, text |-> {}]

\* record_evidence, its first statement.  source_evidence refuses a record it
\* does not find; active_focus says "none".
EvidenceRow(n) ==
    /\ pc[n] = "row" /\ Free(n)
    /\ \E r \in IF tool[n] = "active_focus" THEN todo[n] ELSE Records :
         \/ /\ r \in live
            /\ found' = [found EXCEPT ![n] = {Metadata(r)}]
            /\ todo' = [todo EXCEPT ![n] = {r}]
            /\ Goto(n, "chunks") /\ Take(n)
            /\ UNCHANGED outcome
         \/ /\ r \notin live
            /\ Return(n, IF tool[n] = "active_focus" THEN "ok" ELSE "refused")
            /\ UNCHANGED found
    /\ UNCHANGED <<tool, route, log, ledger, sinceVars>>

\* Its second statement: the chunks, none if the record is gone by now.
Chunks(n) ==
    /\ pc[n] = "chunks"
    /\ found' = [found EXCEPT ![n] =
                   IF tool[n] = "source_evidence_raw"
                   THEN {IF h.record \in live THEN Cited(h.record) ELSE h : h \in @} ELSE @]
    /\ Return(n, "ok")
    /\ UNCHANGED <<tool, route, log, ledger, sinceVars>>

\* timeline, delta, recall and explain_retrieval: one statement, no capture text.
Read(n) ==
    /\ pc[n] = "read" /\ Free(n)
    /\ Return(n, "ok")
    /\ UNCHANGED <<tool, route, found, log, ledger, sinceVars>>

\* remember_decision and feedback persist before they are audited.
Write(n) ==
    /\ pc[n] = "write" /\ Free(n)
    /\ ledger' = ledger \cup {n}
    /\ Return(n, "ok")
    /\ UNCHANGED <<tool, route, found, log, sinceVars>>

Audit(n) ==
    /\ pc[n] = "audit" /\ guard = NoCall
    /\ log' = log \cup {[call |-> n, outcome |-> outcome[n],
                         raw |-> outcome[n] = "ok" /\ tool[n] \in RawTools]}
    /\ Goto(n, "answer")
    /\ UNCHANGED <<tool, route, found, todo, outcome, guard, ledger, sinceVars>>

\* Regression: an audit row that cannot be written is passed over.
AuditFailsQuietly(n) ==
    /\ pc[n] = "audit" /\ guard = NoCall
    /\ Goto(n, "answer")
    /\ UNCHANGED <<tool, route, found, todo, outcome, guard, log, ledger, sinceVars>>

\* A failed audit write fails the call, whatever it did.
AuditFails(n) ==
    /\ pc[n] = "audit" /\ guard = NoCall
    /\ Goto(n, "failed")
    /\ found' = [found EXCEPT ![n] = {}]
    /\ UNCHANGED <<tool, route, todo, outcome, guard, log, ledger, sinceVars>>

\* audit has returned the handler's result; the caller gets it.
Answer(n) ==
    /\ pc[n] = "answer"
    /\ Goto(n, outcome[n])
    /\ UNCHANGED <<tool, route, found, todo, outcome, guard, log, ledger, sinceVars>>

\* Ctrl-C: the server's calls end where they are, and with them what was kept of them.
ServerStops ==
    LET cut(n) == Mcp(n) /\ pc[n] \in Stages
    IN  /\ \E n \in Calls : cut(n)
        /\ pc' = [n \in Calls |-> IF cut(n) THEN "dead" ELSE pc[n]]
        /\ found' = [n \in Calls |-> IF cut(n) THEN {} ELSE found[n]]
        /\ todo' = [n \in Calls |-> IF cut(n) THEN {} ELSE todo[n]]
        /\ guard' = NoCall
        /\ held' = [n \in Calls |-> IF cut(n) THEN {} ELSE held[n]]
        /\ steady' = [n \in Calls |-> IF cut(n) THEN {} ELSE steady[n]]
        /\ UNCHANGED <<tool, route, outcome, log, ledger>>

-----------------------------------------------------------------------------
\* The owner.  Of a deletion a reader sees only which records it takes.  What
\* it does when no call reads any more is of no interest (bound).
OwnerNext ==
    /\ \E n \in Calls : pc[n] \notin Ended \cup {"audit", "answer"}
    /\ \/ \E r \in Records : InsertCapture(r) \/ MergeCapture(r)
       \/ StartFlush("once")
       \/ \E ids \in SUBSET Records \ {{}} : StartDelete([kind |-> "records", ids |-> ids])
       \/ StartRebuild
       \/ OwnerStep
       \/ Interrupt
    /\ held' = [n \in Calls |-> IF pc[n] \in Stages THEN held[n] \cup Truth' ELSE held[n]]
    /\ steady' = [n \in Calls |-> IF pc[n] \in Stages THEN steady[n] \cap Current' ELSE steady[n]]
    /\ UNCHANGED callVars

CallStep(n) ==
    \/ HandlerFails(n) \/ Keyword(n) \/ Vector(n) \/ VectorFails(n)
    \/ Snippet(n) \/ SnippetsDone(n) \/ PackOne(n) \/ PackDone(n)
    \/ Latest(n) \/ EvidenceRow(n) \/ Chunks(n) \/ Read(n) \/ Write(n)
    \/ Audit(n) \/ AuditFails(n) \/ Answer(n)

ReaderNext ==
    /\ \/ \E n \in Calls, t \in Tools : Call(n, t)
       \/ \E n \in Calls : CallStep(n)
       \/ ServerStops
    /\ UNCHANGED vars

ReadersNext == OwnerNext \/ ReaderNext

ReadersSpec == ReadersInit /\ [][ReadersNext]_<<vars, readerVars>>

\* A call that was begun is carried on.
FairReadersSpec ==
    ReadersSpec /\ \A n \in Calls : WF_<<vars, readerVars>>(CallStep(n) /\ UNCHANGED vars)

-----------------------------------------------------------------------------
(* Properties                                                              *)

\* No answer shows what a deletion completed before the call had erased: every
\* record it names, and every text, was in SQLite at some moment of the call,
\* although hits come from the index and snippets later from SQLite.
AnswerWasTrue == \A n \in Calls : pc[n] = "ok" => \A h \in found[n] :
    /\ h.record \in {p.record : p \in held[n]}
    /\ h.text # {} => [record |-> h.record, text |-> h.text] \in held[n]

\* A search of a server with vectors, and a desktop search that shows its vector route as
\* available, misses no record that was stamped as indexed throughout the call (no silent
\* degradation), rebuilds and deletions of other records notwithstanding.
Promises(n) == \/ tool[n] = "search" /\ VectorRoute
               \/ tool[n] = "desktop" /\ route[n] = "available"

SearchIsComplete == \A n \in Calls :
    Promises(n) /\ pc[n] = "ok" => steady[n] \subseteq Seen(n)

\* A chunk is shown once, whichever routes find it and however many rows an
\* interrupted flush left of it.
EachChunkOnce == \A n \in Calls : \A g, h \in found[n] :
    g.record = h.record => g = h

\* The audit log and the callers agree wherever the server stops.  Nothing is answered
\* before its row is committed: an answered call has one row, with its outcome.  A call
\* reported as failed has none, and one the server died in has one at most, with what
\* its handler returned.  The tools that declare a release of raw text make none without
\* the flag, and no refusal is logged as a release.
LogIsExact(n) ==
    LET mine == {e \in log : e.call = n}
        raw  == tool[n] \in RawTools /\ \E h \in found[n] : h.text # {}
    IN  /\ pc[n] \in {"answer", "ok", "refused"} /\ Mcp(n) =>
             \E e \in mine : raw => e.raw
        /\ pc[n] \in {"ok", "refused"} /\ Mcp(n) => outcome[n] = pc[n]
        /\ \A e \in mine : mine = {e} /\ e.outcome = outcome[n]
        /\ pc[n] \notin {"answer", "ok", "refused", "dead"} => mine = {}
        /\ \A e \in mine : e.raw => e.outcome = "ok"

AuditIsExact == \A n \in Calls : LogIsExact(n)

\* Every call returns: none waits for ever for the server's mutex.
CallReturns == \A n \in Calls : pc[n] \in Stages ~> pc[n] \in Ended
=============================================================================
