-------------------------- MODULE CapturePipeline --------------------------
(***************************************************************************)
(* One tick after the other through the staged capture pipeline            *)
(* (pipeline.rs, dedup.rs) with its privacy gate and its sink              *)
(* (capture_adapters.rs, write_path.rs), while the operator switches       *)
(* windows.                                                                *)
(*                                                                         *)
(* A screen is what the foreground shows: an application identity, an      *)
(* image, a text.  Images are points on a line, so that near is not        *)
(* transitive; a signature is the application of the context with the text *)
(* of the frame.  Time passes between ticks and is kept as ages.           *)
(***************************************************************************)
EXTENDS Integers, Sequences

CONSTANTS Screens,      \* the screens the operator may show
          AppOf,        \* AppOf[s]: name and title
          ImageOf,      \* ImageOf[s]: the perceptual signature
          TextOf,       \* TextOf[s]: the cleaned OCR text, or the URL
          Blocked,      \* screens the safety gate skips by their metadata
          SkipFrame, UrlOnly,  \* screens the admission policy does not capture
          SafeText,     \* the texts the final privacy check lets through
          Threshold,    \* PerceptualDeduper.threshold
          Window,       \* semantic_dedup_window_ms
          MaySwitch     \* TRUE iff the operator may switch during a tick

ASSUME PipelineAssumption ==
    /\ ImageOf \in [Screens -> Int]
    /\ Threshold \in Nat \ {0} /\ Window \in Nat /\ MaySwitch \in BOOLEAN

None       == "none"
HashHistory == 3
Apps       == {AppOf[s] : s \in Screens}
Signatures == Apps \X {TextOf[s] : s \in Screens}
Age        == 0..(Window + 1)     \* Window + 1: longer ago than the window, or never
GateSkips   == {"PreCapturePrivacy", "PrivateBrowsing"}
GrabFailures == {"ScreenRecordingOrCaptureUnavailable", "CaptureFailed",
                 "MissingPerceptualSignature"}
SkipReasons == GateSkips \cup GrabFailures \cup
               {"MetadataUnavailable", "AdmissionPolicy", "PerceptualDuplicate", "OcrFailed",
                "LowSignal", "SemanticDuplicate", "FinalPrivacy", "PersistenceFailed"}

VARIABLES
    screen,   \* what the foreground shows now
    pc,       \* the stage the tick is in
    context,  \* the screen the metadata was read from
    frame,    \* the screen the pixels were grabbed from
    last,     \* PerceptualDeduper.last
    recent,   \* PerceptualDeduper.recent
    seen,     \* SemanticDedupWindow.seen_at_ms, as ages
    outcome   \* the outcome of the last tick, until the next one begins

\* Auxiliary.
VARIABLES
    stored,   \* ages of the last stored capture of each signature
    evidence  \* the screens whose text or title a stored record carries

dedupVars == <<last, recent, seen>>
auxVars   == <<stored, evidence>>
vars == <<screen, pc, context, frame, dedupVars, outcome, auxVars>>

TypeOK ==
    /\ screen \in Screens
    /\ pc \in {"idle", "grab", "perceptual", "ocr", "semantic", "url", "persist"}
    /\ context \in Screens \cup {None} /\ frame \in Screens \cup {None}
    /\ last \in Screens \cup {None}
    /\ recent \in Seq(Screens) /\ Len(recent) <= HashHistory
    /\ seen \in [Signatures -> Age]
    /\ outcome \in SkipReasons \cup {"Stored", "UrlOnlyStored", None}
    /\ stored \in [Signatures -> Age]
    /\ evidence \subseteq Screens

Init ==
    /\ screen \in Screens
    /\ pc = "idle" /\ context = None /\ frame = None
    /\ last = None /\ recent = <<>>
    /\ seen = [g \in Signatures |-> Window + 1]
    /\ outcome = None
    /\ stored = seen /\ evidence = {}

\* CaptureCounters::record: a tick ends in one outcome.
End(o) == pc' = "idle" /\ context' = None /\ frame' = None /\ outcome' = o

-----------------------------------------------------------------------------
(* The stages of run_tick_inner                                            *)

MetadataFails ==
    /\ pc = "idle"
    /\ End("MetadataUnavailable")
    /\ UNCHANGED <<screen, dedupVars, auxVars>>

\* The gate and the admission policy decide on the metadata just read.
ReadContext ==
    /\ pc = "idle"
    /\ IF screen \in Blocked THEN \E reason \in GateSkips : End(reason)
       ELSE IF screen \in SkipFrame THEN End("AdmissionPolicy")
       ELSE /\ pc' = IF screen \in UrlOnly THEN "url" ELSE "grab"
            /\ context' = screen /\ outcome' = None
            /\ UNCHANGED frame
    /\ UNCHANGED <<screen, dedupVars, auxVars>>

\* The pixels are those of the display at the time of the grab.
Grab ==
    /\ pc = "grab"
    /\ \/ pc' = "perceptual" /\ frame' = screen /\ UNCHANGED <<context, outcome>>
       \/ \E reason \in GrabFailures : End(reason)
    /\ UNCHANGED <<screen, dedupVars, auxVars>>

Distance(s, t) == LET d == ImageOf[s] - ImageOf[t] IN IF d < 0 THEN -d ELSE d
LoopThreshold  == IF Threshold > 1 THEN Threshold - 1 ELSE 1

PerceptualDuplicate(s) ==
    \/ last # None /\ Distance(s, last) < Threshold
    \/ \E i \in 1..Len(recent) : Distance(s, recent[i]) < LoopThreshold

\* Both histories take the frame, duplicate or not.
Perceptual ==
    /\ pc = "perceptual"
    /\ IF PerceptualDuplicate(frame) THEN End("PerceptualDuplicate")
       ELSE pc' = "ocr" /\ UNCHANGED <<context, frame, outcome>>
    /\ last' = frame
    /\ recent' = LET r == Append(recent, frame)
                 IN  IF Len(r) > HashHistory THEN Tail(r) ELSE r
    /\ UNCHANGED <<screen, seen, auxVars>>

Recognize ==
    /\ pc = "ocr"
    /\ \/ pc' = "semantic" /\ UNCHANGED <<context, frame, outcome>>
       \/ End("OcrFailed")
       \/ End("LowSignal")
    /\ UNCHANGED <<screen, dedupVars, auxVars>>

\* A URL-only capture has no frame: its text comes from the metadata.
Evidence  == IF frame = None THEN context ELSE frame
Signature == <<AppOf[context], TextOf[Evidence]>>

\* SemanticDedupWindow::should_skip
SeenRecently(g) == seen[g] <= Window

\* Regression: only a duplicate refreshes the window.
SemanticForgetsNew ==
    /\ pc \in {"semantic", "url"}
    /\ IF SeenRecently(Signature)
       THEN End("SemanticDuplicate") /\ seen' = [seen EXCEPT ![Signature] = 0]
       ELSE pc' = "persist" /\ UNCHANGED <<context, frame, outcome, seen>>
    /\ UNCHANGED <<screen, last, recent, stored, evidence>>

\* A duplicate refreshes the window as a new signature does: one that keeps coming
\* is suppressed for as long as it does.
Semantic ==
    /\ pc \in {"semantic", "url"}
    /\ IF SeenRecently(Signature)
       THEN End("SemanticDuplicate")
       ELSE pc' = "persist" /\ UNCHANGED <<context, frame, outcome>>
    /\ seen' = [seen EXCEPT ![Signature] = 0]
    /\ UNCHANGED <<screen, last, recent, stored, evidence>>

\* The sink rechecks the metadata and checks the text before its transaction.
Persist ==
    /\ pc = "persist"
    /\ \/ /\ context \notin Blocked /\ TextOf[Evidence] \in SafeText
          /\ End(IF frame = None THEN "UrlOnlyStored" ELSE "Stored")
          /\ stored' = [stored EXCEPT ![Signature] = 0]
          /\ evidence' = evidence \cup {context, Evidence}
       \/ /\ context \in Blocked \/ TextOf[Evidence] \notin SafeText
          /\ End("FinalPrivacy")
          /\ UNCHANGED <<stored, evidence>>
       \/ End("PersistenceFailed") /\ UNCHANGED <<stored, evidence>>
    /\ UNCHANGED <<screen, dedupVars>>

-----------------------------------------------------------------------------
(* The operator and time                                                   *)

Switch ==
    /\ pc = "idle" \/ MaySwitch
    /\ screen' \in Screens \ {screen}
    /\ UNCHANGED <<pc, context, frame, dedupVars, outcome, auxVars>>

Older(ages) == [g \in Signatures |-> IF ages[g] <= Window THEN ages[g] + 1 ELSE ages[g]]

TimePasses ==
    /\ pc = "idle"
    /\ seen' = Older(seen) /\ stored' = Older(stored)
    /\ UNCHANGED <<screen, pc, context, frame, last, recent, outcome, evidence>>

Next ==
    \/ MetadataFails \/ ReadContext \/ Grab \/ Perceptual \/ Recognize \/ Semantic
    \/ Persist \/ Switch \/ TimePasses

Spec == Init /\ [][Next]_vars

-----------------------------------------------------------------------------
(* Properties                                                              *)

\* No bursts: two stored captures with one signature are further apart than the
\* semantic window, across frames, URL-only captures and failed attempts.
NoStoredBurst ==
    [][\A g \in Signatures :
          pc = "persist" /\ outcome' \in {"Stored", "UrlOnlyStored"} /\ pc' = "idle"
          /\ g = Signature => stored[g] > Window]_vars

\* PRD.md:61, server.rs:802: what is blocked never enters storage.
BlockedNeverStored == evidence \cap Blocked = {}
=============================================================================
