-------------------------- MODULE CaptureEvidence --------------------------
(***************************************************************************)
(* What the vault says after a capture: what is in front through the       *)
(* metadata, the gate and the admission policy, the frame's lines through  *)
(* recognition and cleanup (capture_adapters.rs), then the recheck, the    *)
(* redaction and the insert or merge of the write path (write_path.rs).    *)
(* CapturePipeline has the stages this module leaves out: duplicates,      *)
(* failures, switches.                                                     *)
(*                                                                         *)
(* One capture runs at a time.  The vault is kept in the order of          *)
(* captured_at_ms; a record stays open to a merge until it is flushed or   *)
(* 45 minutes old.                                                         *)
(***************************************************************************)
EXTENDS Foreground, CaptureAdmission, SignalCleanup, Continuity

CONSTANTS Screens,      \* what may be in front: [app, bundle, title, url]
          Frames,       \* what Vision may deliver: sequences of observations
          Entries,      \* what the user typed into the blocklist: [apps, domains]
          MinOcrChars,  \* min_ocr_chars
          LongestLine,  \* no line to be stored has more characters
          Placeholder,  \* the line "[REDACTED: secret pattern]"
          MaxCaptures   \* bound: captures that reach the vault

\* What a rule reads of a title, a line, a location.
AnyText ==
    [name : Seq(STRING), words : Seq(STRING), spells : SUBSET STRING, opens : SUBSET STRING,
     form : STRING, bytes : Nat, chars : Nat, alnum : Nat, symbols : Nat, middots : Nat,
     pipes : Nat, longest : Nat, pathish : Nat]
AnyUrl ==
    [scheme : STRING, host : Seq(STRING), path : Seq(STRING), query : SUBSET STRING,
     spells : SUBSET STRING, hidden : SUBSET STRING]

ASSUME InputsAssumption ==
    /\ Screens \subseteq [app : [words : Seq(STRING), spells : SUBSET STRING],
                          bundle : Seq(STRING), title : AnyText, url : AnyUrl]
    /\ Tabs \in [DOMAIN ScriptedBundle -> [title : AnyText, url : AnyUrl]]
    /\ NoTitle \in AnyText /\ NoUrl \in AnyUrl   \* no backend types the literal ""
    /\ Frames \subseteq Seq(Seq([text : AnyText, conf : Nat]))

ASSUME WritePathAssumption ==
    /\ Vector = 0
    /\ Placeholder \in AnyText /\ ~HasSecret(Placeholder)

VARIABLES
    pc,       \* "idle", "ocr" or "persist"
    context,  \* the metadata of the capture, read at its start
    payload,  \* the text to persist
    vault,    \* records: [app, url, title, text, open] and, auxiliary, what they come
              \* from: the contexts, the names of the legible lines
    outcome   \* of the last capture

\* Auxiliary.
VARIABLES
    raw,      \* the lines of the last frame
    captures  \* captures that reached the vault (bound)

vars == <<pc, context, payload, vault, outcome, raw, captures>>

Nothing   == <<>>
Blocklist == NewBlocklist(Entries)

Init ==
    /\ pc = "idle" /\ context = Nothing /\ payload = <<>>
    /\ vault = <<>> /\ outcome = "none"
    /\ raw = <<>> /\ captures = 0

End(o) ==
    pc' = "idle" /\ context' = Nothing /\ payload' = <<>> /\ outcome' = o

\* The line a URL is stored as: about ten characters for each of its parts.
UrlText(url) ==
    LET parts == url.host \o url.path
    IN  [name |-> <<url.scheme>> \o parts, words |-> parts, spells |-> url.spells,
         bytes |-> 10 * Len(parts), chars |-> 10 * Len(parts)]

\* Gate and admission, on the metadata alone (PrivacyGate::evaluate).
Look(s) ==
    /\ pc = "idle" /\ captures < MaxCaptures
    /\ raw' = <<>>
    /\ LET c       == CurrentContext(s)
           verdict == Evaluate(c, <<>>, Blocklist)
       IN  IF ~Readable(c) THEN End("MetadataUnavailable")
           ELSE IF verdict = "PrivateBrowsing" THEN End("PrivateBrowsing")
           ELSE IF SkipsStorage(verdict) THEN End("PreCapturePrivacy")
           ELSE IF Classify(c) = "SkipFrame" THEN End("AdmissionPolicy")
           ELSE IF Classify(c) = "Normal"
           THEN /\ pc' = "ocr" /\ context' = c
                /\ UNCHANGED <<payload, outcome>>
           ELSE IF SanitizeUrlForStorage(c.url) = NoUrl THEN End("PersistenceFailed")
           ELSE /\ pc' = "persist" /\ context' = c
                /\ payload' = <<c.title, UrlText(SanitizeUrlForStorage(c.url))>>
                /\ UNCHANGED outcome
    /\ UNCHANGED <<vault, captures>>

\* VisionOcrAdapter::recognize
ReadFrame(observations) ==
    /\ pc = "ocr"
    /\ LET lines == ExtractRawLines(observations)
           ocr  == Recognize(lines)
           kept == BuildHighSignal(AppClass(context.app, context.bundle), ocr.lines)
       IN  /\ raw' = lines
           /\ IF IsLowSignal(kept, ocr.confidence, ocr.blocks, MinOcrChars) THEN End("LowSignal")
              ELSE pc' = "persist" /\ payload' = kept /\ UNCHANGED <<context, outcome>>
    /\ UNCHANGED <<vault, captures>>
-----------------------------------------------------------------------------
(* persist_capture                                                         *)

Incoming(lines) ==
    [app |-> context.app, title |-> context.title, text |-> lines, open |-> TRUE,
     url |-> SanitizeUrlForStorage(context.url), contexts |-> {context},
     legible |-> {l.text.name : l \in ToSet(Legible(raw))}]

Candidates(record) == {i \in DOMAIN vault : vault[i].open /\ ShouldMerge(record, vault[i])}

\* The record takes the metadata of the newest capture, and its place.
Merge(record, i) ==
    Append(RemoveAt(vault, i),
           [record EXCEPT !.text     = MergeStoryText(vault[i].text, record.text),
                          !.contexts = @ \cup vault[i].contexts,
                          !.legible  = @ \cup vault[i].legible])

\* Regression: the lines are stored as they were read.
PersistUnredacted ==
    /\ pc = "persist"
    /\ LET verdict == Evaluate(context, payload, Blocklist)
           record  == Incoming(payload)
           stories == Candidates(record)
       IN  IF SkipsStorage(verdict) THEN End("FinalPrivacy") /\ UNCHANGED vault
           ELSE IF stories # {}
           THEN End("Merged") /\ vault' = Merge(record, Max(stories))
           ELSE End("Stored") /\ vault' = Append(vault, record)
    /\ captures' = captures + 1 /\ raw' = <<>>

\* The newest candidate that is the same story takes the capture.
Persist ==
    /\ pc = "persist"
    /\ LET verdict == Evaluate(context, payload, Blocklist)
           record  == Incoming(IF verdict = "Redact" THEN RedactSecretLines(payload, Placeholder)
                               ELSE payload)
           stories == Candidates(record)
       IN  IF SkipsStorage(verdict) THEN End("FinalPrivacy") /\ UNCHANGED vault
           ELSE IF stories # {}
           THEN End("Merged") /\ vault' = Merge(record, Max(stories))
           ELSE End("Stored") /\ vault' = Append(vault, record)
    /\ captures' = captures + 1 /\ raw' = <<>>

\* A flush takes the record, or it grows older than the continuity window.
Close(i) ==
    /\ pc = "idle" /\ vault[i].open
    /\ vault' = [vault EXCEPT ![i].open = FALSE]
    /\ UNCHANGED <<pc, context, payload, outcome, raw, captures>>

Next ==
    \/ \E s \in Screens : Look(s)
    \/ \E observations \in Frames : ReadFrame(observations)
    \/ Persist
    \/ \E i \in DOMAIN vault : Close(i)

Spec == Init /\ [][Next]_vars
-----------------------------------------------------------------------------
(* Properties                                                              *)

\* What may be read of the screens.
Contexts == {CurrentContext(s) : s \in Screens}

\* Hypothesis: no title that is read is its own location.
TitlesAreNoPlaces ==
    \A c \in Contexts : c.title.name # UrlText(SanitizeUrlForStorage(c.url)).name

\* Hypothesis: a frame has no more lines than normalize_text keeps; a line has no more
\* characters than bytes, a path in it is a symbol in it, and one that differs from
\* another in case only measures the same.
LinesAreTexts ==
    \A observations \in Frames : LET lines == ExtractRawLines(observations) IN
        /\ Len(lines) <= LineCap
        /\ \A l, m \in ToSet(lines) :
              /\ l.text.chars <= l.text.bytes /\ l.text.chars <= LongestLine
              /\ l.text.symbols = 0 => l.text.pathish = 0
              /\ l.text.name = m.text.name => l.text = m.text

\* Hypothesis: LongestLine is a bound of what is stored besides.
LongestLineBounds ==
    /\ LongestLine \in Nat /\ Bullet.chars <= LongestLine /\ Placeholder.chars <= LongestLine
    /\ \A c \in Contexts : Classify(c) = "UrlOnly" =>
          /\ c.title.chars <= LongestLine
          /\ UrlText(SanitizeUrlForStorage(c.url)).chars <= LongestLine

\* Hypothesis: a segment worth merging (12 bytes) is enough for a frame (12 characters)
\* and for a line (7 bytes).
SegmentsAreEnough == MinOcrChars \in 0 .. MinSegment /\ MinLineLength \in 0 .. MinSegment

Records == {vault[i] : i \in DOMAIN vault}

\* write_path.rs:47, safety_gate.rs:259: of what the gate refuses by the metadata it reads
\* nothing is ever in the vault, alone or merged into another capture; no line of the text
\* has a secret, and no stored URL its query or its hidden parts.
PrivateStaysOut ==
    \A r \in Records :
        /\ \A c \in r.contexts : Skips(c, Blocklist) = {}
        /\ \A i \in DOMAIN r.text : ~HasSecret(r.text[i])
        /\ r.url.query = {} /\ r.url.hidden = {}

\* Where the text says something.
Wording(r) == {i \in DOMAIN r.text : r.text[i] \notin {Bullet, Placeholder}}

\* cleanup.rs:6, vision.rs:686: what a record says was legible on a frame of it, or is the
\* title or the place of it; it says it once, and none of it is chrome.
TextIsEvidence ==
    \A r \in Records :
        /\ \A i, j \in Wording(r) : r.text[i].name = r.text[j].name => i = j
        /\ \A i \in Wording(r) : LET t == r.text[i] IN
              \/ \E c \in r.contexts :
                    t = c.title \/ t = UrlText(SanitizeUrlForStorage(c.url))
              \/ /\ t.name \in r.legible
                 /\ \E c \in r.contexts : ~ShouldDrop(AppClass(c.app, c.bundle), t)

SiteOf(c) == SanitizeUrlForStorage(c.url).host

\* continuity.rs:162: a story stays on one site, or in one application where no site is
\* read; what deletes the site therefore deletes all of the story.
StoryStaysOnSite ==
    \A r \in Records : \A c, d \in r.contexts :
        SiteOf(c) = SiteOf(d) /\ (SiteOf(c) = <<>> => c.app = d.app)

\* A clean line of prose at the confidence Vision gives to legible text.
IsProse(class, line) ==
    /\ line.conf >= 50 /\ line.text.chars >= MinSegment /\ line.text.symbols = 0
    /\ line.text.form = "prose" /\ ~IsNoise(line.text) /\ ~ShouldDrop(class, line.text)
    /\ ~HasSecret(line.text)
Prose(lines) == {l.text.name : l \in {x \in ToSet(lines) :
                                       IsProse(AppClass(context.app, context.bundle), x)}}

Says(r)  == {r.text[i].name : i \in DOMAIN r.text}
AllSaid  == UNION {Says(r) : r \in Records}
AtCap    == \E r \in Records : TextChars(r.text) + LongestLine > StoryCap

\* What a frame says when it has no evidence, and what the vault says after a capture.
KeepsProse ==
    /\ pc = "ocr" /\ pc' = "idle" /\ Recognize(raw').confidence >= 35 => Prose(raw') = {}
    /\ pc = "persist" /\ outcome' \in {"Stored", "Merged"} /\ ~AtCap'
         => AllSaid \cup Prose(raw) \subseteq AllSaid'

\* vision.rs:151, continuity.rs:207: a frame with a line of prose and a usable confidence
\* is not low signal, what it says is in the vault once it is stored, and a merge drops
\* nothing a story said; only a story at its cap loses text.
ProseIsKept == [][KeepsProse]_vars
=============================================================================
