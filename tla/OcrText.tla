------------------------------ MODULE OcrText ------------------------------
(***************************************************************************)
(* From the lines Apple Vision recognizes to the text of a frame           *)
(* (vision.rs).  Vision itself is external: it delivers observations, each *)
(* the sequence of its candidates [text, conf], conf in hundredths.        *)
(*                                                                         *)
(* A text is what its rules measure: `name` its identity in lower case,    *)
(* `words`, the counts `bytes`, `chars`, `alnum` and `symbols` (neither    *)
(* alphanumeric nor space), the substrings it `spells`, the prefixes it    *)
(* `opens` with, and the `form` of the whole ("prose" when it has none).   *)
(* A line is a text that may be `marked` as of low confidence.             *)
(***************************************************************************)
EXTENDS SafetyGate, LineSequences

CONSTANTS LineCap,        \* 220: lines normalize_text keeps
          MinLineLength   \* OcrConfig.min_line_length, in bytes

ASSUME OcrAssumption == LineCap \in Nat \ {0} /\ MinLineLength \in Nat

DropThreshold    == 40
LowConfThreshold == 65
-----------------------------------------------------------------------------
\* extract_raw_lines: the best candidate of each observation that has one.
ExtractRawLines(observations) ==
    LET best == Map(Select(observations, LAMBDA o : o # <<>>), LAMBDA o : Head(o))
    IN  Select(best, LAMBDA l : l.text.words # <<>>)

(* preprocess_ocr_for_qwen: the threshold, then repeated neighbours, then  *)
(* the marker.                                                             *)

Legible(raw) ==
    Select(raw, LAMBDA l : l.conf >= DropThreshold /\ l.text.words # <<>>)

Preprocess(raw) ==
    Map(Unrepeated(Legible(raw), LAMBDA l : l.text.name),
        LAMBDA l : [text |-> l.text, marked |-> l.conf < LowConfThreshold])

\* The text of a line with its marker, "[LOW_CONF] ": the rules that look at the
\* beginning or at the whole of a line no longer find what they look for.
Printed(line) ==
    IF ~line.marked THEN line.text
    ELSE [line.text EXCEPT !.words = <<"[low_conf]">> \o @, !.bytes = @ + 11,
                           !.chars = @ + 11, !.alnum = @ + 7, !.symbols = @ + 3,
                           !.opens = {}, !.form = "prose"]
-----------------------------------------------------------------------------
(* NoiseFilter::is_noise with the default configuration                    *)

BasePatterns == {"File Edit View Window Help", "Apple Inc.", "System Settings",
                 "System Preferences", "Finder", "com.apple.", "com.google.",
                 "com.microsoft.", "AM", "PM", "Version", "Build", "Copyright",
                 "All Rights Reserved", "Sign in", "Sign up", "Log in", "Log out",
                 "Forgot password", "Loading...", "Please wait", "OK", "Cancel"}

UiWords == {"close", "minimize", "maximize", "menu", "settings", "preferences", "about",
            "help", "quit", "exit", "new", "open", "save", "print", "copy", "paste", "cut",
            "undo", "redo", "search", "find"}

Weekdays == {"Mon", "Tue", "Wed", "Thu", "Fri", "Sat", "Sun"}
Months   == {"Jan", "Feb", "Mar", "Apr", "May", "Jun", "Jul", "Aug", "Sep", "Oct", "Nov", "Dec"}

IsNoise(text) ==
    \/ Spells(text, BasePatterns)
    \/ 2 * text.alnum < text.chars
    \/ Len(text.words) = 1 /\ Head(text.words) \in UiWords
    \/ text.form \in {"clock", "percentage", "size"}
    \/ text.opens \cap Weekdays # {} /\ text.bytes < 20
    \/ Spells(text, Months) /\ text.bytes < 15

\* normalize_text
Normalize(lines) ==
    LET kept == Select(lines, LAMBDA l : /\ Printed(l).bytes >= MinLineLength
                                         /\ ~IsNoise(Printed(l)))
        once == FirstOccurrences(kept, LAMBDA l : <<l.text.name, l.marked>>)
    IN  SubSeq(once, 1, IF Len(once) < LineCap THEN Len(once) ELSE LineCap)

\* recognize_with_metadata: the confidence is the average of every line.
Recognize(raw) ==
    [lines      |-> Normalize(Preprocess(raw)),
     confidence |-> IF raw = <<>> THEN 0
                    ELSE Total(Map(raw, LAMBDA l : l.conf)) \div Len(raw),
     blocks     |-> Len(Preprocess(raw))]
-----------------------------------------------------------------------------
(* Whether a frame has enough evidence                                     *)

\* text_volume_qualifies: it can only admit.
TextVolumeQualifies(chars, confidence, blocks) ==
    \/ chars >= 400 /\ confidence >= 35
    \/ chars >= 200 /\ blocks >= 10 /\ confidence >= 35
    \/ chars >= 80 /\ blocks >= 5 /\ confidence >= 55

LineChars(texts) ==
    Total(Map(texts, LAMBDA t : t.chars)) + (IF texts = <<>> THEN 0 ELSE Len(texts) - 1)

\* Regression: what the volume does not admit is rejected.
IsLowSignalByVolume(texts, confidence, blocks, minChars) ==
    \/ LineChars(texts) < minChars
    \/ confidence < 15
    \/ ~TextVolumeQualifies(LineChars(texts), confidence, blocks)

\* is_low_signal, of the texts that are left without their markers.
IsLowSignal(texts, confidence, blocks, minChars) ==
    \/ LineChars(texts) < minChars
    \/ confidence < 15
    \/ /\ ~TextVolumeQualifies(LineChars(texts), confidence, blocks)
       /\ blocks <= 1 /\ confidence < 35
=============================================================================
