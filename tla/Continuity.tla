---------------------------- MODULE Continuity ----------------------------
(***************************************************************************)
(* When two captures are one story, and what the story then says           *)
(* (continuity.rs).  A record is [app, url, title, text]: the write path   *)
(* uses the title as snippet and the text as lexical shadow.               *)
(*                                                                         *)
(* A text is a sequence of lines without sentence marks, so that a line is *)
(* a segment; scores are integers in ten-thousandths, rounded down.        *)
(***************************************************************************)
EXTENDS Integers, Sequences, FiniteSets, FiniteSetsExt, SequencesExt, LineSequences

CONSTANTS StoryCap,     \* 6400: characters of a merged text
          Vector        \* similarity of the embeddings: 0 in the write path

ASSUME ContinuityAssumption == StoryCap \in Nat /\ Vector \in 0..10000

\* The separator of merged segments.
Bullet == [name |-> <<"bullet">>, words |-> <<>>, spells |-> {}, bytes |-> 5, chars |-> 3]

StopWords == {"the", "and", "for", "with", "this", "that", "from", "your", "you", "are", "was",
    "were", "have", "has", "into", "about", "after", "before", "then", "just", "there", "here",
    "user", "app", "window", "tab", "page", "open", "opened", "search", "searched", "www",
    "http", "https", "com"}

\* The tokens of more than two characters, which is what `words` holds of a title or a line.
WordsOf(text)   == ToSet(text.words) \ StopWords
TokensOf(lines) == UNION {WordsOf(lines[i]) : i \in DOMAIN lines}
TextChars(lines) == Total(Map(lines, LAMBDA l : l.chars))
-----------------------------------------------------------------------------
(* Anchors: a site and at most three path segments, or a title             *)

FirstSegments(path) == SubSeq(path, 1, IF Len(path) < 3 THEN Len(path) ELSE 3)

AnchorWords(title) ==
    LET words == SelectSeq(title.words, LAMBDA w : w \notin StopWords)
    IN  SubSeq(words, 1, IF Len(words) < 8 THEN Len(words) ELSE 8)

NoAnchor == <<"none">>

\* A title counts from eight characters of its words.
ContinuityAnchor(record) ==
    IF record.url.host # <<>>
    THEN <<"url", record.url.host, FirstSegments(record.url.path)>>
    ELSE IF AnchorWords(record.title) # <<>> /\ record.title.chars >= 8
         THEN <<"app", record.app.words, AnchorWords(record.title)>>
    ELSE NoAnchor

AnchorMatch(left, right) ==
    /\ ContinuityAnchor(left) # NoAnchor
    /\ ContinuityAnchor(left) = ContinuityAnchor(right)

SameDomain(left, right) == left.url.host # <<>> /\ left.url.host = right.url.host
-----------------------------------------------------------------------------
(* Scores and thresholds                                                   *)

EligibleForStoryMerge(record) ==
    \/ Total(Map(record.text, LAMBDA l : l.bytes)) >= 36
    \/ record.title.bytes >= 18

TokenOverlap(left, right) ==
    IF left = {} \/ right = {} THEN 0
    ELSE (10000 * Cardinality(left \cap right)) \div Cardinality(left \cup right)

\* Snippet 42 and title 26 are one text here, text 20 and shadow 12 another.
Lexical(left, right) ==
    (68 * TokenOverlap(WordsOf(left.title), WordsOf(right.title))
     + 32 * TokenOverlap(TokensOf(left.text), TokensOf(right.text))) \div 100

Score(left, right) ==
    (50 * Vector + 42 * Lexical(left, right)) \div 100
    + (IF SameDomain(left, right) THEN 800 ELSE 0)
    + (IF AnchorMatch(left, right) THEN 3200 ELSE 0)

\* Regression: similar words are enough.
PassesOnWords(left, right) == Lexical(left, right) >= 1800

PassesMergeThreshold(left, right) ==
    IF AnchorMatch(left, right)
    THEN Score(left, right) >= 5800 /\ Lexical(left, right) >= 1800
    ELSE \/ Lexical(left, right) >= 7200 /\ Score(left, right) >= 8000
         \/ /\ Score(left, right) >= 8600
            /\ Vector >= 8200 /\ Lexical(left, right) >= 2800

\* The 45 minutes are those within which candidates are read.
AllowsCrossAppMerge(left, right) ==
    \/ /\ left.url.host # <<>>
       /\ <<left.url.host, left.url.path>> = <<right.url.host, right.url.path>>
    \/ /\ SameDomain(left, right)
       /\ \/ AnchorMatch(left, right) /\ Lexical(left, right) >= 5200
          \/ Vector >= 9300 /\ Lexical(left, right) >= 7000

ShouldMerge(incoming, candidate) ==
    /\ EligibleForStoryMerge(incoming) /\ EligibleForStoryMerge(candidate)
    /\ incoming.app = candidate.app \/ AllowsCrossAppMerge(incoming, candidate)
    /\ PassesMergeThreshold(incoming, candidate)
-----------------------------------------------------------------------------
(* merge_story_text                                                        *)

Names(lines) == [i \in DOMAIN lines |-> lines[i].name]

SaysAllOf(whole, part) ==
    \E i \in 0..(Len(whole) - Len(part)) :
        SubSeq(Names(whole), i + 1, i + Len(part)) = Names(part)

\* trim_chars; a line that is cut is left out of the model's text.
TrimChars(lines) ==
    LET fits == {n \in 0..Len(lines) : TextChars(SubSeq(lines, 1, n)) <= StoryCap}
    IN  SubSeq(lines, 1, Max(fits))

MinSegment == 12

\* Segments are appended while the text is below the cap.
AppendSegments(existing, incoming) ==
    LET Skipped(text, l) ==
            l.bytes < MinSegment \/ SaysAllOf(text, <<l>>) \/ TextChars(text) >= StoryCap
        merged[i \in 0 .. Len(incoming)] ==
            IF i = 0 THEN existing
            ELSE IF Skipped(merged[i - 1], incoming[i]) THEN merged[i - 1]
            ELSE merged[i - 1] \o <<Bullet, incoming[i]>>
    IN  merged[Len(incoming)]

MergeStoryText(existing, incoming) ==
    TrimChars(IF incoming = <<>> \/ SaysAllOf(existing, incoming) THEN existing
              ELSE IF SaysAllOf(incoming, existing) THEN incoming
              ELSE AppendSegments(existing, incoming))
=============================================================================
