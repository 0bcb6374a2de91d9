------------------------- MODULE MCCaptureEvidence -------------------------
\* One article in two browsers and under a longer path, an article with the same
\* title elsewhere, an application whose name contains a browser's, a channel kept
\* by URL, and screens that must leave nothing: a bank, a portal, a sign-in, a
\* private window, a password manager, FNDR itself, an application the user blocks,
\* a feed, a browser no script can ask, a local page, a window without a title.
\* Behind them, every browser has another tab in front.  And screens of which the
\* code reads something else: a pre-release, for which the release behind it
\* answers, and a browser whose location is not asked for.
EXTENDS CaptureEvidence

Phrase(words, chars) ==
    [name |-> words, words |-> words, bytes |-> chars, chars |-> chars,
     alnum |-> chars - Len(words) + 1, symbols |-> 0, spells |-> {}, opens |-> {},
     form |-> "prose", middots |-> 0, pipes |-> 0, longest |-> chars, pathish |-> 0]

App(name) == [words |-> name,
              spells |-> ToSet(name) \cup (IF "knowledge" \in ToSet(name) THEN {"edge"} ELSE {})]
Url(host, path) == [NoUrl EXCEPT !.scheme = "https", !.host = host, !.path = path]
Screen(app, bundle, title, url) == [app |-> App(app), bundle |-> bundle, title |-> title,
                                    url |-> url]

Chrome == <<"google", "chrome">>
ChromeId == <<"com", "google", "chrome">>
Design == Phrase(<<"storage", "design", "notes">>, 20)
Untitled == Phrase(<<>>, 0)
Docs   == Url(<<"docs", "example", "com">>, <<"a", "b", "c">>)

Kept ==
    {Screen(Chrome, ChromeId, Design,
            [Docs EXCEPT !.query = {"session"}, !.hidden = {"token:"}]),
     Screen(<<"safari">>, <<"com", "apple", "safari">>, Design, Docs),
     Screen(Chrome, ChromeId, Phrase(<<"storage", "design", "review">>, 21),
            Url(Docs.host, <<"a", "b", "c", "d">>)),
     Screen(Chrome, ChromeId, Design, Url(<<"example", "org">>, <<"a">>)),
     Screen(<<"knowledge", "base">>, <<>>, Design, NoUrl)}

Listed ==
    {Screen(Chrome, ChromeId,
            [Phrase(<<"secret", "channel">>, 22) EXCEPT !.spells = {"token:"}],
            Url(<<"youtube", "com">>, <<"@">>))}

Refused ==
    {Screen(Chrome, ChromeId, Design, Url(<<"secure", "chase", "com">>, <<>>)),
     Screen(Chrome, ChromeId, Design, Url(<<"mychart", "org">>, <<>>)),
     Screen(Chrome, ChromeId, Design, [Docs EXCEPT !.hidden = {"oauth"}]),
     Screen(Chrome, ChromeId, [Design EXCEPT !.spells = {"private", "window"}], Docs),
     Screen(<<"1password">>, <<>>, Design, NoUrl),
     Screen(<<"fndr">>, <<"com", "fndr", "shell">>, Design, NoUrl),
     Screen(<<"family", "notes">>, <<>>, Design, NoUrl),
     Screen(Chrome, ChromeId, Design, Url(<<"wiki", "intra", "net">>, <<>>)),
     Screen(Chrome, ChromeId, Design, [Docs EXCEPT !.path = <<"search">>, !.query = {"q"}]),
     Screen(<<"firefox">>, <<"org", "mozilla", "firefox">>, Design, Docs),
     Screen(Chrome, ChromeId, Design, [Docs EXCEPT !.scheme = "file"]),
     Screen(<<"terminal">>, <<>>, Untitled, NoUrl)}

Behind == [k \in {"Safari", "Chrome", "Arc", "Brave", "Edge"} |->
              [title |-> Phrase(<<"weather">>, 7), url |-> Url(<<"example", "net">>, <<>>)]]

\* A pre-release of Chrome; a page in a browser that foreground.rs does not know; a
\* title with a secret in it.
PreReleases ==
    {Screen(<<"google", "chrome", "canary">>, <<"com", "google", "chrome", "canary">>, Design, Docs)}
Unknowns(url) == {Screen(<<"vivaldi">>, <<"com", "vivaldi", "vivaldi">>, Design, url)}
Titled ==
    {Screen(Chrome, ChromeId, [Phrase(<<"token:", "abc">>, 14) EXCEPT !.spells = {"token:"}], Docs)}

AllScreens == Kept \cup Listed \cup Refused \cup PreReleases \cup Unknowns(Docs) \cup Titled
UserTyped == [apps    |-> {<<"notes">>, <<>>},
              domains |-> {[Url(<<"", "intra", "net">>, <<>>) EXCEPT !.scheme = ""], NoUrl}]

At(text, conf) == [text |-> text, conf |-> conf]
Review == Phrase(<<"index", "rebuild", "drops", "table">>, 27)
Plan   == Phrase(<<"storage", "design", "keeps", "one", "owner">>, 29)
Long   == Phrase(<<"pending", "chunks", "wait", "until", "cadence", "flush", "index">>, 50)
Key    == [Phrase(<<"token:", "abc">>, 14) EXCEPT !.spells = {"token:"}, !.symbols = 1, !.alnum = 12]
TabStrip == [Phrase(<<"mail", "docs", "news">>, 18) EXCEPT !.middots = 2, !.longest = 5]
Short  == [Phrase(<<"brief">>, 4) EXCEPT !.bytes = 12]
Clock  == [Phrase(<<"10:30", "am">>, 8) EXCEPT !.form = "clock", !.symbols = 1, !.alnum = 6]

\* Review is read with and without the marker, Plan also below the threshold.
Evident == {At(Review, 50), At(Review, 70), At(Plan, 50), At(Long, 70)}
Others  == {At(Plan, 30), At(Key, 50), At(TabStrip, 70), At(Short, 70), At(Clock, 50)}

\* No line, one, two evident ones, Review after some other, and a line that comes back.
SomeLines == {<<>>} \cup {<<l>> : l \in Evident \cup Others}
             \cup {SetToSeq({l, k}) : l, k \in Evident}
             \cup {<<k, At(Review, 50)>> : k \in Others \ {At(Short, 70), At(Clock, 50)}}
             \cup {<<At(Long, 70), At(Key, 50)>>}
             \cup {<<At(Review, 50), l, At(Review, 70)>> : l \in {At(Long, 70), At(Key, 50)}}

\* One candidate each; and one frame with no candidate, a blank one and a second one.
SomeFrames == {[i \in DOMAIN lines |-> <<lines[i]>>] : lines \in SomeLines}
              \cup {<<<<>>, <<At(Untitled, 30)>>, <<At(Long, 50), At(Plan, 50)>>>>}

ASSUME HypothesesHold ==
    /\ TitlesAreNoPlaces
    /\ LinesAreTexts /\ LongestLineBounds /\ SegmentsAreEnough

Redacted == [Phrase(<<"redacted">>, 26) EXCEPT !.name = <<"placeholder">>]
=============================================================================
