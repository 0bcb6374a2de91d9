--------------------------- MODULE SignalCleanup ---------------------------
(***************************************************************************)
(* The lines of a frame that are evidence rather than the application's    *)
(* chrome (cleanup.rs, app.rs).  Texts as in OcrText, with the `middots`   *)
(* and `pipes` that divide a line, its `longest` segment in bytes and the  *)
(* number of its `pathish` words.                                          *)
(***************************************************************************)
EXTENDS OcrText

(* app.rs: the class of an application, from its bundle id, then its name. *)

BundleExact ==
    [Browser |-> {<<"com", "apple", "safari">>, <<"com", "apple", "safaritechnologypreview">>,
                  <<"org", "chromium", "chromium">>, <<"company", "thebrowser", "browser">>,
                  <<"org", "mozilla", "firefox">>, <<"org", "mozilla", "firefoxdeveloperedition">>,
                  <<"org", "mozilla", "nightly">>, <<"com", "vivaldi", "vivaldi">>},
     Code |-> {<<"com", "apple", "terminal">>, <<"com", "googlecode", "iterm2">>,
               <<"com", "apple", "dt", "xcode">>, <<"com", "microsoft", "vscode">>,
               <<"com", "microsoft", "vscodeinsiders">>, <<"com", "visualstudio", "code", "oss">>,
               <<"com", "todesktop", "230313mzl4w4u92">>, <<"com", "google", "antigravity">>,
               <<"dev", "zed", "zed">>},
     Mail |-> {<<"com", "apple", "mail">>, <<"com", "microsoft", "outlook">>,
               <<"org", "mozilla", "thunderbird">>, <<"com", "readdle", "smartemail-mac">>}]

BundlePrefix ==
    [Browser |-> {<<"com", "google", "chrome">>, <<"com", "brave", "browser">>,
                  <<"com", "microsoft", "edgemac">>, <<"com", "operasoftware", "opera">>},
     Code    |-> {<<"com", "jetbrains">>, <<"com", "sublimetext">>},
     Mail    |-> {}]

NameTokens ==
    [Browser |-> {"chrome", "chromium", "safari", "arc", "firefox", "edge", "brave", "opera",
                  "vivaldi"},
     Code |-> {"terminal", "iterm", "iterm2", "xcode", "vscode", "code", "cursor", "zed",
               "sublime", "intellij", "pycharm", "webstorm", "goland", "alacritty", "wezterm",
               "ghostty", "warp"},
     Mail |-> {"mail", "gmail", "outlook", "superhuman", "thunderbird", "airmail"}]

ClassPrecedence == <<"Browser", "Code", "Mail">>

FirstClass(Holds(_)) == SelectSeq(ClassPrecedence, LAMBDA class : Holds(class))

ClassFromBundleId(bundle) ==
    FirstClass(LAMBDA class : bundle \in BundleExact[class])
    \o FirstClass(LAMBDA class : \E p \in BundlePrefix[class] : IsPrefix(p, bundle))

ClassFromName(app) ==
    FirstClass(LAMBDA class : \E i \in DOMAIN app.words : app.words[i] \in NameTokens[class])

AppClass(app, bundle) == Head(ClassFromBundleId(bundle) \o ClassFromName(app) \o <<"Other">>)
-----------------------------------------------------------------------------
(* The shapes of chrome and noise                                          *)

LooksLikeTabStrip(t) == t.middots >= 2 /\ t.longest <= 42 /\ t.bytes <= 220
LooksLikePipeRow(t)  == t.pipes >= 2 /\ t.longest <= 36 /\ t.bytes <= 220

IsChromeCaption(t) ==
    /\ t.bytes <= 64
    /\ \/ t.words \in {<<"backforward">>, <<"forwardback">>}
       \/ /\ Spells(t, {"back"}) /\ Spells(t, {"forward"}) /\ t.bytes < 42
          /\ Spells(t, {"reload", "refresh"})

LooksLikeFileInventory(t) == Len(t.words) >= 4 /\ t.pathish >= 3

LooksLikeJsonInventory(t) ==
    IF t.form = "bracketed" THEN t.bytes > 50
    ELSE Spells(t, {"\"files\"", "\"path\"", "\"nodes\"", "\"items\""})

LooksLikeNotification(t) ==
    \/ Spells(t, {" minutes ago", " hours ago", " liked this", " replied", "suggested for you"})
    \/ "breaking:" \in t.opens

LooksLikeFeed(t) ==
    /\ t.bytes <= 90
    /\ \/ Len(t.words) <= 2
       \/ "sponsored" \in t.opens

LooksLikeAnimation(t) ==
    t.words \in {<<"loading">>, <<"loading...">>, <<"please", "wait">>, <<"retry">>,
                 <<"refresh">>, <<"updated", "just", "now">>}

LooksLikeEmailHeader(t) == t.opens \cap {"from:", "to:", "subject:", "cc:", "bcc:"} # {}
LooksLikeUrl(t) == t.opens \cap {"http://", "https://"} # {} \/ Spells(t, {"www."})

BrowserLabels == {<<"new", "tab">>, <<"home">>, <<"trending">>, <<"for", "you">>, <<"shorts">>,
                  <<"explore">>, <<"discover">>, <<"notifications">>, <<"inbox">>,
                  <<"starred">>, <<"settings">>, <<"untitled">>}
IsGenericLabel(t) == \E label \in BrowserLabels : IsPrefix(label, t.words)

SymbolsExceed(t, percent) == 100 * t.symbols > percent * t.chars

\* should_drop_line: URLs, and headers in mail, are kept whatever comes after them.
ShouldDrop(class, t) ==
    \/ t.form = "separator"
    \/ LooksLikeTabStrip(t) \/ LooksLikePipeRow(t) \/ IsChromeCaption(t)
    \/ class \in {"Browser", "Mail"} /\ IsGenericLabel(t)
    \/ /\ ~LooksLikeUrl(t)
       /\ \/ class = "Browser" /\ (LooksLikeNotification(t) \/ LooksLikeFeed(t))
          \/ LooksLikeAnimation(t)
          \/ class # "Code" /\ (LooksLikeFileInventory(t) \/ LooksLikeJsonInventory(t))
          \/ /\ class # "Mail" \/ ~LooksLikeEmailHeader(t)
             /\ \/ class = "Browser" /\ SymbolsExceed(t, 38)
                \/ class # "Code" /\ SymbolsExceed(t, 58)
-----------------------------------------------------------------------------
(* What is kept                                                            *)

MinLineLen == 7
Scaled(score, percent, applies) == IF applies THEN (score * percent) \div 100 ELSE score

\* line_quality_score, in ten-thousandths.
Quality(class, line) ==
    LET t    == line.text
        long == IF t.chars < 180 THEN t.chars ELSE 180
        base == (5200 * t.alnum + 2800 * (t.chars - t.symbols)) \div t.chars
                + (2000 * long) \div 180
        conf == Scaled(base, 78, line.marked)
        kind == Scaled(conf, 16, ShouldDrop(class, t))
    IN  Scaled(kind, 25, class # "Code" /\ LooksLikeFileInventory(t))

Texts(lines) == Map(lines, LAMBDA l : l.text)
ByName(texts) == FirstOccurrences(texts, LAMBDA t : t.name)

\* reduce_chrome_noise_for_app measures bytes where the main pass counts characters.
ReduceChromeNoise(class, texts) ==
    ByName(Select(texts, LAMBDA t : t.bytes >= MinLineLen /\ ~ShouldDrop(class, t)))

Good(class, lines) ==
    Select(lines, LAMBDA l : /\ ~ShouldDrop(class, l.text)
                                /\ Quality(class, l) >= 3600
                                /\ l.text.chars >= MinLineLen)

\* Regression: duplicates are left to the recognizer, which compares marked lines.
BuildHighSignalRepeated(class, lines) ==
    IF Good(class, lines) # <<>> THEN Texts(Good(class, lines))
    ELSE ReduceChromeNoise(class, Texts(lines))

\* build_high_signal_text_for_app: when nothing passes, the weaker test decides.
BuildHighSignal(class, lines) ==
    IF Good(class, lines) # <<>> THEN ByName(Texts(Good(class, lines)))
    ELSE ReduceChromeNoise(class, Texts(lines))
=============================================================================
