----------------------------- MODULE Foreground -----------------------------
(***************************************************************************)
(* What foreground.rs reports of the screen in front: the application from *)
(* AppKit, and a title and a location from a script.  A browser is asked   *)
(* by the name its kind has in the script, so the one that answers is that *)
(* application, in front or not; any other application has the title of    *)
(* its front window.  Whatever is missing fails the tick.                  *)
(*                                                                         *)
(* A screen is [app, bundle, title, url] as in SafetyGate: what is really  *)
(* shown.  Tabs are the front tabs of the browsers behind it.              *)
(***************************************************************************)
EXTENDS SafetyGate

CONSTANTS Tabs,      \* [title, url] for every kind of browser a script can ask
          NoTitle    \* the title of a window that has none

Unsupported == "Unsupported"
NoKind      == "none"

BundleKinds ==
    {[id |-> <<"com", "apple", "safari">>, kind |-> "Safari"],
     [id |-> <<"com", "apple", "safaritechnologypreview">>, kind |-> "Safari"],
     [id |-> <<"company", "thebrowser", "browser">>, kind |-> "Arc"],
     [id |-> <<"org", "mozilla", "firefox">>, kind |-> Unsupported],
     [id |-> <<"org", "mozilla", "firefoxdeveloperedition">>, kind |-> Unsupported],
     [id |-> <<"org", "mozilla", "nightly">>, kind |-> Unsupported]}

\* Families of identifiers, by their first labels.
FamilyKinds ==
    {[id |-> <<"com", "google", "chrome">>, kind |-> "Chrome"],
     [id |-> <<"com", "brave", "browser">>, kind |-> "Brave"],
     [id |-> <<"com", "microsoft", "edgemac">>, kind |-> "Edge"],
     [id |-> <<"com", "operasoftware", "opera">>, kind |-> Unsupported]}

NameKinds ==
    [safari |-> "Safari", chrome |-> "Chrome", arc |-> "Arc", brave |-> "Brave",
     edge |-> "Edge", firefox |-> Unsupported, opera |-> Unsupported]

\* The application a script names: the one with exactly this identifier.
ScriptedBundle ==
    [Safari |-> <<"com", "apple", "safari">>, Chrome |-> <<"com", "google", "chrome">>,
     Arc |-> <<"company", "thebrowser", "browser">>, Brave |-> <<"com", "brave", "browser">>,
     Edge |-> <<"com", "microsoft", "edgemac">>]

\* browser_kind: the identifier, then the first whole token of the name.
BrowserKind(app, bundle) ==
    LET exact  == {b \in BundleKinds : b.id = bundle}
        family == {b \in FamilyKinds : IsPrefix(b.id, bundle)}
        tokens == SelectSeq(app.words, LAMBDA w : w \in DOMAIN NameKinds)
    IN  CASE exact # {}   -> (CHOOSE b \in exact : TRUE).kind
          [] family # {}  -> (CHOOSE b \in family : TRUE).kind
          [] tokens # <<>> -> NameKinds[Head(tokens)]
          [] OTHER        -> NoKind

IsHttpUrl(url) == url.scheme \in {"http", "https"} /\ url.host # <<>>

\* The tab of the application the script names.
ActiveTab(kind, screen) ==
    IF screen.bundle = ScriptedBundle[kind] THEN [title |-> screen.title, url |-> screen.url]
    ELSE Tabs[kind]

Unreadable == [title |-> NoTitle, url |-> NoUrl]

\* browser_metadata: a title and a web location, or nothing, as from a browser that no
\* script can ask.
BrowserMetadata(kind, screen) ==
    LET tab == ActiveTab(kind, screen)
    IN  IF kind \notin DOMAIN ScriptedBundle \/ tab.title = NoTitle \/ ~IsHttpUrl(tab.url)
        THEN Unreadable ELSE tab

FrontWindowTitle(screen) == [title |-> screen.title, url |-> NoUrl]

\* current_context
CurrentContext(screen) ==
    LET kind == BrowserKind(screen.app, screen.bundle)
        read == IF kind = NoKind THEN FrontWindowTitle(screen) ELSE BrowserMetadata(kind, screen)
    IN  [screen EXCEPT !.title = read.title, !.url = read.url]

Readable(context) == context.app.words # <<>> /\ context.title # NoTitle
=============================================================================
