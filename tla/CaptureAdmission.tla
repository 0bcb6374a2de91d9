------------------------- MODULE CaptureAdmission -------------------------
(***************************************************************************)
(* Which browser surfaces are captured, kept by URL or left out            *)
(* (admission.rs).  Texts and URLs are those of SafetyGate; a path segment *)
(* that starts with @ is the name "@", and `spells` of a path is taken     *)
(* from its segments.                                                      *)
(***************************************************************************)
EXTENDS SafetyGate

BrowserNames   == {"chrome", "safari", "firefox", "arc", "edge", "brave", "opera"}
ChromeTitles   == {"new tab", "start page", "speed dial", "blank page"}
SearchKeys     == {"q", "query", "search", "search_query", "text", "term"}
FeedSegments   == {"feed", "explore", "discover", "home", "trending", "hashtag"}
PeopleSegments == {"@", "u", "user", "users", "profile", "profiles", "channel", "channels",
                   "topic", "topics", "tag", "tags"}
Collections    == {"videos", "posts", "reels", "playlist", "playlists", "top", "best", "latest"}

\* Not on a label boundary: whatever ends in youtube.com.
YoutubeNames   == {"youtube", "notyoutube"}

HasSegment(url, names) == \E i \in DOMAIN url.path : url.path[i] \in names

\* Without a slash after the host, the code sees neither path nor query.
IsSearch(url) ==
    /\ url.path # <<>> /\ url.query \cap SearchKeys # {}
    /\ \/ HasSegment(url, {"search", "results"})
       \/ Spells(url, {"/search", "/results"})

IsNavigationSurface(url) == IsSearch(url) \/ HasSegment(url, FeedSegments)

IsListingSurface(url, title) ==
    \/ Spells(title, {"search results", "videos -"})
    \/ url.path # <<>> /\ Head(url.path) \in PeopleSegments
    \/ /\ Len(url.host) >= 2 /\ Last(url.host) = "com"
       /\ url.host[Len(url.host) - 1] \in YoutubeNames
       /\ url.path # <<>> /\ Head(url.path) = "c"
    \/ HasSegment(url, Collections) /\ Len(url.path) <= 3

\* classify_capture_surface_policy
Classify(context) ==
    IF ~Spells(context.app, BrowserNames) \/ context.url = NoUrl THEN "Normal"
    ELSE IF Spells(context.title, ChromeTitles) \/ IsNavigationSurface(context.url)
         THEN "SkipFrame"
    ELSE IF IsListingSurface(context.url, context.title) THEN "UrlOnly"
    ELSE "Normal"
=============================================================================
