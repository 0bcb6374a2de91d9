---------------------------- MODULE SafetyGate ----------------------------
(***************************************************************************)
(* What may be captured and kept, from the metadata of the foreground and  *)
(* the text of a frame (safety_gate.rs, blocklist.rs).                     *)
(*                                                                         *)
(* Names, titles and lines are texts: records whose `words` are the lower  *)
(* case words, and whose `spells` are the substrings of interest a rule    *)
(* may look for in them, in any case.  A URL is its scheme, the labels of  *)
(* its host (<<>> when it has none), its path, the keys of its query, what *)
(* its location spells, and what its credentials, query and fragment, the  *)
(* `hidden` parts, spell.  An absent URL is NoUrl.                         *)
(***************************************************************************)
EXTENDS Naturals, Sequences, SequencesExt

PasswordManagers == {"1password", "bitwarden", "keychain", "lastpass", "dashlane", "keepass"}

FinancialDomains ==
    {<<name, "com">> : name \in {"chase", "bankofamerica", "wellsfargo", "citibank",
        "capitalone", "usbank", "fidelity", "vanguard", "schwab", "americanexpress",
        "discover", "paypal", "venmo", "robinhood"}}

MedicalMarkers == {"mychart", "healthportal", "patientportal"}

AuthIndicators == {"sign in", "log in", "login", "authenticate", "authorization", "oauth",
                   "saml", "two-factor", "2fa"}

SecretPatterns == {"api_key", "apikey", "secret_key", "private_key", "access_token",
                   "password:", "passwd:", "token:", "-----begin rsa", "-----begin ec",
                   "ghp_", "sk-", "xoxb-"}

NoUrl == [scheme |-> "", host |-> <<>>, path |-> <<>>, query |-> {}, spells |-> {},
          hidden |-> {}]

Spells(text, needles) == text.spells \cap needles # {}
-----------------------------------------------------------------------------
(* blocklist.rs.  A blocklist is [apps, domains]: normalized names and hosts. *)

\* What the user typed is a URL or a bare host, which may begin with dots.
NormalizeDomain(typed) ==
    LET first == SelectInSeq(typed.host, LAMBDA label : label # "")
    IN  IF typed.scheme # "" THEN typed.host
        ELSE IF first = 0 THEN <<>>
        ELSE SubSeq(typed.host, first, Len(typed.host))

\* Blocklist::new; a name is the sequence of its words.
NewBlocklist(entries) ==
    [apps    |-> entries.apps \ {<<>>},
     domains |-> {NormalizeDomain(d) : d \in entries.domains} \ {<<>>}]

\* A contiguous run of whole tokens.
RunsIn(entry, tokens) ==
    \E i \in 0..(Len(tokens) - Len(entry)) : SubSeq(tokens, i + 1, i + Len(entry)) = entry

BlocksApp(blocklist, app) ==
    /\ app.words # <<>>
    /\ \E entry \in blocklist.apps : entry # <<>> /\ RunsIn(entry, app.words)

\* The same host or a subdomain, on label boundaries.
HostMatchesSuffix(host, suffix) == suffix # <<>> /\ IsSuffix(suffix, host)

UrlMatches(url, domains) ==
    url.host # <<>> /\ \E domain \in domains : HostMatchesSuffix(url.host, domain)

\* Only a web location survives, without its credentials, query and fragment.
SanitizeUrlForStorage(url) ==
    IF url.scheme \in {"http", "https"} /\ url.host # <<>>
    THEN [url EXCEPT !.query = {}, !.hidden = {}]
    ELSE NoUrl
-----------------------------------------------------------------------------
(* evaluate_core.  A context is [app, bundle, title, url]; a bundle id is the *)
(* sequence of its labels.                                                 *)

SelfBundle(bundle) ==
    \/ Len(bundle) >= 2 /\ bundle[1] = "com" /\ bundle[2] \in {"fndr", "fndr-dev"}
    \/ \E i \in 2..(Len(bundle) - 1) : bundle[i] = "fndr"

PrivateTitle(title) ==
    \/ Spells(title, {"incognito"})
    \/ Spells(title, {"private"}) /\ Spells(title, {"browsing", "window"})

\* The rules in the order in which they are tried.
SkipReasons == <<"UserBlocklist", "FndrSelfCapture", "PasswordManager", "PrivateBrowsing",
                 "FinancialSite", "MedicalSite", "Authentication">>

Applies(context, blocklist, reason) ==
    \/ /\ reason = "UserBlocklist"
       /\ \/ BlocksApp(blocklist, context.app)
          \/ UrlMatches(context.url, blocklist.domains)
    \/ /\ reason = "FndrSelfCapture"
       /\ SelfBundle(context.bundle) /\ ~Spells(context.app, {"fndr meeting"})
    \/ reason = "PasswordManager" /\ Spells(context.app, PasswordManagers)
    \/ reason = "PrivateBrowsing" /\ PrivateTitle(context.title)
    \/ reason = "FinancialSite" /\ UrlMatches(context.url, FinancialDomains)
    \/ /\ reason = "MedicalSite"
       /\ \E i \in DOMAIN context.url.host : context.url.host[i] \in MedicalMarkers
    \/ /\ reason = "Authentication"
       /\ \/ Spells(context.title, AuthIndicators)
          \/ (context.url.spells \cup context.url.hidden) \cap AuthIndicators # {}

\* The rules that apply.
Skips(context, blocklist) ==
    {i \in DOMAIN SkipReasons : Applies(context, blocklist, SkipReasons[i])}

HasSecret(line) == Spells(line, SecretPatterns)

\* "Allow", "Redact", or the reason of SkipStorage; lines is <<>> without OCR text.
Evaluate(context, lines, blocklist) ==
    IF Skips(context, blocklist) # {} THEN SkipReasons[Min(Skips(context, blocklist))]
    ELSE IF \E i \in DOMAIN lines : HasSecret(lines[i]) THEN "Redact"
    ELSE "Allow"

SkipsStorage(verdict) == verdict \notin {"Allow", "Redact"}

\* Each line that matches a pattern gives way to a placeholder.
RedactSecretLines(lines, placeholder) ==
    [i \in DOMAIN lines |-> IF HasSecret(lines[i]) THEN placeholder ELSE lines[i]]
=============================================================================
