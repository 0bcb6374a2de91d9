--------------------------- MODULE MCAgentSurface ---------------------------
(***************************************************************************)
(* A second of two ticks, one request a second, hours of two ticks and     *)
(* days of three: window boundaries, offsets and caps are all reached.     *)
(***************************************************************************)
EXTENDS AgentSurface

MCCaptures ==
    {[app |-> 1, words |-> {"main"}, target |-> {"url", "app"}],
     [app |-> 2, words |-> {"main", "rs"}, target |-> {"app"}],
     [app |-> 2, words |-> {}, target |-> {}]}
MCOffsetRange == -1 .. 1
MCCredentials ==
    {[host |-> TRUE, origin |-> "none", token |-> TRUE],
     [host |-> TRUE, origin |-> "none", token |-> FALSE],
     [host |-> TRUE, origin |-> "page", token |-> TRUE],
     [host |-> FALSE, origin |-> "none", token |-> TRUE]}
MCQueries == {<<>>, <<<<>>, <<"main">>>>, <<<<"main", "rs">>>>}
MCTimelineArgs ==
    {[from |-> Epoch, to |-> MaxTime, grain |-> g, offset |-> o, limit |-> n] :
        g \in {"hour", "day"}, o \in {-1, 0, 2}, n \in {1, 3}}
    \cup {[from |-> Epoch + 1, to |-> Epoch, grain |-> "day", offset |-> 0, limit |-> 3]}
MCStaleAfter == -1 .. 1
MCRecallArgs ==
    {[kind |-> "decision", since |-> s, limit |-> n] : s \in {Epoch, Epoch + 1}, n \in {1, 2}}
    \cup {[kind |-> "todo", since |-> Epoch, limit |-> 1]}
=============================================================================
