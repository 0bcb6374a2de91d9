--------------------------- MODULE ModelDownload ---------------------------
(***************************************************************************)
(* One pinned artifact fetched again and again until it is there           *)
(* (download_verified and verify_file of fndr-downloader, driven as        *)
(* fetch_model does), against a server that may change its file, refuse    *)
(* ranges, break off or fail, with crashes between any two steps and power *)
(* losses that garble what was not synced.                                 *)
(*                                                                         *)
(* A file is a sequence of blocks, and a digest is the sequence itself:    *)
(* two files with one SHA-256 are one file.  One download of a destination *)
(* runs at a time, which the code leaves to its caller.                    *)
(***************************************************************************)
EXTENDS Naturals, Sequences

CONSTANTS Versions,   \* the files the server may have
          Pinned,     \* the registry's file: its size and SHA-256
          Found,      \* a file that may already lie at the destination
          Absent,     \* no file
          Garbage,    \* a block that was not synced before the power failed
          MaxFaults   \* bound: crashes, power losses, failures, server changes

ASSUME DownloadAssumption ==
    /\ Versions \subseteq Seq(Nat) /\ Pinned \in Versions /\ Pinned # <<>>
    /\ Absent \notin Seq(Nat) /\ Garbage \in Nat /\ MaxFaults \in Nat

VARIABLES
    dest,     \* the file at the final path
    part,     \* the .part file
    synced,   \* the number of blocks of it that are on disk
    pc,       \* "idle", "request", "stream", "check", "rename", "done"
    body,     \* the version the current response delivers
    server,   \* the server's file
    ranges,   \* whether it honours a Range request
    faults

envVars == <<server, ranges, faults>>
vars    == <<dest, part, synced, pc, body, envVars>>

TypeOK ==
    /\ dest \in Versions \cup {Found, Absent}
    /\ part \in Seq(Nat) \cup {Absent}
    /\ synced \in Nat
    /\ pc \in {"idle", "request", "stream", "check", "rename", "done"}
    /\ body \in Versions /\ server \in Versions
    /\ ranges \in BOOLEAN /\ faults \in 0..MaxFaults

Init ==
    /\ dest \in {Absent, Found} /\ part = Absent /\ synced = 0
    /\ pc = "idle" /\ body = Pinned
    /\ server \in Versions /\ ranges \in BOOLEAN /\ faults = 0

Already == IF part = Absent THEN 0 ELSE Len(part)
Fail    == pc' = "idle" /\ UNCHANGED <<dest, body>>
Discard == part' = Absent /\ synced' = 0

\* verify_file: size, then SHA-256.
Verifies(file) == file = Pinned
-----------------------------------------------------------------------------
\* fetch_model: nothing is fetched over a file that verifies.
Preflight ==
    /\ pc = "idle"
    /\ pc' = IF Verifies(dest) THEN "done" ELSE "request"
    /\ UNCHANGED <<dest, part, synced, body, envVars>>

\* Regression: a complete .part file is resumed as well.
ResumeComplete ==
    /\ pc = "request"
    /\ 0 < Already /\ Already <= Len(Pinned)
    /\ IF ~ranges THEN Fail /\ Discard
       ELSE IF Already >= Len(server) THEN Fail /\ UNCHANGED <<part, synced>>
       ELSE pc' = "stream" /\ body' = server /\ UNCHANGED <<dest, part, synced>>
    /\ UNCHANGED envVars

\* Regression: an answer to the whole file leaves the .part file.
ResumeKeepsPart ==
    /\ pc = "request"
    /\ 0 < Already /\ Already < Len(Pinned)
    /\ IF ~ranges \/ Already >= Len(server) THEN Fail /\ UNCHANGED <<part, synced>>
       ELSE pc' = "stream" /\ body' = server /\ UNCHANGED <<dest, part, synced>>
    /\ UNCHANGED envVars

\* A shorter .part file is continued.  Without a 206 it is removed; a range beyond
\* the server's file is an HTTP error.
Resume ==
    /\ pc = "request"
    /\ 0 < Already /\ Already < Len(Pinned)
    /\ IF ~ranges THEN Fail /\ Discard
       ELSE IF Already >= Len(server) THEN Fail /\ UNCHANGED <<part, synced>>
       ELSE pc' = "stream" /\ body' = server /\ UNCHANGED <<dest, part, synced>>
    /\ UNCHANGED envVars

\* Any other .part file is truncated once the server has answered.
Restart ==
    /\ pc = "request"
    /\ Already = 0 \/ Already >= Len(Pinned)
    /\ pc' = "stream" /\ body' = server /\ part' = <<>> /\ synced' = 0
    /\ UNCHANGED <<dest, envVars>>

Receive ==
    /\ pc = "stream" /\ Len(part) < Len(body)
    /\ part' = Append(part, body[Len(part) + 1])
    /\ UNCHANGED <<dest, synced, pc, body, envVars>>

\* The end of the body: sync_all.
EndOfBody ==
    /\ pc = "stream" /\ Len(part) >= Len(body)
    /\ pc' = "check" /\ synced' = Len(part)
    /\ UNCHANGED <<dest, part, body, envVars>>

\* Regression: the size is taken for the content.
CheckSizeOnly ==
    /\ pc = "check"
    /\ IF Len(part) = Len(Pinned)
       THEN pc' = "rename" /\ UNCHANGED <<dest, part, synced, body>>
       ELSE Fail /\ Discard
    /\ UNCHANGED envVars

\* Size, then digest; a mismatch deletes the artifact.
Check ==
    /\ pc = "check"
    /\ IF Verifies(part)
       THEN pc' = "rename" /\ UNCHANGED <<dest, part, synced, body>>
       ELSE Fail /\ Discard
    /\ UNCHANGED envVars

Rename ==
    /\ pc = "rename"
    /\ dest' = part /\ Discard /\ pc' = "done"
    /\ UNCHANGED <<body, envVars>>
-----------------------------------------------------------------------------
(* Faults                                                                  *)

Fault == faults < MaxFaults /\ faults' = faults + 1

\* An HTTP error, or a read that fails in mid-stream: the .part file stays.
Breaks ==
    /\ Fault /\ pc \in {"request", "stream"}
    /\ Fail /\ UNCHANGED <<part, synced, server, ranges>>

Crash ==
    /\ Fault /\ pc # "idle"
    /\ Fail /\ UNCHANGED <<part, synced, server, ranges>>

PowerLoss ==
    /\ Fault /\ pc # "idle" /\ part # Absent
    /\ Fail /\ UNCHANGED <<synced, server, ranges>>
    /\ \E n \in synced..Len(part) :
           part' = [i \in 1..Len(part) |-> IF i <= n THEN part[i] ELSE Garbage]

\* The server closes early and the client takes it for the end.
Truncated ==
    /\ Fault /\ pc = "stream"
    /\ pc' = "check" /\ synced' = Len(part)
    /\ UNCHANGED <<dest, part, body, server, ranges>>

ServerChanges ==
    /\ Fault
    /\ server' \in Versions /\ ranges' \in BOOLEAN
    /\ UNCHANGED <<dest, part, synced, pc, body>>

Steps == Preflight \/ Resume \/ Restart \/ Receive \/ EndOfBody \/ Check \/ Rename
Next  == Steps \/ Breaks \/ Crash \/ PowerLoss \/ Truncated \/ ServerChanges

Spec == Init /\ [][Next]_vars /\ WF_vars(Steps)
-----------------------------------------------------------------------------
(* Properties                                                              *)

\* lib.rs:6: nothing unverified ever appears at the final path.
OnlyVerifiedLands == [][dest' # dest => dest' = Pinned]_vars

\* Retried against a server that has come to serve the pinned file, the download ends:
\* no .part file that a crash, another version or a refused range left stands in its way.
DownloadCompletes == <>[](server = Pinned) => <>(dest = Pinned)
=============================================================================
