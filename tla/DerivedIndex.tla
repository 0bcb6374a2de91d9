--------------------------- MODULE DerivedIndex ---------------------------
(***************************************************************************)
(* What fndr-store promises of its two stores (ADR-002): SQLite is the     *)
(* system of record, Lance is an index derived from it.  The promise is    *)
(* about the evidence itself, whichever records, texts and rows carry it:  *)
(* the index shows nothing that the truth does not hold, and the truth     *)
(* forgets nothing that the index still shows.  How records are merged,    *)
(* flushed, stamped and recovered is left to VaultIndex, which implements  *)
(* this module.                                                            *)
(***************************************************************************)
CONSTANT Evidence               \* what may be captured

VARIABLES truth,                \* evidence SQLite holds
          index                 \* evidence the Lance table holds

vars == <<truth, index>>

Init == truth = {} /\ index = {}

\* Captures add to the truth and deletions take from it: it forgets only what the
\* index does not show any more.
Revise(lost, gained) ==
    /\ lost \cap index = {}
    /\ truth' = (truth \ lost) \cup gained
    /\ UNCHANGED index

\* Some of the truth is indexed.
Publish(E) ==
    /\ E \subseteq truth
    /\ index' = index \cup E
    /\ UNCHANGED truth

\* Index rows are dropped; the truth does not change.
Retract(E) ==
    /\ index' = index \ E
    /\ UNCHANGED truth

Next ==
    \E E \in SUBSET Evidence :
       \/ Publish(E) \/ Retract(E)
       \/ \E F \in SUBSET Evidence : Revise(E, F)

Spec == Init /\ [][Next]_vars
=============================================================================
