----------------------- MODULE ModelDownloadProofs -----------------------
(***************************************************************************)
(* Proofs about ModelDownload for every set of server versions, every file *)
(* already at the destination and any number of faults.                    *)
(*                                                                         *)
(* What lands is what the rename finds in the .part file, so the invariant *)
(* says what that file is while a download runs: there while it is         *)
(* streamed, and the pinned content once the check has passed.             *)
(***************************************************************************)
EXTENDS ModelDownload, TLAPS

InFlight == pc \in {"stream", "check", "rename"} => part \in Seq(Nat)
Checked  == pc = "rename" => part = Pinned

IInv == TypeOK /\ InFlight /\ Checked

\* The invariant holds before anything was fetched.
LEMMA InitIInv == Init => IInv
  BY DownloadAssumption DEF Init, IInv, TypeOK, InFlight, Checked

\* What is on disk is a file of blocks, also after a power loss garbled its tail.
LEMMA GarbledIsFile ==
  ASSUME NEW file \in Seq(Nat), NEW n \in Nat
  PROVE  [i \in 1..Len(file) |-> IF i <= n THEN file[i] ELSE Garbage] \in Seq(Nat)
  BY DownloadAssumption

\* Every step, a fault included, keeps the invariant.
LEMMA NextIInv == IInv /\ [Next]_vars => IInv'
<1> SUFFICES ASSUME IInv, [Next]_vars PROVE IInv'
    OBVIOUS
<1> USE DownloadAssumption DEF IInv, TypeOK, InFlight, Checked, envVars
<1>1. CASE Preflight
      BY <1>1 DEF Preflight, Verifies
<1>2. CASE Resume
      BY <1>2 DEF Resume, Already, Fail, Discard
<1>3. CASE Restart
      BY <1>3 DEF Restart
<1>4. CASE Receive
  <2>1. body[Len(part) + 1] \in Nat
        BY <1>4 DEF Receive
  <2> QED BY <1>4, <2>1 DEF Receive
<1>5. CASE EndOfBody
      BY <1>5 DEF EndOfBody
<1>6. CASE Check
      BY <1>6 DEF Check, Verifies, Fail, Discard
<1>7. CASE Rename
      BY <1>7 DEF Rename, Discard
<1>8. CASE Breaks \/ Crash
      BY <1>8 DEF Breaks, Crash, Fault, Fail
<1>9. CASE PowerLoss
  <2>1. part \in Seq(Nat)
        BY <1>9 DEF PowerLoss
  <2>2. PICK n \in synced..Len(part) :
            part' = [i \in 1..Len(part) |-> IF i <= n THEN part[i] ELSE Garbage]
        BY <1>9 DEF PowerLoss
  <2>3. n \in Nat
        BY <2>1, <2>2
  <2>4. part' \in Seq(Nat)
        BY <2>1, <2>2, <2>3, GarbledIsFile
  <2> QED BY <1>9, <2>4 DEF PowerLoss, Fault, Fail
<1>10. CASE Truncated
      BY <1>10 DEF Truncated, Fault
<1>11. CASE ServerChanges
      BY <1>11 DEF ServerChanges, Fault
<1>12. CASE UNCHANGED vars
      BY <1>12 DEF vars
<1> QED BY <1>1, <1>2, <1>3, <1>4, <1>5, <1>6, <1>7, <1>8, <1>9, <1>10, <1>11, <1>12
        DEF Next, Steps

\* The invariant holds in every reachable state.
LEMMA Invariance == Spec => []IInv
  BY InitIInv, NextIInv, PTL DEF Spec

\* The state keeps its type, whatever the server sends and wherever a crash falls.
THEOREM TypeCorrect == Spec => []TypeOK
<1>1. IInv => TypeOK
      BY DEF IInv
<1> QED BY <1>1, Invariance, PTL

\* A step that changes the file at the final path puts the pinned content there.
LEMMA LandingIsVerified == IInv /\ [Next]_vars => (dest' # dest => dest' = Pinned)
<1> SUFFICES ASSUME IInv, [Next]_vars, dest' # dest PROVE dest' = Pinned
    OBVIOUS
<1>1. Rename
      BY DEF Next, Steps, Preflight, Resume, Restart, Receive, EndOfBody, Check, Breaks, Crash,
             PowerLoss, Truncated, ServerChanges, Fail, envVars, vars
<1> QED BY <1>1 DEF Rename, IInv, Checked

\* Nothing but the pinned content ever appears at the final path: no version of the
\* server, no truncated body and no block lost to a power failure does.
THEOREM OnlyPinnedLands == Spec => OnlyVerifiedLands
<1>1. IInv /\ [Next]_vars => [dest' # dest => dest' = Pinned]_vars
      BY LandingIsVerified
<1> QED BY <1>1, Invariance, PTL DEF Spec, OnlyVerifiedLands
=============================================================================
