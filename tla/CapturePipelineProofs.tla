----------------------- MODULE CapturePipelineProofs -----------------------
(***************************************************************************)
(* Theorems about CapturePipeline, for any screens, images, texts and      *)
(* policies.  IInv says in addition which stage has a context and a frame, *)
(* that a stored signature is never younger than the window's entry for    *)
(* it, and that what reached the sink was not stored within the window.    *)
(***************************************************************************)
EXTENDS CapturePipeline, TLAPS

FrameStages == {"perceptual", "ocr", "semantic"}

StageData ==
    /\ pc # "idle" => context \in Screens
    /\ pc \in FrameStages => frame \in Screens
    /\ pc \in {"idle", "grab", "url"} => frame = None

WindowCovers == \A g \in Signatures : seen[g] <= stored[g]

SinkIsClear == pc = "persist" => stored[Signature] > Window /\ seen[Signature] = 0

IInv == TypeOK /\ StageData /\ WindowCovers /\ SinkIsClear

\* In a stage with a context, the signature is one of the enumerated ones.
LEMMA SignatureType ==
  ASSUME StageData, TypeOK, pc # "idle"
  PROVE  Signature \in Signatures
<1>1. Evidence \in Screens
  BY DEF Evidence, StageData, TypeOK
<1> QED
  BY <1>1 DEF Signature, Signatures, Apps, StageData

\* The initial state satisfies the invariant.
LEMMA InitInv == Init => IInv
<1> SUFFICES ASSUME Init PROVE IInv
  OBVIOUS
<1>1. Window + 1 \in Age
  BY PipelineAssumption DEF Age
<1>2. seen \in [Signatures -> Age]
  BY <1>1 DEF Init
<1>3. TypeOK
  BY <1>2, PipelineAssumption DEF Init, TypeOK, HashHistory
<1>4. StageData /\ SinkIsClear
  BY DEF Init, StageData, SinkIsClear, FrameStages
<1>5. WindowCovers
  BY <1>1, PipelineAssumption DEF Init, WindowCovers, Age
<1> QED
  BY <1>3, <1>4, <1>5 DEF IInv

-----------------------------------------------------------------------------
\* Appending a frame keeps at most HashHistory of them.
LEMMA HistoryType ==
  ASSUME NEW s \in Screens, recent \in Seq(Screens), Len(recent) <= HashHistory,
         NEW r, r = Append(recent, s)
  PROVE  LET q == IF Len(r) > HashHistory THEN Tail(r) ELSE r
         IN  q \in Seq(Screens) /\ Len(q) <= HashHistory
<1>1. r \in Seq(Screens) /\ Len(r) = Len(recent) + 1
  OBVIOUS
<1>2. CASE Len(r) > HashHistory
  <2>1. r # <<>>
    BY <1>1
  <2>2. Tail(r) \in Seq(Screens) /\ Len(Tail(r)) = Len(r) - 1
    BY <1>1, <2>1
  <2> QED
    BY <1>1, <1>2, <2>2 DEF HashHistory
<1>3. CASE ~(Len(r) > HashHistory)
  BY <1>1, <1>3 DEF HashHistory
<1> QED
  BY <1>2, <1>3

\* One more unit of time keeps ages in range, in order, and past the window.
LEMMA OlderAges ==
  ASSUME NEW a \in [Signatures -> Age]
  PROVE  /\ Older(a) \in [Signatures -> Age]
         /\ \A g \in Signatures : Older(a)[g] = IF a[g] <= Window THEN a[g] + 1 ELSE a[g]
  BY PipelineAssumption DEF Older, Age

\* Every step keeps the invariant.
LEMMA StepInv == IInv /\ [Next]_vars => IInv'
<1> SUFFICES ASSUME IInv, [Next]_vars PROVE IInv'
  OBVIOUS
<1> USE PipelineAssumption
<1>0. 0 \in Age /\ \A o : End(o) => pc' = "idle" /\ frame' = None /\ context' = None
                                    /\ outcome' = o
  BY DEF Age, End
<1>1. CASE MetadataFails
  <2>1. TypeOK'
    BY <1>1 DEF MetadataFails, End, IInv, TypeOK, SkipReasons, dedupVars, auxVars
  <2> QED
    BY <1>1, <2>1 DEF MetadataFails, End, IInv, StageData, WindowCovers, SinkIsClear,
       FrameStages, dedupVars, auxVars
<1>2. CASE ReadContext
  <2>1. TypeOK'
    BY <1>2 DEF ReadContext, End, IInv, TypeOK, SkipReasons, dedupVars, auxVars
  <2> QED
    BY <1>2, <2>1 DEF ReadContext, End, IInv, TypeOK, StageData, WindowCovers, SinkIsClear,
       FrameStages, dedupVars, auxVars
<1>3. CASE Grab
  <2>1. TypeOK'
    BY <1>3 DEF Grab, End, IInv, TypeOK, SkipReasons, dedupVars, auxVars
  <2> QED
    BY <1>3, <2>1 DEF Grab, End, IInv, TypeOK, StageData, WindowCovers, SinkIsClear,
       FrameStages, dedupVars, auxVars
<1>4. CASE Perceptual
  <2>1. frame \in Screens
    BY <1>4 DEF Perceptual, IInv, StageData, FrameStages
  <2>2. recent' \in Seq(Screens) /\ Len(recent') <= HashHistory
    BY <1>4, <2>1, HistoryType DEF Perceptual, IInv, TypeOK
  <2>3. TypeOK'
    BY <1>4, <2>1, <2>2 DEF Perceptual, End, IInv, TypeOK, SkipReasons, auxVars
  <2> QED
    BY <1>4, <2>1, <2>3 DEF Perceptual, End, IInv, StageData, WindowCovers, SinkIsClear,
       FrameStages, auxVars
<1>5. CASE Recognize
  <2>1. TypeOK'
    BY <1>5 DEF Recognize, End, IInv, TypeOK, SkipReasons, dedupVars, auxVars
  <2> QED
    BY <1>5, <2>1 DEF Recognize, End, IInv, TypeOK, StageData, WindowCovers, SinkIsClear,
       FrameStages, dedupVars, auxVars
<1>6. CASE Semantic
  <2>1. Signature \in Signatures
    BY <1>6, SignatureType DEF Semantic, IInv
  <2>2. seen' \in [Signatures -> Age]
    BY <1>0, <1>6, <2>1 DEF Semantic, IInv, TypeOK
  <2>3. TypeOK'
    BY <1>6, <2>2 DEF Semantic, End, IInv, TypeOK, SkipReasons
  <2>4. StageData'
    BY <1>6 DEF Semantic, End, IInv, TypeOK, StageData, FrameStages
  <2>5. WindowCovers'
    BY <1>6, <2>1 DEF Semantic, IInv, TypeOK, WindowCovers, Age
  <2>6. SinkIsClear'
    <3> SUFFICES ASSUME pc' = "persist" PROVE stored'[Signature'] > Window /\ seen'[Signature'] = 0
      BY DEF SinkIsClear
    <3>1. ~(seen[Signature] <= Window) /\ UNCHANGED <<context, frame, stored>>
      BY <1>6 DEF Semantic, SeenRecently, End
    <3>2. Signature' = Signature
      BY <3>1 DEF Signature, Evidence
    <3>3. seen[Signature] <= stored[Signature] /\ seen[Signature] \in Int
          /\ stored[Signature] \in Int
      BY <2>1 DEF IInv, WindowCovers, TypeOK, Age
    <3>4. seen'[Signature] = 0
      BY <1>6, <2>1 DEF Semantic, IInv, TypeOK
    <3> QED
      BY <3>1, <3>2, <3>3, <3>4
  <2> QED
    BY <2>3, <2>4, <2>5, <2>6 DEF IInv
<1>7. CASE Persist
  <2>1. Signature \in Signatures /\ Evidence \in Screens /\ context \in Screens
    BY <1>7, SignatureType DEF Persist, IInv, StageData, TypeOK, Evidence
  <2>2. stored' \in [Signatures -> Age] /\ evidence' \subseteq Screens
    BY <1>0, <1>7, <2>1 DEF Persist, IInv, TypeOK
  <2>3. pc' = "idle" /\ context' = None /\ frame' = None
    BY <1>7 DEF Persist, End
  <2>4. outcome' \in SkipReasons \cup {"Stored", "UrlOnlyStored", None}
    BY <1>7 DEF Persist, End, SkipReasons
  <2>5. TypeOK'
    BY <1>7, <2>2, <2>3, <2>4 DEF Persist, IInv, TypeOK, dedupVars
  <2>6. WindowCovers'
    <3>1. CASE UNCHANGED stored
      BY <1>7, <3>1 DEF Persist, dedupVars, IInv, WindowCovers
    <3>2. CASE stored' = [stored EXCEPT ![Signature] = 0]
      <4>1. seen[Signature] = 0 /\ seen' = seen
        BY <1>7 DEF Persist, dedupVars, IInv, SinkIsClear
      <4> QED
        BY <3>2, <4>1, <2>1 DEF IInv, TypeOK, WindowCovers, Age
    <3> QED
      BY <1>7, <3>1, <3>2 DEF Persist
  <2> QED
    BY <2>3, <2>5, <2>6 DEF IInv, StageData, SinkIsClear, FrameStages
<1>8. CASE Switch
  <2>1. UNCHANGED Signature
    BY <1>8 DEF Switch, Signature, Evidence
  <2> QED
    BY <1>8, <2>1 DEF Switch, IInv, TypeOK, StageData, WindowCovers, SinkIsClear,
       dedupVars, auxVars
<1>9. CASE TimePasses
  <2>1. /\ seen' \in [Signatures -> Age] /\ stored' \in [Signatures -> Age]
    BY <1>9, OlderAges DEF TimePasses, IInv, TypeOK
  <2>2. TypeOK'
    BY <1>9, <2>1 DEF TimePasses, IInv, TypeOK
  <2>3. WindowCovers'
    <3> SUFFICES ASSUME NEW g \in Signatures PROVE seen'[g] <= stored'[g]
      BY DEF WindowCovers
    <3>1. seen[g] <= stored[g] /\ seen[g] \in Age /\ stored[g] \in Age
      BY DEF IInv, TypeOK, WindowCovers
    <3>2. /\ seen'[g] = IF seen[g] <= Window THEN seen[g] + 1 ELSE seen[g]
          /\ stored'[g] = IF stored[g] <= Window THEN stored[g] + 1 ELSE stored[g]
      BY <1>9, OlderAges DEF TimePasses, IInv, TypeOK
    <3> QED
      BY <3>1, <3>2 DEF Age
  <2> QED
    BY <1>9, <2>2, <2>3 DEF TimePasses, IInv, StageData, SinkIsClear, FrameStages
<1>10. CASE UNCHANGED vars
  <2>1. UNCHANGED Signature
    BY <1>10 DEF vars, Signature, Evidence
  <2> QED
    BY <1>10, <2>1 DEF vars, IInv, TypeOK, StageData, WindowCovers, SinkIsClear,
       dedupVars, auxVars
<1> QED
  BY <1>1, <1>2, <1>3, <1>4, <1>5, <1>6, <1>7, <1>8, <1>9, <1>10 DEF Next

\* Type correctness, for any screens and policies.
THEOREM TypeCorrect == Spec => []TypeOK
<1>1. IInv => TypeOK
  BY DEF IInv
<1> QED
  BY <1>1, InitInv, StepInv, PTL DEF Spec

\* Two stored captures with one signature are never within one semantic window.
THEOREM NoStoredBurstAlways == Spec => NoStoredBurst
<1> DEFINE Spaced == \A g \in Signatures :
       pc = "persist" /\ outcome' \in {"Stored", "UrlOnlyStored"} /\ pc' = "idle"
       /\ g = Signature => stored[g] > Window
<1>1. IInv => [Spaced]_vars
  BY DEF IInv, SinkIsClear
<1> HIDE DEF Spaced
<1>2. Spec => [][Spaced]_vars
  BY <1>1, InitInv, StepInv, PTL DEF Spec
<1> QED
  BY <1>2 DEF NoStoredBurst, Spaced
=============================================================================
