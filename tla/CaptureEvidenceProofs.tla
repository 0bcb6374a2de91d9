----------------------- MODULE CaptureEvidenceProofs -----------------------
(***************************************************************************)
(* What the vault says after any number of captures, for every set of      *)
(* screens, frames and blocklist entries: nothing that the gate refuses by *)
(* the metadata it reads, nothing of another site, and nothing that was    *)
(* neither legible on a frame nor read with it.                            *)
(*                                                                         *)
(* A merge is where this could go wrong: it mixes the text of one screen   *)
(* with the metadata of another.  EvidenceInv therefore says of every      *)
(* record what a merge needs of both its sides (Sound): all the contexts   *)
(* are allowed and on the site of the record, and each line is clean and   *)
(* of one of its frames.  A merge then keeps it because the write path has *)
(* no embeddings: without them no score passes but the one of the same     *)
(* anchor, which is the site (StoriesShareAnchor, StoriesShareSite).       *)
(*                                                                         *)
(* The lines of a frame are followed from Vision to the payload by what    *)
(* Picked returns (PickedElements): elements of the sequence, in order.    *)
(* That no prose is lost is the other direction: what each step of the     *)
(* cleanup picks includes the line (PickedAll, FirstOfKind), the payload   *)
(* has it (ProseIsInText, KeptInv), and a merge says it (MergeSays) unless *)
(* the text was cut, which a text below the cap was not (NothingTrimmed).  *)
(***************************************************************************)
EXTENDS CaptureEvidence, FiniteSetTheorems, SequenceTheorems, WellFoundedInduction, TLAPS

-----------------------------------------------------------------------------
(* Induction, and functions that are defined by it                         *)

\* A set of naturals that is not empty has a least.
LEMMA LeastNatural ==
  ASSUME NEW S, S \subseteq Nat, S # {}
  PROVE  Min(S) \in S /\ \A k \in S : Min(S) <= k
<1> DEFINE Less == OpToRel(<, Nat)
<1>1. \E l \in S : \A k \in S : <<k, l>> \notin Less
      BY WFMin, NatLessThanWellFounded
<1>2. PICK l \in S : \A k \in S : ~(k < l)
      BY <1>1 DEF OpToRel
<1>3. \A k \in S : l <= k
  <2> TAKE k \in S
  <2>1. k \in Nat /\ l \in Nat /\ ~(k < l)
        BY <1>2
  <2> QED BY <2>1
<1> QED BY <1>3 DEF Min

\* One with a bound has a greatest.
LEMMA GreatestNatural ==
  ASSUME NEW n \in Nat, NEW S, S \subseteq 0 .. n, S # {}
  PROVE  Max(S) \in S /\ \A k \in S : k <= Max(S)
<1> DEFINE Left == {n - k : k \in S}
<1>1. Left \subseteq Nat /\ Left # {}
  <2>1. \A k \in S : n - k \in Nat
        OBVIOUS
  <2> QED BY <2>1
<1>2. Min(Left) \in Left /\ \A l \in Left : Min(Left) <= l
      BY <1>1, LeastNatural
<1>3. PICK g \in S : Min(Left) = n - g
      BY <1>2
<1>4. \A k \in S : n - k \in Left
      OBVIOUS
<1>5. \A k \in S : k \in Nat /\ g \in Nat /\ n - g <= n - k
  <2> TAKE k \in S
  <2>1. n - k \in Left
        OBVIOUS
  <2>2. Min(Left) <= n - k
        BY <1>2, <2>1
  <2>3. k \in Nat /\ g \in Nat
        OBVIOUS
  <2> QED BY <1>3, <2>2, <2>3
<1>6. \A k \in S : k <= g
      BY <1>5
<1> QED BY <1>6 DEF Max

\* What holds of 0, and of k + 1 when it holds of k, holds of every natural.
LEMMA SetInduction ==
  ASSUME NEW S, 0 \in S, \A k \in Nat : k \in S => k + 1 \in S
  PROVE  Nat \subseteq S
<1> SUFFICES ASSUME Nat \ S # {} PROVE FALSE
    OBVIOUS
<1> DEFINE Rest == Nat \ S
<1>1. Min(Rest) \in Rest /\ \A k \in Rest : Min(Rest) <= k
  <2>1. Rest \subseteq Nat /\ Rest # {}
        OBVIOUS
  <2> HIDE DEF Rest
  <2> QED BY <2>1, LeastNatural
<1> DEFINE m == Min(Rest)
<1> HIDE DEF m
<1>2. m \in Nat /\ m \notin S /\ \A k \in Nat : k \notin S => m <= k
      BY <1>1 DEF m
<1>3. m - 1 \in Nat /\ m - 1 \in S
      BY <1>2
<1> QED BY <1>2, <1>3

\* What every step keeps, every value has.
LEMMA StaysIn ==
  ASSUME NEW n \in Nat, NEW A, NEW f, f[0] \in A,
         \A i \in 1 .. n : f[i - 1] \in A => f[i] \in A
  PROVE  \A i \in 0 .. n : f[i] \in A
<1> DEFINE T == {k \in Nat : k <= n => f[k] \in A}
<1>1. 0 \in T
      OBVIOUS
<1>2. ASSUME NEW k \in Nat, k \in T PROVE k + 1 \in T
  <2> SUFFICES ASSUME k + 1 <= n PROVE f[k + 1] \in A
      OBVIOUS
  <2>1. k + 1 \in 1 .. n /\ (k + 1) - 1 = k /\ f[k] \in A
        BY <1>2
  <2> QED BY <2>1
<1>3. Nat \subseteq T
  <2> HIDE DEF T
  <2> QED BY <1>1, <1>2, SetInduction
<1> QED BY <1>3

Follows(f, n, A, base, step) ==
    f \in [0 .. n -> A] /\ f[0] = base /\ \A i \in 1 .. n : f[i] = step[i][f[i - 1]]

\* A function can be defined from a first value and a step.
LEMMA StepsExist ==
  ASSUME NEW n \in Nat, NEW A, NEW base \in A, NEW step \in [1 .. n -> [A -> A]]
  PROVE  \E f : Follows(f, n, A, base, step)
<1> DEFINE Upto(k, f) == f[0] = base /\ \A i \in 1 .. k : f[i] = step[i][f[i - 1]]
           S == {k \in Nat : k <= n => \E f \in [0 .. k -> A] : Upto(k, f)}
<1>1. 0 \in S
  <2>1. [i \in 0 .. 0 |-> base] \in [0 .. 0 -> A] /\ Upto(0, [i \in 0 .. 0 |-> base])
        OBVIOUS
  <2> QED BY <2>1
<1>2. ASSUME NEW k \in Nat, k \in S PROVE k + 1 \in S
  <2> SUFFICES ASSUME k + 1 <= n PROVE \E f \in [0 .. k + 1 -> A] : Upto(k + 1, f)
      OBVIOUS
  <2>1. PICK f \in [0 .. k -> A] : Upto(k, f)
        BY <1>2
  <2> DEFINE g == [i \in 0 .. k + 1 |-> IF i = k + 1 THEN step[k + 1][f[k]] ELSE f[i]]
  <2>2. step[k + 1] \in [A -> A] /\ f[k] \in A
        OBVIOUS
  <2>3. g \in [0 .. k + 1 -> A]
        BY <2>2
  <2>4. g[0] = base
        BY <2>1
  <2>5. ASSUME NEW i \in 1 .. k + 1 PROVE g[i] = step[i][g[i - 1]]
    <3>1. CASE i = k + 1
          BY <3>1
    <3>2. CASE i # k + 1
      <4>1. i \in 1 .. k /\ i - 1 \in 0 .. k
            BY <3>2
      <4> QED BY <2>1, <4>1
    <3> QED BY <3>1, <3>2
  <2> QED BY <2>3, <2>4, <2>5
<1>3. n \in S
  <2> HIDE DEF S
  <2> QED BY <1>1, <1>2, SetInduction
<1> QED BY <1>3 DEF Follows

-----------------------------------------------------------------------------
(* Sequences                                                               *)

\* Picked goes through the sequence once.
Picking(f, S, seq, at) ==
    /\ f \in [0 .. Len(seq) -> Seq(S)] /\ f[0] = <<>>
    /\ \A i \in 1 .. Len(seq) :
          f[i] = IF i \in at THEN Append(f[i - 1], seq[i]) ELSE f[i - 1]

\* The steps of that recursion exist, and Picked is where they end.
LEMMA PickedSteps ==
  ASSUME NEW S, NEW seq \in Seq(S), NEW at
  PROVE  \E f : Picking(f, S, seq, at) /\ Picked(seq, at) = f[Len(seq)]
<1> DEFINE n == Len(seq)
           A == Seq(S)
           step == [i \in 1 .. n |-> [q \in A |-> IF i \in at THEN Append(q, seq[i]) ELSE q]]
<1>1. n \in Nat /\ <<>> \in A /\ step \in [1 .. n -> [A -> A]]
      OBVIOUS
<1>2. \E g : Follows(g, n, A, <<>>, step)
  <2> HIDE DEF n, A, step
  <2> QED BY <1>1, StepsExist
<1>3. PICK g \in [0 .. n -> A] : g[0] = <<>> /\ \A i \in 1 .. n : g[i] = step[i][g[i - 1]]
      BY <1>2, Zenon DEF Follows
<1> DEFINE Value(f, i) == IF i = 0 THEN <<>>
                          ELSE IF i \in at THEN Append(f[i - 1], seq[i]) ELSE f[i - 1]
<1>4. \A i \in 0 .. n : g[i] = Value(g, i)
  <2> TAKE i \in 0 .. n
  <2>1. CASE i = 0
        BY <1>3, <2>1
  <2>2. CASE i # 0
    <3>1. i \in 1 .. n /\ i - 1 \in 0 .. n
          BY <1>1, <2>2
    <3>2. g[i - 1] \in A /\ g[i] = step[i][g[i - 1]]
          BY <1>3, <3>1
    <3> QED BY <2>2, <3>1, <3>2
  <2> QED BY <2>1, <2>2
<1> DEFINE Solves(f) == f = [i \in 0 .. n |-> Value(f, i)]
           picked == CHOOSE f : Solves(f)
<1>5. Solves(g)
  <2> HIDE DEF Value, n, A
  <2> QED BY <1>3, <1>4
<1>6. Solves(picked)
  <2> HIDE DEF Solves
  <2> QED BY <1>5
<1>7. Picked(seq, at) = picked[n]
      BY DEF Picked
<1> HIDE DEF picked
<1>8. DOMAIN picked = 0 .. n /\ \A i \in 0 .. n : picked[i] = Value(picked, i)
  <2> HIDE DEF Value, n
  <2> QED BY <1>6
<1>9. \A i \in 0 .. n : picked[i] \in A
  <2>1. picked[0] \in A
    <3>1. 0 \in 0 .. n /\ Value(picked, 0) \in A
          BY <1>1
    <3> HIDE DEF Value, n, A
    <3> QED BY <1>8, <3>1
  <2>2. ASSUME NEW i \in 1 .. n, picked[i - 1] \in A PROVE picked[i] \in A
    <3>1. i \in 0 .. n /\ i # 0 /\ Value(picked, i) \in A
          BY <1>1, <2>2
    <3> HIDE DEF Value, n, A
    <3> QED BY <1>8, <3>1
  <2> HIDE DEF n, A
  <2> QED BY <1>1, <2>1, <2>2, StaysIn
<1>10. picked \in [0 .. n -> A]
  <2> HIDE DEF n, A
  <2>1. picked = [i \in 0 .. n |-> picked[i]]
    <3> HIDE DEF Value
    <3> QED BY <1>6
  <2> QED BY <1>9, <2>1
<1>11. picked[0] = <<>>
  <2>1. 0 \in 0 .. n /\ Value(picked, 0) = <<>>
        BY <1>1
  <2> HIDE DEF Value, n
  <2> QED BY <1>8, <2>1
<1>12. \A i \in 1 .. n :
          picked[i] = IF i \in at THEN Append(picked[i - 1], seq[i]) ELSE picked[i - 1]
  <2> TAKE i \in 1 .. n
  <2>1. i \in 0 .. n /\ i # 0
        BY <1>1
  <2>2. picked[i] = Value(picked, i)
    <3> HIDE DEF Value, n
    <3> QED BY <1>8, <2>1
  <2> QED BY <2>1, <2>2, Zenon
<1> QED BY <1>7, <1>10, <1>11, <1>12 DEF Picking

\* Where the elements of a part stand in the whole.
Stands(place, part, seq, at) ==
    /\ place \in [DOMAIN part -> at \cap DOMAIN seq]
    /\ \A k \in DOMAIN part : part[k] = seq[place[k]]
    /\ \A k, l \in DOMAIN part : k < l => place[k] < place[l]

\* What is picked is elements at those positions, in the order in which they stand.
LEMMA PickedElements ==
  ASSUME NEW S, NEW seq \in Seq(S), NEW at
  PROVE  Picked(seq, at) \in Seq(S) /\ \E place : Stands(place, Picked(seq, at), seq, at)
<1>0. PICK f : Picking(f, S, seq, at) /\ Picked(seq, at) = f[Len(seq)]
      BY PickedSteps
<1>1. /\ f \in [0 .. Len(seq) -> Seq(S)] /\ f[0] = <<>> /\ Picked(seq, at) = f[Len(seq)]
      /\ \A i \in 1 .. Len(seq) :
            f[i] = IF i \in at THEN Append(f[i - 1], seq[i]) ELSE f[i - 1]
      BY <1>0 DEF Picking
<1> DEFINE n == Len(seq)
           Placed(k, p) ==
              /\ p \in [DOMAIN f[k] -> at \cap (1 .. k)]
              /\ \A j \in DOMAIN f[k] : f[k][j] = seq[p[j]]
              /\ \A j, l \in DOMAIN f[k] : j < l => p[j] < p[l]
           T == {k \in Nat : k <= n => \E p : Placed(k, p)}
<1>2. 0 \in T
  <2>1. DOMAIN f[0] = {}
        BY <1>1
  <2>2. Placed(0, [j \in {} |-> 0])
        BY <2>1
  <2> QED BY <2>2
<1>3. ASSUME NEW k \in Nat, k \in T PROVE k + 1 \in T
  <2> SUFFICES ASSUME k + 1 <= n PROVE \E p : Placed(k + 1, p)
      OBVIOUS
  <2>1. PICK p : Placed(k, p)
        BY <1>3
  <2>2. /\ f[k] \in Seq(S) /\ k + 1 \in 1 .. n /\ (k + 1) - 1 = k
        /\ f[k + 1] = IF k + 1 \in at THEN Append(f[k], seq[k + 1]) ELSE f[k]
        BY <1>1
  <2>3. CASE k + 1 \notin at
    <3>1. Placed(k + 1, p)
          BY <2>1, <2>2, <2>3
    <3> QED BY <3>1
  <2>4. CASE k + 1 \in at
    <3> DEFINE m == Len(f[k]) + 1
               q == [j \in 1 .. m |-> IF j = m THEN k + 1 ELSE p[j]]
    <3>1. /\ DOMAIN f[k] = 1 .. (m - 1) /\ DOMAIN f[k + 1] = 1 .. m /\ m \in Nat
          /\ f[k + 1][m] = seq[k + 1] /\ \A j \in 1 .. (m - 1) : f[k + 1][j] = f[k][j]
          BY <2>2, <2>4
    <3> HIDE DEF m
    <3>2. \A j \in 1 .. m : j # m => j \in 1 .. (m - 1) /\ p[j] \in at /\ p[j] \in 1 .. k
          BY <2>1, <3>1
    <3>3. q \in [1 .. m -> at \cap (1 .. k + 1)]
          BY <2>4, <3>1, <3>2
    <3>4. \A j \in 1 .. m : f[k + 1][j] = seq[q[j]]
          BY <2>1, <3>1, <3>2
    <3>5. \A j, l \in 1 .. m : j < l => q[j] < q[l]
      <4> SUFFICES ASSUME NEW j \in 1 .. m, NEW l \in 1 .. m, j < l PROVE q[j] < q[l]
          OBVIOUS
      <4>1. j \in 1 .. (m - 1) /\ q[j] = p[j] /\ p[j] \in 1 .. k
            BY <3>1, <3>2
      <4>2. CASE l = m
            BY <4>1, <4>2
      <4>3. CASE l # m
            BY <2>1, <3>1, <3>2, <4>1, <4>3
      <4> QED BY <4>2, <4>3
    <3>6. Placed(k + 1, q)
          BY <3>1, <3>3, <3>4, <3>5
    <3> QED BY <3>6
  <2> QED BY <2>3, <2>4
<1>4. n \in T
  <2>1. n \in Nat
        OBVIOUS
  <2> HIDE DEF T
  <2> QED BY <1>2, <1>3, <2>1, SetInduction
<1>5. PICK p : Placed(n, p)
      BY <1>4
<1>6. f[n] = Picked(seq, at) /\ f[n] \in Seq(S) /\ DOMAIN seq = 1 .. n
      BY <1>1
<1>7. Stands(p, Picked(seq, at), seq, at)
      BY <1>5, <1>6 DEF Stands
<1> QED BY <1>6, <1>7

\* What is picked is elements of the whole.
LEMMA PickedFrom ==
  ASSUME NEW S, NEW seq \in Seq(S), NEW at
  PROVE  /\ Picked(seq, at) \in Seq(S)
         /\ \A k \in DOMAIN Picked(seq, at) :
               \E i \in at \cap DOMAIN seq : Picked(seq, at)[k] = seq[i]
<1>1. PICK place : Stands(place, Picked(seq, at), seq, at)
      BY PickedElements
<1> QED BY <1>1, PickedElements DEF Stands

\* All of what is picked is there.
LEMMA PickedAll ==
  ASSUME NEW S, NEW seq \in Seq(S), NEW at
  PROVE  /\ Len(Picked(seq, at)) <= Len(seq)
         /\ \A i \in at \cap DOMAIN seq : \E k \in DOMAIN Picked(seq, at) : Picked(seq, at)[k] = seq[i]
<1>0. PICK f : Picking(f, S, seq, at) /\ Picked(seq, at) = f[Len(seq)]
      BY PickedSteps
<1> DEFINE n == Len(seq)
           Has(k) == /\ Len(f[k]) <= k
                     /\ \A i \in at \cap 1 .. k : \E j \in DOMAIN f[k] : f[k][j] = seq[i]
           T == {k \in Nat : k <= n => Has(k)}
<1>1. /\ f \in [0 .. n -> Seq(S)] /\ f[0] = <<>> /\ Picked(seq, at) = f[n] /\ n \in Nat
      /\ \A i \in 1 .. n : f[i] = IF i \in at THEN Append(f[i - 1], seq[i]) ELSE f[i - 1]
      BY <1>0 DEF Picking
<1>2. 0 \in T
      BY <1>1
<1>3. ASSUME NEW k \in Nat, k \in T PROVE k + 1 \in T
  <2> SUFFICES ASSUME k + 1 <= n PROVE Has(k + 1)
      OBVIOUS
  <2>1. /\ f[k] \in Seq(S) /\ k + 1 \in 1 .. n /\ (k + 1) - 1 = k /\ seq[k + 1] \in S
        /\ f[k + 1] = IF k + 1 \in at THEN Append(f[k], seq[k + 1]) ELSE f[k]
        BY <1>1
  <2>2. Has(k) /\ \A i \in 1 .. (k + 1) : i \in 1 .. k \/ i = k + 1
        BY <1>3, <2>1
  <2>3. CASE k + 1 \notin at
    <3>1. f[k + 1] = f[k] /\ \A i \in at \cap 1 .. (k + 1) : i \in at \cap 1 .. k
          BY <2>1, <2>2, <2>3
    <3> QED BY <2>1, <2>2, <3>1
  <2>4. CASE k + 1 \in at
    <3> DEFINE m == Len(f[k]) + 1
    <3>1. /\ m \in Nat /\ DOMAIN f[k] = 1 .. (m - 1) /\ DOMAIN f[k + 1] = 1 .. m /\ m \in 1 .. m
          /\ Len(f[k + 1]) = m /\ f[k + 1][m] = seq[k + 1]
          /\ \A j \in 1 .. (m - 1) : j \in 1 .. m /\ f[k + 1][j] = f[k][j]
          BY <2>1, <2>4
    <3>2. m <= k + 1
          BY <2>1, <2>2, <3>1
    <3> HIDE DEF m
    <3>3. ASSUME NEW i \in at \cap 1 .. (k + 1)
          PROVE  \E j \in 1 .. m : f[k + 1][j] = seq[i]
      <4>1. CASE i = k + 1
            BY <3>1, <4>1
      <4>2. CASE i \in 1 .. k
        <5>1. PICK j \in 1 .. (m - 1) : f[k][j] = seq[i]
              BY <2>2, <3>1, <4>2
        <5> QED BY <3>1, <5>1
      <4> QED BY <2>2, <4>1, <4>2
    <3> QED BY <3>1, <3>2, <3>3
  <2> QED BY <2>3, <2>4
<1>4. n \in T
  <2> HIDE DEF T, n
  <2> QED BY <1>1, <1>2, <1>3, SetInduction
<1> QED BY <1>1, <1>4

FirstLike(key, k, i) == key[k] = key[i] /\ \A j \in 1 .. k - 1 : key[j] # key[k]

\* There is a first of every kind.
LEMMA FirstOfKind ==
  ASSUME NEW n \in Nat, NEW key, NEW i \in 1 .. n
  PROVE  \E k \in 1 .. n : FirstLike(key, k, i)
<1> DEFINE S == {k \in 1 .. n : key[k] = key[i]}
<1>1. S \subseteq Nat /\ S # {}
      OBVIOUS
<1>2. Min(S) \in S /\ \A k \in S : Min(S) <= k
  <2> HIDE DEF S
  <2> QED BY <1>1, LeastNatural
<1> DEFINE m == Min(S)
<1> HIDE DEF m
<1>3. m \in 1 .. n /\ key[m] = key[i]
      BY <1>2 DEF m
<1>4. ASSUME NEW j \in 1 .. m - 1 PROVE key[j] # key[m]
  <2>1. j \in 1 .. n /\ ~(m <= j)
        BY <1>3
  <2>2. j \notin S
        BY <1>2, <2>1 DEF m
  <2> QED BY <1>3, <2>1, <2>2
<1> QED BY <1>3, <1>4 DEF FirstLike

\* A function on the first naturals is a sequence.
LEMMA FunctionSequence ==
  ASSUME NEW S, NEW n \in Nat, NEW f, DOMAIN f = 1 .. n, f = [k \in 1 .. n |-> f[k]],
         \A k \in 1 .. n : f[k] \in S
  PROVE  f \in Seq(S)
<1>1. f \in [1 .. n -> S]
      OBVIOUS
<1> QED BY <1>1

\* A sum goes through the sequence once, too.
Totalling(f, counts) ==
    /\ f \in [0 .. Len(counts) -> Nat] /\ f[0] = 0
    /\ \A i \in 1 .. Len(counts) : f[i] = f[i - 1] + counts[i]

\* The steps of that recursion exist.
LEMMA TotalSteps ==
  ASSUME NEW counts \in Seq(Nat)
  PROVE  \E f : Totalling(f, counts)
<1> DEFINE n == Len(counts)
           step == [i \in 1 .. n |-> [t \in Nat |-> t + counts[i]]]
<1>1. n \in Nat /\ step \in [1 .. n -> [Nat -> Nat]]
      OBVIOUS
<1>2. \E g : Follows(g, n, Nat, 0, step)
  <2> HIDE DEF n, step
  <2> QED BY <1>1, StepsExist
<1>3. PICK g \in [0 .. n -> Nat] : g[0] = 0 /\ \A i \in 1 .. n : g[i] = step[i][g[i - 1]]
      BY <1>2, Zenon DEF Follows
<1>4. ASSUME NEW i \in 1 .. n PROVE g[i] = g[i - 1] + counts[i]
  <2>1. i - 1 \in 0 .. n
        BY <1>1
  <2>2. g[i - 1] \in Nat /\ g[i] = step[i][g[i - 1]]
        BY <1>3, <2>1
  <2> QED BY <2>2
<1> QED BY <1>3, <1>4 DEF Totalling

\* Total is where they end.
LEMMA TotalIsLast ==
  ASSUME NEW counts \in Seq(Nat), NEW f, Totalling(f, counts)
  PROVE  Total(counts) = f[Len(counts)]
<1> DEFINE n == Len(counts)
           Value(g, i) == IF i = 0 THEN 0 ELSE g[i - 1] + counts[i]
           Solves(g) == g = [i \in 0 .. n |-> Value(g, i)]
           total == CHOOSE g : Solves(g)
<1>1. n \in Nat /\ f \in [0 .. n -> Nat]
      BY DEF Totalling
<1>2. \A i \in 0 .. n : f[i] = Value(f, i)
  <2> TAKE i \in 0 .. n
  <2>1. CASE i = 0
        BY <2>1 DEF Totalling
  <2>2. CASE i # 0
    <3>1. i \in 1 .. n
          BY <1>1, <2>2
    <3> QED BY <2>2, <3>1 DEF Totalling
  <2> QED BY <2>1, <2>2
<1>3. Solves(f)
  <2> HIDE DEF Value, n
  <2> QED BY <1>1, <1>2
<1>4. Solves(total)
  <2> HIDE DEF Solves
  <2> QED BY <1>3
<1>5. Total(counts) = total[n]
      BY DEF Total
<1> HIDE DEF total
<1>6. \A i \in 0 .. n : total[i] = Value(total, i)
  <2> HIDE DEF Value, n
  <2> QED BY <1>4
<1> DEFINE T == {i \in Nat : i <= n => total[i] = f[i]}
<1>7. 0 \in T
  <2>1. 0 \in 0 .. n /\ total[0] = Value(total, 0)
        BY <1>1, <1>6
  <2> QED BY <2>1 DEF Totalling
<1>8. ASSUME NEW k \in Nat, k \in T PROVE k + 1 \in T
  <2> SUFFICES ASSUME k + 1 <= n PROVE total[k + 1] = f[k + 1]
      OBVIOUS
  <2>1. k + 1 \in 1 .. n /\ k + 1 \in 0 .. n /\ k + 1 # 0 /\ (k + 1) - 1 = k /\ total[k] = f[k]
        BY <1>1, <1>8
  <2>2. total[k + 1] = total[k] + counts[k + 1]
    <3>1. total[k + 1] = Value(total, k + 1)
          BY <1>6, <2>1
    <3> QED BY <2>1, <3>1
  <2> QED BY <2>1, <2>2 DEF Totalling
<1>9. n \in T
  <2> HIDE DEF T, n
  <2> QED BY <1>1, <1>7, <1>8, SetInduction
<1> QED BY <1>5, <1>9

\* It grows, by each count at its place.
LEMMA TotalGrows ==
  ASSUME NEW counts \in Seq(Nat), NEW f, Totalling(f, counts)
  PROVE  \A k \in 0 .. Len(counts) : \A j \in 0 .. k :
            f[j] <= f[k] /\ (j # 0 => counts[j] <= f[k])
<1> DEFINE n == Len(counts)
           Below(k) == \A j \in 0 .. k : f[j] <= f[k] /\ (j # 0 => counts[j] <= f[k])
           T == {k \in Nat : k <= n => Below(k)}
<1>1. n \in Nat /\ \A i \in 0 .. n : f[i] \in Nat
  <2>1. f \in [0 .. n -> Nat]
        BY DEF Totalling
  <2> QED BY <2>1
<1>2. 0 \in T
      BY <1>1
<1>3. ASSUME NEW k \in Nat, k \in T PROVE k + 1 \in T
  <2> SUFFICES ASSUME k + 1 <= n, NEW j \in 0 .. k + 1
               PROVE  f[j] <= f[k + 1] /\ (j # 0 => counts[j] <= f[k + 1])
      OBVIOUS
  <2>1. /\ k + 1 \in 1 .. n /\ (k + 1) - 1 = k /\ counts[k + 1] \in Nat
        /\ f[k] \in Nat /\ f[k + 1] \in Nat
        BY <1>1
  <2>2. f[k + 1] = f[k] + counts[k + 1]
        BY <2>1 DEF Totalling
  <2>3. CASE j = k + 1
        BY <2>1, <2>2, <2>3
  <2>4. CASE j # k + 1
    <3>1. j \in 0 .. k /\ f[j] \in Nat
          BY <1>1, <2>1, <2>4
    <3>2. f[j] <= f[k] /\ (j # 0 => counts[j] <= f[k])
          BY <1>3, <2>1, <3>1
    <3>3. j # 0 => counts[j] \in Nat
          BY <2>1, <3>1
    <3> QED BY <2>1, <2>2, <3>1, <3>2, <3>3
  <2> QED BY <2>3, <2>4
<1>4. Nat \subseteq T
  <2> HIDE DEF T
  <2> QED BY <1>2, <1>3, SetInduction
<1> QED BY <1>1, <1>4

\* The total of a beginning is a step of the total.
LEMMA TotalOfBeginning ==
  ASSUME NEW counts \in Seq(Nat), NEW f, Totalling(f, counts), NEW k \in 0 .. Len(counts)
  PROVE  Total(SubSeq(counts, 1, k)) = f[k]
<1> DEFINE some == SubSeq(counts, 1, k)
           g == [i \in 0 .. k |-> f[i]]
<1>1. /\ some \in Seq(Nat) /\ Len(some) = k /\ k \in Nat /\ k <= Len(counts)
      /\ Len(counts) \in Nat /\ \A i \in 1 .. k : some[i] = counts[i]
      OBVIOUS
<1> HIDE DEF some
<1>2. Totalling(g, some)
  <2>1. \A i \in 0 .. k : i \in 0 .. Len(counts) /\ f[i] \in Nat
    <3> TAKE i \in 0 .. k
    <3> HIDE DEF g
    <3>1. f \in [0 .. Len(counts) -> Nat]
          BY DEF Totalling
    <3>2. i \in 0 .. Len(counts)
          BY <1>1
    <3> QED BY <3>1, <3>2
  <2>2. g \in [0 .. Len(some) -> Nat] /\ g[0] = 0
        BY <1>1, <2>1 DEF Totalling
  <2>3. ASSUME NEW i \in 1 .. k PROVE g[i] = g[i - 1] + some[i]
    <3>1. i \in 0 .. k /\ i - 1 \in 0 .. k /\ i \in 1 .. Len(counts)
          BY <1>1
    <3> QED BY <1>1, <3>1 DEF Totalling
  <2> QED BY <1>1, <2>2, <2>3 DEF Totalling
<1>3. Total(some) = g[Len(some)]
  <2> HIDE DEF g
  <2> QED BY <1>1, <1>2, TotalIsLast
<1> QED BY <1>1, <1>3 DEF some

Chars(text) == [i \in DOMAIN text |-> text[i].chars]

\* The characters of a text are such a sum.
LEMMA CountsOfLines ==
  ASSUME NEW L, \A l \in L : l.chars \in Nat, NEW text \in Seq(L)
  PROVE  /\ Chars(text) \in Seq(Nat) /\ Len(Chars(text)) = Len(text)
         /\ TextChars(text) = Total(Chars(text))
<1>1. /\ DOMAIN text = 1 .. Len(text) /\ Len(text) \in Nat
      /\ \A i \in 1 .. Len(text) : text[i].chars \in Nat
      OBVIOUS
<1>2. /\ DOMAIN Chars(text) = 1 .. Len(text) /\ Chars(text) = [i \in 1 .. Len(text) |-> Chars(text)[i]]
      /\ \A i \in 1 .. Len(text) : Chars(text)[i] \in Nat
      BY <1>1 DEF Chars
<1>3. Chars(text) \in Seq(Nat)
      BY <1>1, <1>2, FunctionSequence
<1>4. TextChars(text) = Total(Chars(text))
      BY DEF TextChars, Chars, Map
<1> QED BY <1>1, <1>2, <1>3, <1>4

\* A part of a text has no more of them than the text.
LEMMA CharsGrow ==
  ASSUME NEW L, \A l \in L : l.chars \in Nat, NEW text \in Seq(L)
  PROVE  /\ TextChars(text) \in Nat
         /\ \A i \in DOMAIN text : text[i].chars <= TextChars(text)
         /\ \A k \in 0 .. Len(text) : TextChars(SubSeq(text, 1, k)) \in Nat
                                       /\ TextChars(SubSeq(text, 1, k)) <= TextChars(text)
         /\ \A k \in 0 .. Len(text) : k + 1 <= Len(text) =>
               TextChars(SubSeq(text, 1, k + 1)) = TextChars(SubSeq(text, 1, k)) + text[k + 1].chars
<1> DEFINE n == Len(text)
<1>1. /\ Chars(text) \in Seq(Nat) /\ Len(Chars(text)) = n /\ n \in Nat
      /\ TextChars(text) = Total(Chars(text)) /\ DOMAIN text = 1 .. n
      /\ \A i \in 1 .. n : Chars(text)[i] = text[i].chars
      BY CountsOfLines DEF Chars
<1>2. PICK f : Totalling(f, Chars(text))
      BY <1>1, TotalSteps
<1>3. \A k \in 0 .. n : f[k] \in Nat
  <2>1. f \in [0 .. n -> Nat]
        BY <1>1, <1>2 DEF Totalling
  <2> QED BY <2>1
<1>4. ASSUME NEW k \in 0 .. n PROVE TextChars(SubSeq(text, 1, k)) = f[k]
  <2> DEFINE some == SubSeq(text, 1, k)
  <2>1. some \in Seq(L) /\ Len(some) = k /\ \A i \in 1 .. k : some[i] = text[i]
        OBVIOUS
  <2>2. SubSeq(Chars(text), 1, k) = Chars(some)
    <3>1. /\ SubSeq(Chars(text), 1, k) = [i \in 1 .. k |-> Chars(text)[i]]
          /\ Chars(some) = [i \in 1 .. k |-> some[i].chars]
          BY <1>1, <2>1 DEF Chars
    <3>2. \A i \in 1 .. k : Chars(text)[i] = some[i].chars
          BY <1>1, <2>1
    <3> QED BY <3>1, <3>2
  <2> HIDE DEF some
  <2>3. TextChars(some) = Total(Chars(some))
        BY <2>1, CountsOfLines
  <2>4. Total(SubSeq(Chars(text), 1, k)) = f[k]
        BY <1>1, <1>2, TotalOfBeginning
  <2> QED BY <2>2, <2>3, <2>4 DEF some
<1>5. TextChars(text) = f[n]
      BY <1>1, <1>2, TotalIsLast
<1>6. /\ \A k \in 0 .. n : f[k] <= f[n]
      /\ \A i \in 1 .. n : Chars(text)[i] <= f[n]
  <2>1. n \in 0 .. n /\ \A i \in 1 .. n : i \in 0 .. n /\ i # 0
        BY <1>1
  <2> QED BY <1>1, <1>2, <2>1, TotalGrows
<1>7. ASSUME NEW k \in 0 .. n, k + 1 <= n
      PROVE  TextChars(SubSeq(text, 1, k + 1)) = TextChars(SubSeq(text, 1, k)) + text[k + 1].chars
  <2>1. k + 1 \in 1 .. n /\ k + 1 \in 0 .. n /\ (k + 1) - 1 = k
        BY <1>1, <1>7
  <2>2. f[k + 1] = f[k] + Chars(text)[k + 1]
        BY <1>1, <1>2, <2>1 DEF Totalling
  <2> QED BY <1>1, <1>4, <2>1, <2>2
<1> HIDE DEF n
<1>8. n \in 0 .. n
      BY <1>1
<1> QED BY <1>1, <1>3, <1>4, <1>5, <1>6, <1>7, <1>8 DEF n

-----------------------------------------------------------------------------
(* The text of a frame                                                     *)

Lines  == [text : AnyText, conf : Nat]
Marked == [text : AnyText, marked : BOOLEAN]

\* A frame has lines, none of them empty.
LEMMA RawLines ==
  ASSUME NEW observations \in Frames
  PROVE  /\ ExtractRawLines(observations) \in Seq(Lines)
         /\ \A l \in ToSet(ExtractRawLines(observations)) : l.text.words # <<>>
<1> DEFINE seen == {i \in DOMAIN observations : observations[i] # <<>>}
           best == Map(Picked(observations, seen), LAMBDA o : Head(o))
           read == {i \in DOMAIN best : best[i].text.words # <<>>}
<1>1. observations \in Seq(Seq(Lines))
      BY InputsAssumption DEF Lines
<1>2. /\ Picked(observations, seen) \in Seq(Seq(Lines))
      /\ \A k \in DOMAIN Picked(observations, seen) : Picked(observations, seen)[k] # <<>>
      BY <1>1, PickedFrom
<1>3. best \in Seq(Lines)
  <2> DEFINE some == Picked(observations, seen)
  <2> HIDE DEF some
  <2>1. \A k \in DOMAIN some : Head(some[k]) \in Lines
        BY <1>2 DEF some
  <2>2. Map(some, LAMBDA o : Head(o)) = [k \in 1 .. Len(some) |-> Head(some[k])]
        BY <1>2 DEF Map, some
  <2>3. Len(some) \in Nat /\ DOMAIN some = 1 .. Len(some)
        BY <1>2 DEF some
  <2> DEFINE heads == [k \in 1 .. Len(some) |-> Head(some[k])]
  <2>4. heads \in Seq(Lines)
    <3>1. DOMAIN heads = 1 .. Len(some) /\ \A k \in 1 .. Len(some) : heads[k] \in Lines
          BY <2>1, <2>3
    <3>2. heads = [k \in 1 .. Len(some) |-> heads[k]]
          OBVIOUS
    <3> HIDE DEF heads
    <3> QED BY <2>3, <3>1, <3>2, FunctionSequence
  <2> QED BY <2>2, <2>4 DEF some
<1>4. ExtractRawLines(observations) = Picked(best, read)
      BY DEF ExtractRawLines, Select
<1> HIDE DEF best
<1>5. /\ Picked(best, read) \in Seq(Lines)
      /\ \A k \in DOMAIN Picked(best, read) :
            \E i \in read \cap DOMAIN best : Picked(best, read)[k] = best[i]
  <2> HIDE DEF read
  <2> QED BY <1>3, PickedFrom
<1> QED BY <1>4, <1>5 DEF ToSet

\* Preprocessing leaves lines that are legible, with a marker or without.
LEMMA PreprocessedLines ==
  ASSUME NEW raw0 \in Seq(Lines)
  PROVE  /\ Legible(raw0) \in Seq(Lines)
         /\ Preprocess(raw0) \in Seq(Marked)
         /\ \A k \in DOMAIN Preprocess(raw0) :
               \E l \in ToSet(Legible(raw0)) : Preprocess(raw0)[k].text = l.text
<1> DEFINE legible == Legible(raw0)
<1>1. legible \in Seq(Lines)
      BY PickedFrom DEF Legible, Select
<1> HIDE DEF legible
<1> DEFINE new == {i \in DOMAIN legible :
                     i > 1 => legible[i - 1].text.name # legible[i].text.name}
           once == Picked(legible, new)
<1>2. once \in Seq(Lines) /\ \A k \in DOMAIN once : \E i \in DOMAIN legible : once[k] = legible[i]
  <2> HIDE DEF new
  <2> QED BY <1>1, PickedFrom
<1>3. Preprocess(raw0) = [k \in DOMAIN once |-> [text |-> once[k].text,
                                                 marked |-> once[k].conf < LowConfThreshold]]
      BY DEF Preprocess, Unrepeated, Map, legible
<1> HIDE DEF once
<1>4. Preprocess(raw0) \in Seq(Marked)
  <2>1. DOMAIN once = 1 .. Len(once) /\ Len(once) \in Nat
        BY <1>2
  <2>2. ASSUME NEW k \in 1 .. Len(once) PROVE Preprocess(raw0)[k] \in Marked
    <3>1. once[k] \in Lines
          BY <1>2
    <3>2. once[k].text \in AnyText /\ (once[k].conf < LowConfThreshold) \in BOOLEAN
          BY <3>1 DEF Lines
    <3>3. Preprocess(raw0)[k] = [text |-> once[k].text,
                                 marked |-> once[k].conf < LowConfThreshold]
          BY <1>3, <2>1
    <3> QED BY <3>2, <3>3 DEF Marked
  <2>3. /\ Preprocess(raw0) = [k \in 1 .. Len(once) |-> Preprocess(raw0)[k]]
        /\ DOMAIN Preprocess(raw0) = 1 .. Len(once)
        BY <1>3, <2>1
  <2> QED BY <2>1, <2>2, <2>3, FunctionSequence
<1>5. \A k \in DOMAIN Preprocess(raw0) :
         \E l \in ToSet(legible) : Preprocess(raw0)[k].text = l.text
      BY <1>2, <1>3 DEF ToSet
<1> QED BY <1>1, <1>4, <1>5 DEF legible

\* normalize_text leaves some of the lines.
LEMMA NormalizedLines ==
  ASSUME NEW lines \in Seq(Marked)
  PROVE  /\ Normalize(lines) \in Seq(Marked)
         /\ \A k \in DOMAIN Normalize(lines) :
               \E i \in DOMAIN lines : Normalize(lines)[k] = lines[i]
<1> DEFINE good == {i \in DOMAIN lines : /\ Printed(lines[i]).bytes >= MinLineLength
                                         /\ ~IsNoise(Printed(lines[i]))}
           kept == Picked(lines, good)
           key(l) == <<l.text.name, l.marked>>
           first == {i \in DOMAIN kept : \A j \in 1 .. i - 1 : key(kept[j]) # key(kept[i])}
           once == Picked(kept, first)
<1>1. kept \in Seq(Marked) /\ \A k \in DOMAIN kept : \E i \in DOMAIN lines : kept[k] = lines[i]
  <2> HIDE DEF good
  <2> QED BY PickedFrom
<1>2. Normalize(lines) = SubSeq(once, 1, IF Len(once) < LineCap THEN Len(once) ELSE LineCap)
      BY DEF Normalize, Select, FirstOccurrences
<1> HIDE DEF kept
<1>3. once \in Seq(Marked) /\ \A k \in DOMAIN once : \E i \in DOMAIN kept : once[k] = kept[i]
  <2> HIDE DEF first
  <2> QED BY <1>1, PickedFrom
<1> HIDE DEF once
<1>4. /\ Normalize(lines) \in Seq(Marked)
      /\ \A k \in DOMAIN Normalize(lines) : k \in DOMAIN once /\ Normalize(lines)[k] = once[k]
      BY <1>2, <1>3, OcrAssumption
<1> QED BY <1>1, <1>3, <1>4

\* No name stands twice.
Distinct(texts) == \A i, j \in DOMAIN texts : texts[i].name = texts[j].name => i = j

\* A name is said once.
LEMMA NamedOnce ==
  ASSUME NEW S, NEW texts \in Seq(S)
  PROVE  /\ ByName(texts) \in Seq(S) /\ Distinct(ByName(texts))
         /\ \A k \in DOMAIN ByName(texts) : \E i \in DOMAIN texts : ByName(texts)[k] = texts[i]
<1> DEFINE first == {i \in DOMAIN texts : \A j \in 1 .. i - 1 : texts[j].name # texts[i].name}
           once == Picked(texts, first)
<1>1. ByName(texts) = once
      BY DEF ByName, FirstOccurrences
<1>2. PICK place : Stands(place, once, texts, first)
  <2> HIDE DEF first
  <2> QED BY PickedElements
<1>3. once \in Seq(S)
  <2> HIDE DEF first
  <2> QED BY PickedElements
<1> HIDE DEF once
<1>4. ASSUME NEW k \in DOMAIN once, NEW l \in DOMAIN once, k < l
      PROVE  once[k].name # once[l].name
  <2>1. /\ place[k] \in DOMAIN texts /\ place[l] \in first /\ place[k] < place[l]
        /\ once[k] = texts[place[k]] /\ once[l] = texts[place[l]]
        BY <1>2, <1>4 DEF Stands
  <2>2. place[k] \in 1 .. place[l] - 1
        BY <2>1
  <2> QED BY <2>1, <2>2
<1>5. Distinct(once)
  <2> SUFFICES ASSUME NEW i \in DOMAIN once, NEW j \in DOMAIN once, once[i].name = once[j].name
               PROVE  i = j
      BY DEF Distinct
  <2>1. i \in Nat /\ j \in Nat
        BY <1>3
  <2>2. ~(i < j) /\ ~(j < i)
        BY <1>4
  <2> QED BY <2>1, <2>2
<1>6. \A k \in DOMAIN once : \E i \in DOMAIN texts : once[k] = texts[i]
      BY <1>2 DEF Stands
<1> QED BY <1>1, <1>3, <1>5, <1>6

\* The texts of some lines, in order.
LEMMA TextsOfLines ==
  ASSUME NEW lines \in Seq(Marked)
  PROVE  /\ Texts(lines) \in Seq(AnyText) /\ DOMAIN Texts(lines) = DOMAIN lines
         /\ \A i \in DOMAIN lines : Texts(lines)[i] = lines[i].text
<1>1. Texts(lines) = [i \in DOMAIN lines |-> lines[i].text]
      BY DEF Texts, Map
<1>2. DOMAIN lines = 1 .. Len(lines) /\ Len(lines) \in Nat
      OBVIOUS
<1>3. \A i \in 1 .. Len(lines) : Texts(lines)[i] \in AnyText
  <2>1. \A l \in Marked : l.text \in AnyText
        BY DEF Marked
  <2>2. \A i \in 1 .. Len(lines) : lines[i] \in Marked
        OBVIOUS
  <2> QED BY <1>1, <1>2, <2>1, <2>2
<1>4. Texts(lines) = [i \in 1 .. Len(lines) |-> Texts(lines)[i]]
      BY <1>1, <1>2
<1>5. Texts(lines) \in Seq(AnyText)
      BY <1>1, <1>2, <1>3, <1>4, FunctionSequence
<1> QED BY <1>1, <1>5

\* Whichever test decides, what is left is the text of a line that is not chrome, once.
LEMMA HighSignal ==
  ASSUME NEW class, NEW lines \in Seq(Marked)
  PROVE  LET kept == BuildHighSignal(class, lines) IN
         /\ kept \in Seq(AnyText) /\ Distinct(kept)
         /\ \A k \in DOMAIN kept :
               ~ShouldDrop(class, kept[k]) /\ \E i \in DOMAIN lines : kept[k] = lines[i].text
<1> DEFINE good == {i \in DOMAIN lines : /\ ~ShouldDrop(class, lines[i].text)
                                         /\ Quality(class, lines[i]) >= 3600
                                         /\ lines[i].text.chars >= MinLineLen}
           passed == Picked(lines, good)
           texts == Texts(lines)
           plain == {i \in DOMAIN texts : /\ texts[i].bytes >= MinLineLen
                                          /\ ~ShouldDrop(class, texts[i])}
           left == Picked(texts, plain)
           kept == BuildHighSignal(class, lines)
<1>1. kept = IF passed # <<>> THEN ByName(Texts(passed)) ELSE ByName(left)
      BY DEF BuildHighSignal, Good, ReduceChromeNoise, Select
<1>2. CASE passed # <<>>
  <2>1. /\ passed \in Seq(Marked)
        /\ \A k \in DOMAIN passed : \E i \in good \cap DOMAIN lines : passed[k] = lines[i]
    <3> HIDE DEF good
    <3> QED BY PickedFrom
  <2>2. \A k \in DOMAIN passed : /\ ~ShouldDrop(class, passed[k].text)
                                 /\ \E i \in DOMAIN lines : passed[k].text = lines[i].text
        BY <2>1
  <2> HIDE DEF passed
  <2>3. /\ Texts(passed) \in Seq(AnyText)
        /\ \A k \in DOMAIN Texts(passed) :
              /\ ~ShouldDrop(class, Texts(passed)[k])
              /\ \E i \in DOMAIN lines : Texts(passed)[k] = lines[i].text
        BY <2>1, <2>2, TextsOfLines
  <2>4. kept = ByName(Texts(passed))
        BY <1>1, <1>2
  <2> HIDE DEF kept
  <2>5. /\ kept \in Seq(AnyText) /\ Distinct(kept)
        /\ \A k \in DOMAIN kept : \E i \in DOMAIN Texts(passed) : kept[k] = Texts(passed)[i]
        BY <2>3, <2>4, NamedOnce
  <2>6. \A k \in DOMAIN kept :
           ~ShouldDrop(class, kept[k]) /\ \E i \in DOMAIN lines : kept[k] = lines[i].text
        BY <2>3, <2>5
  <2> QED BY <2>5, <2>6 DEF kept
<1>3. CASE ~(passed # <<>>)
  <2>1. /\ texts \in Seq(AnyText) /\ DOMAIN texts = DOMAIN lines
        /\ \A i \in DOMAIN lines : texts[i] = lines[i].text
        BY TextsOfLines
  <2>2. /\ left \in Seq(AnyText)
        /\ \A k \in DOMAIN left : \E i \in plain \cap DOMAIN texts : left[k] = texts[i]
    <3> HIDE DEF texts, plain
    <3> QED BY <2>1, PickedFrom
  <2>3. \A k \in DOMAIN left : /\ ~ShouldDrop(class, left[k])
                               /\ \E i \in DOMAIN lines : left[k] = lines[i].text
    <3> HIDE DEF left, texts
    <3> QED BY <2>1, <2>2
  <2>4. kept = ByName(left)
    <3> HIDE DEF kept, passed, left
    <3> QED BY <1>1, <1>3
  <2> HIDE DEF kept, left
  <2>5. /\ kept \in Seq(AnyText) /\ Distinct(kept)
        /\ \A k \in DOMAIN kept : \E i \in DOMAIN left : kept[k] = left[i]
        BY <2>2, <2>4, NamedOnce
  <2>6. \A k \in DOMAIN kept :
           ~ShouldDrop(class, kept[k]) /\ \E i \in DOMAIN lines : kept[k] = lines[i].text
        BY <2>3, <2>5
  <2> QED BY <2>5, <2>6 DEF kept
<1> QED BY <1>2, <1>3

\* What a frame says was legible on it, is not chrome and is said once.
LEMMA FrameText ==
  ASSUME NEW class, NEW raw0 \in Seq(Lines)
  PROVE  LET kept == BuildHighSignal(class, Recognize(raw0).lines) IN
         /\ kept \in Seq(AnyText) /\ Distinct(kept)
         /\ \A k \in DOMAIN kept : /\ ~ShouldDrop(class, kept[k])
                                   /\ \E l \in ToSet(Legible(raw0)) : kept[k] = l.text
<1> DEFINE lines == Normalize(Preprocess(raw0))
           kept == BuildHighSignal(class, lines)
<1>1. Recognize(raw0).lines = lines
      BY DEF Recognize
<1>2. /\ lines \in Seq(Marked)
      /\ \A i \in DOMAIN lines : \E l \in ToSet(Legible(raw0)) : lines[i].text = l.text
      BY PreprocessedLines, NormalizedLines
<1> HIDE DEF lines
<1>3. /\ kept \in Seq(AnyText) /\ Distinct(kept)
      /\ \A k \in DOMAIN kept :
            ~ShouldDrop(class, kept[k]) /\ \E i \in DOMAIN lines : kept[k] = lines[i].text
      BY <1>2, HighSignal
<1> HIDE DEF kept
<1>4. \A k \in DOMAIN kept : /\ ~ShouldDrop(class, kept[k])
                             /\ \E l \in ToSet(Legible(raw0)) : kept[k] = l.text
      BY <1>2, <1>3
<1> QED BY <1>1, <1>3, <1>4 DEF kept

-----------------------------------------------------------------------------
(* Prose on a frame                                                        *)

TextsOf(lines) == {lines[i].text : i \in DOMAIN lines}

\* Lines that differ in case only measure the same.
Telling(texts) == \A t, u \in texts : t.name = u.name => t = u

\* A text that a line of prose has.
ProseText(class, t) ==
    /\ t \in AnyText /\ t.chars >= MinSegment /\ t.chars <= t.bytes
    /\ t.symbols = 0 /\ t.pathish = 0 /\ t.words # <<>> /\ t.form = "prose"
    /\ ~IsNoise(t) /\ ~ShouldDrop(class, t) /\ ~HasSecret(t)

\* Preprocessing drops nothing that is legible and new.
LEMMA ProseIsRead ==
  ASSUME NEW raw0 \in Seq(Lines), Telling(TextsOf(raw0)),
         NEW i \in DOMAIN raw0, raw0[i].conf >= 50, raw0[i].text.words # <<>>
  PROVE  /\ raw0[i].text \in TextsOf(Preprocess(raw0)) /\ Len(Preprocess(raw0)) <= Len(raw0)
         /\ TextsOf(Preprocess(raw0)) \subseteq TextsOf(raw0)
<1> DEFINE at == {j \in DOMAIN raw0 : raw0[j].conf >= DropThreshold /\ raw0[j].text.words # <<>>}
           legible == Picked(raw0, at)
<1>1. Legible(raw0) = legible
      BY DEF Legible, Select
<1>2. i \in at \cap DOMAIN raw0
  <2>1. \A l \in Lines : l.conf \in Nat
        BY DEF Lines
  <2>2. raw0[i] \in Lines
        OBVIOUS
  <2>3. raw0[i].conf >= DropThreshold
        BY <2>1, <2>2 DEF DropThreshold
  <2> QED BY <2>3
<1> HIDE DEF at
<1>3. /\ legible \in Seq(Lines) /\ Len(legible) <= Len(raw0)
      /\ \A k \in DOMAIN legible : \E j \in DOMAIN raw0 : legible[k] = raw0[j]
      BY PickedFrom, PickedAll
<1>4. PICK l \in DOMAIN legible : legible[l] = raw0[i]
      BY <1>2, PickedAll
<1> HIDE DEF legible
<1> DEFINE name == [j \in DOMAIN legible |-> legible[j].text.name]
           new == {j \in DOMAIN legible :
                     j > 1 => legible[j - 1].text.name # legible[j].text.name}
           once == Picked(legible, new)
<1>5. PICK k \in DOMAIN legible : name[k] = name[l] /\ \A j \in 1 .. k - 1 : name[j] # name[k]
  <2> DEFINE n == Len(legible)
  <2>1. n \in Nat /\ DOMAIN legible = 1 .. n /\ l \in 1 .. n
        BY <1>3
  <2> HIDE DEF name, n, new
  <2>2. \E k \in 1 .. n : FirstLike(name, k, l)
        BY <2>1, FirstOfKind
  <2> QED BY <2>1, <2>2 DEF FirstLike
<1>6. k \in new
  <2> SUFFICES ASSUME k > 1 PROVE legible[k - 1].text.name # legible[k].text.name
      OBVIOUS
  <2>1. k - 1 \in 1 .. k - 1 /\ k - 1 \in DOMAIN legible
        BY <1>3
  <2> QED BY <1>5, <2>1
<1>7. legible[k].text = raw0[i].text
  <2>1. legible[k].text.name = raw0[i].text.name
        BY <1>4, <1>5
  <2>2. legible[k].text \in TextsOf(raw0) /\ raw0[i].text \in TextsOf(raw0)
        BY <1>3 DEF TextsOf
  <2> QED BY <2>1, <2>2 DEF Telling
<1>8. Preprocess(raw0) = [j \in DOMAIN once |-> [text |-> once[j].text,
                                                 marked |-> once[j].conf < LowConfThreshold]]
      BY <1>1 DEF Preprocess, Unrepeated, Map
<1> HIDE DEF new
<1>9. /\ once \in Seq(Lines) /\ Len(once) <= Len(legible)
      /\ \A m \in DOMAIN once : \E j \in DOMAIN legible : once[m] = legible[j]
      /\ \A j \in new \cap DOMAIN legible : \E m \in DOMAIN once : once[m] = legible[j]
      BY <1>3, PickedFrom, PickedAll
<1>10. PICK m \in DOMAIN once : once[m] = legible[k]
  <2>1. k \in new \cap DOMAIN legible
        BY <1>6
  <2> HIDE DEF once
  <2> QED BY <1>9, <2>1
<1> HIDE DEF once
<1>11. \A j \in DOMAIN once : j \in DOMAIN Preprocess(raw0) /\ Preprocess(raw0)[j].text = once[j].text
      BY <1>8
<1>12. raw0[i].text \in TextsOf(Preprocess(raw0))
      BY <1>7, <1>10, <1>11 DEF TextsOf
<1>13. Len(Preprocess(raw0)) = Len(once)
  <2>1. Len(once) \in Nat /\ DOMAIN Preprocess(raw0) = 1 .. Len(once)
        BY <1>8, <1>9
  <2> QED BY <2>1, PreprocessedLines
<1>14. TextsOf(Preprocess(raw0)) \subseteq TextsOf(raw0)
      BY <1>3, <1>8, <1>9 DEF TextsOf
<1>15. Len(once) \in Nat /\ Len(legible) \in Nat /\ Len(raw0) \in Nat
      BY <1>3, <1>9
<1> QED BY <1>3, <1>9, <1>12, <1>13, <1>14, <1>15

\* The marker makes no noise of prose.
LEMMA ProseIsPrinted ==
  ASSUME SegmentsAreEnough, NEW class, NEW l \in Marked, ProseText(class, l.text)
  PROVE  Printed(l).bytes >= MinLineLength /\ ~IsNoise(Printed(l))
<1> DEFINE t == l.text
           u == Printed(l)
<1>1. /\ t.bytes \in Nat /\ t.chars \in Nat /\ t.alnum \in Nat /\ t.bytes >= 12
      /\ MinLineLength \in Nat /\ MinLineLength <= 12 /\ t.words \in Seq(STRING)
  <2>1. t \in AnyText /\ t.chars >= MinSegment /\ t.chars <= t.bytes
        BY DEF ProseText
  <2>2. t.bytes \in Nat /\ t.chars \in Nat /\ t.alnum \in Nat /\ t.words \in Seq(STRING)
        BY <2>1 DEF AnyText
  <2> QED BY <2>1, <2>2 DEF SegmentsAreEnough, MinSegment
<1>2. CASE ~l.marked
  <2>1. u = t
        BY <1>2 DEF Printed
  <2> QED BY <1>1, <2>1 DEF ProseText
<1>3. CASE l.marked
  <2>1. /\ u.words = <<"[low_conf]">> \o t.words /\ u.bytes = t.bytes + 11
        /\ u.chars = t.chars + 11 /\ u.alnum = t.alnum + 7 /\ u.spells = t.spells
        /\ u.opens = {} /\ u.form = "prose"
    <3>1. t \in AnyText
          BY DEF ProseText
    <3>2. u = [t EXCEPT !.words = <<"[low_conf]">> \o @, !.bytes = @ + 11, !.chars = @ + 11,
                        !.alnum = @ + 7, !.symbols = @ + 3, !.opens = {}, !.form = "prose"]
          BY <1>3 DEF Printed
    <3> QED BY <3>1, <3>2 DEF AnyText
  <2>2. /\ ~Spells(t, BasePatterns) /\ ~(2 * t.alnum < t.chars)
        /\ ~(Spells(t, Months) /\ t.bytes < 15)
        BY DEF ProseText, IsNoise
  <2>3. ~(Len(u.words) = 1 /\ Head(u.words) \in UiWords)
    <3>1. t.words # <<>>
          BY DEF ProseText
    <3>2. Len(t.words) > 0
          BY <1>1, <3>1
    <3>3. Len(u.words) = Len(t.words) + 1
          BY <1>1, <2>1
    <3> QED BY <1>1, <3>2, <3>3
  <2> HIDE DEF t, u
  <2>4. ~Spells(u, BasePatterns) /\ ~(Spells(u, Months) /\ u.bytes < 15)
        BY <1>1, <2>1, <2>2 DEF Spells
  <2>5. ~(2 * u.alnum < u.chars) /\ u.bytes >= MinLineLength
    <3>1. ASSUME NEW a \in Nat, NEW c \in Nat, ~(2 * a < c) PROVE ~(2 * (a + 7) < c + 11)
          BY <3>1
    <3>2. u.alnum = t.alnum + 7 /\ u.chars = t.chars + 11 /\ u.bytes = t.bytes + 11
          BY <2>1
    <3>3. ~(2 * (t.alnum + 7) < t.chars + 11)
          BY <1>1, <2>2, <3>1
    <3>4. t.bytes + 11 >= MinLineLength
          BY <1>1
    <3> QED BY <3>2, <3>3, <3>4
  <2>6. ~(u.form \in {"clock", "percentage", "size"}) /\ u.opens \cap Weekdays = {}
        BY <2>1
  <2> QED BY <2>3, <2>4, <2>5, <2>6 DEF IsNoise, u
<1> QED BY <1>2, <1>3

\* normalize_text drops nothing that is printed well and new.
LEMMA ProseIsNormalized ==
  ASSUME NEW lines \in Seq(Marked), Len(lines) <= LineCap, NEW i \in DOMAIN lines,
         Printed(lines[i]).bytes >= MinLineLength, ~IsNoise(Printed(lines[i])),
         Telling(TextsOf(lines))
  PROVE  lines[i].text \in TextsOf(Normalize(lines))
<1> DEFINE good == {j \in DOMAIN lines : /\ Printed(lines[j]).bytes >= MinLineLength
                                         /\ ~IsNoise(Printed(lines[j]))}
           kept == Picked(lines, good)
<1>1. i \in good \cap DOMAIN lines
      OBVIOUS
<1> HIDE DEF good
<1>2. kept \in Seq(Marked) /\ Len(kept) <= Len(lines)
      BY PickedFrom, PickedAll
<1>3. PICK k \in DOMAIN kept : kept[k] = lines[i]
      BY <1>1, PickedAll
<1>4. \A m \in DOMAIN kept : kept[m].text \in TextsOf(lines)
  <2>1. \A m \in DOMAIN kept : \E j \in DOMAIN lines : kept[m] = lines[j]
        BY PickedFrom
  <2> QED BY <2>1 DEF TextsOf
<1> DEFINE key == [j \in DOMAIN kept |-> <<kept[j].text.name, kept[j].marked>>]
           first == {j \in DOMAIN kept : \A m \in 1 .. j - 1 :
                        <<kept[m].text.name, kept[m].marked>> # <<kept[j].text.name, kept[j].marked>>}
           once == Picked(kept, first)
<1>5. Normalize(lines) = SubSeq(once, 1, IF Len(once) < LineCap THEN Len(once) ELSE LineCap)
      BY DEF Normalize, Select, FirstOccurrences, good
<1> HIDE DEF kept
<1>6. PICK l \in DOMAIN kept : key[l] = key[k] /\ \A j \in 1 .. l - 1 : key[j] # key[l]
  <2> DEFINE n == Len(kept)
  <2>1. n \in Nat /\ DOMAIN kept = 1 .. n /\ k \in 1 .. n
        BY <1>2
  <2> HIDE DEF key, n, first
  <2>2. \E l \in 1 .. n : FirstLike(key, l, k)
        BY <2>1, FirstOfKind
  <2> QED BY <2>1, <2>2 DEF FirstLike
<1>7. l \in first
  <2>1. \A m \in 1 .. l - 1 : m \in DOMAIN kept
        BY <1>2
  <2> QED BY <1>6, <2>1
<1>8. kept[l].text = lines[i].text
  <2>1. kept[l].text.name = lines[i].text.name
        BY <1>3, <1>6
  <2>2. lines[i].text \in TextsOf(lines)
        BY DEF TextsOf
  <2> QED BY <1>4, <2>1, <2>2 DEF Telling
<1> HIDE DEF first
<1>9. once \in Seq(Marked) /\ Len(once) <= Len(kept)
      BY <1>2, PickedFrom, PickedAll
<1>10. PICK m \in DOMAIN once : once[m] = kept[l]
  <2>1. l \in first \cap DOMAIN kept
        BY <1>7
  <2> HIDE DEF key
  <2>2. \A j \in first \cap DOMAIN kept : \E m \in DOMAIN once : once[m] = kept[j]
        BY <1>2, PickedAll
  <2> HIDE DEF once
  <2> QED BY <2>1, <2>2
<1> HIDE DEF once
<1>11. Normalize(lines) = once
  <2>1. Len(once) \in Nat /\ Len(kept) \in Nat /\ Len(lines) \in Nat
        BY <1>2, <1>9
  <2>2. (IF Len(once) < LineCap THEN Len(once) ELSE LineCap) = Len(once)
        BY <1>2, <1>9, <2>1, OcrAssumption
  <2> QED BY <1>5, <1>9, <2>2
<1> QED BY <1>8, <1>10, <1>11 DEF TextsOf

\* A text half of which is letters and digits, and none of it symbols, scores this much.
LEMMA LettersScore ==
  ASSUME NEW a \in Nat, NEW c \in Nat, c > 0, ~(2 * a < c)
  PROVE  (5200 * a + 2800 * (c - 0)) \div c \in Int /\ (5200 * a + 2800 * (c - 0)) \div c >= 5400
<1> DEFINE s == 5200 * a + 2800 * (c - 0)
           q == s \div c
<1>1. s \in Nat /\ s >= 5400 * c
      OBVIOUS
<1> HIDE DEF s
<1>2. q \in Int /\ s < c * (q + 1)
      BY <1>1
<1> HIDE DEF q
<1>3. q >= 5400
  <2> SUFFICES ASSUME q + 1 <= 5400 PROVE FALSE
      BY <1>2
  <2>1. c * (q + 1) <= c * 5400
        BY <1>2
  <2> QED BY <1>1, <1>2, <2>1
<1> QED BY <1>2, <1>3 DEF q, s

\* Prose is above the quality threshold, with the marker or without.
LEMMA ProseIsGood ==
  ASSUME NEW class, NEW l \in Marked, ProseText(class, l.text)
  PROVE  Quality(class, l) >= 3600 /\ l.text.chars >= MinLineLen
<1> DEFINE t == l.text
           long == IF t.chars < 180 THEN t.chars ELSE 180
           share == (5200 * t.alnum + 2800 * (t.chars - t.symbols)) \div t.chars
           base == share + (2000 * long) \div 180
           conf == Scaled(base, 78, l.marked)
           kind == Scaled(conf, 16, ShouldDrop(class, t))
<1>1. /\ t.chars \in Nat /\ t.alnum \in Nat /\ t.chars >= 12 /\ t.symbols = 0
      /\ ~(2 * t.alnum < t.chars) /\ ~ShouldDrop(class, t) /\ ~LooksLikeFileInventory(t)
  <2>1. /\ t \in AnyText /\ t.chars >= MinSegment /\ t.symbols = 0 /\ t.pathish = 0
        /\ ~IsNoise(t) /\ ~ShouldDrop(class, t)
        BY DEF ProseText
  <2>2. t.chars \in Nat /\ t.alnum \in Nat
        BY <2>1 DEF AnyText
  <2>3. ~(2 * t.alnum < t.chars)
        BY <2>1 DEF IsNoise
  <2>4. ~LooksLikeFileInventory(t)
        BY <2>1 DEF LooksLikeFileInventory
  <2>5. t.chars >= 12
        BY <2>1 DEF MinSegment
  <2> QED BY <2>1, <2>2, <2>3, <2>4, <2>5
<1>2. Quality(class, l) = Scaled(kind, 25, class # "Code" /\ LooksLikeFileInventory(t))
      BY DEF Quality
<1>3. Quality(class, l) = conf
      BY <1>1, <1>2 DEF Scaled
<1> HIDE DEF t
<1>4. share \in Int /\ share >= 5400
      BY <1>1, LettersScore
<1>5. (2000 * long) \div 180 \in Int /\ (2000 * long) \div 180 >= 0
  <2>1. long \in Nat
        BY <1>1
  <2> HIDE DEF long
  <2> QED BY <2>1
<1> HIDE DEF share, long
<1>6. base \in Int /\ base >= 5400
      BY <1>4, <1>5
<1> HIDE DEF base
<1>7. conf >= 3600
      BY <1>6 DEF Scaled
<1> QED BY <1>1, <1>3, <1>7 DEF MinLineLen, t

\* Every name stays.
LEMMA NamedAll ==
  ASSUME NEW S, NEW texts \in Seq(S), NEW i \in DOMAIN texts
  PROVE  \E k \in DOMAIN ByName(texts) : ByName(texts)[k].name = texts[i].name
<1> DEFINE first == {j \in DOMAIN texts : \A m \in 1 .. j - 1 : texts[m].name # texts[j].name}
           name == [j \in DOMAIN texts |-> texts[j].name]
           once == Picked(texts, first)
           n == Len(texts)
<1>1. ByName(texts) = once
      BY DEF ByName, FirstOccurrences
<1>2. n \in Nat /\ DOMAIN texts = 1 .. n /\ i \in 1 .. n
      OBVIOUS
<1>3. PICK k \in 1 .. n : FirstLike(name, k, i)
  <2> HIDE DEF name, n
  <2> QED BY <1>2, FirstOfKind
<1>4. k \in first \cap DOMAIN texts /\ texts[k].name = texts[i].name
  <2>1. name[k] = name[i] /\ \A j \in 1 .. k - 1 : name[j] # name[k]
        BY <1>3, Zenon DEF FirstLike
  <2>2. \A j \in 1 .. k - 1 : j \in 1 .. n
        BY <1>2
  <2>3. \A j \in 1 .. n : name[j] = texts[j].name
        BY <1>2
  <2> HIDE DEF name, n
  <2> QED BY <1>2, <2>1, <2>2, <2>3
<1> HIDE DEF first, name
<1>5. \A j \in first \cap DOMAIN texts : \E m \in DOMAIN once : once[m] = texts[j]
      BY PickedAll
<1> HIDE DEF once
<1> QED BY <1>1, <1>4, <1>5

\* Prose is evidence.
LEMMA ProseIsEvident ==
  ASSUME NEW class, NEW lines \in Seq(Marked), Telling(TextsOf(lines)),
         NEW i \in DOMAIN lines, ProseText(class, lines[i].text)
  PROVE  lines[i].text \in ToSet(BuildHighSignal(class, lines))
<1> DEFINE good == {j \in DOMAIN lines : /\ ~ShouldDrop(class, lines[j].text)
                                         /\ Quality(class, lines[j]) >= 3600
                                         /\ lines[j].text.chars >= MinLineLen}
           passed == Picked(lines, good)
           kept == BuildHighSignal(class, lines)
<1>1. i \in good \cap DOMAIN lines
  <2>1. lines[i] \in Marked
        OBVIOUS
  <2> QED BY <2>1, ProseIsGood DEF ProseText
<1>2. Good(class, lines) = passed
      BY DEF Good, Select
<1> HIDE DEF good
<1>3. /\ passed \in Seq(Marked)
      /\ \A k \in DOMAIN passed : \E j \in good \cap DOMAIN lines : passed[k] = lines[j]
      BY PickedFrom
<1>4. PICK m \in DOMAIN passed : passed[m] = lines[i]
  <2>1. \A j \in good \cap DOMAIN lines : \E k \in DOMAIN passed : passed[k] = lines[j]
        BY PickedAll
  <2> HIDE DEF passed
  <2> QED BY <1>1, <2>1
<1> HIDE DEF passed
<1>5. kept = ByName(Texts(passed))
  <2>1. passed # <<>>
        BY <1>3, <1>4
  <2> QED BY <1>2, <2>1 DEF BuildHighSignal
<1>6. /\ Texts(passed) \in Seq(AnyText) /\ DOMAIN Texts(passed) = DOMAIN passed
      /\ \A k \in DOMAIN passed : Texts(passed)[k] = passed[k].text
      BY <1>3, TextsOfLines
<1>7. PICK k \in DOMAIN kept : kept[k].name = Texts(passed)[m].name
      BY <1>4, <1>5, <1>6, NamedAll
<1>8. PICK j \in DOMAIN Texts(passed) : kept[k] = Texts(passed)[j]
      BY <1>5, <1>6, NamedOnce
<1> HIDE DEF kept
<1>9. kept[k] \in TextsOf(lines) /\ lines[i].text \in TextsOf(lines)
  <2>1. j \in DOMAIN passed /\ kept[k] = passed[j].text
        BY <1>6, <1>8
  <2>2. PICK g \in DOMAIN lines : passed[j] = lines[g]
        BY <1>3, <2>1
  <2> QED BY <2>1, <2>2 DEF TextsOf
<1>10. kept[k] = lines[i].text
      BY <1>4, <1>6, <1>7, <1>9 DEF Telling
<1> QED BY <1>10 DEF ToSet, kept

\* The confidence of a frame is a number.
LEMMA ConfidenceIsNumber ==
  ASSUME NEW raw0 \in Seq(Lines)
  PROVE  Recognize(raw0).confidence \in Int
<1> DEFINE counts == [i \in DOMAIN raw0 |-> raw0[i].conf]
           n == Len(raw0)
<1>1. n \in Nat /\ DOMAIN raw0 = 1 .. n /\ \A i \in 1 .. n : raw0[i] \in Lines
      OBVIOUS
<1>2. \A l \in Lines : l.conf \in Nat
      BY DEF Lines
<1>3. /\ DOMAIN counts = 1 .. n /\ counts = [i \in 1 .. n |-> counts[i]]
      /\ \A i \in 1 .. n : counts[i] \in Nat
      BY <1>1, <1>2
<1>4. Recognize(raw0).confidence = IF raw0 = <<>> THEN 0 ELSE Total(counts) \div n
      BY DEF Recognize, Map
<1> HIDE DEF counts
<1>5. counts \in Seq(Nat)
  <2> HIDE DEF n
  <2> QED BY <1>1, <1>3, FunctionSequence
<1>6. PICK f : Totalling(f, counts)
      BY <1>5, TotalSteps
<1>7. Total(counts) \in Nat
  <2>1. Total(counts) = f[Len(counts)]
        BY <1>5, <1>6, TotalIsLast
  <2>2. f \in [0 .. Len(counts) -> Nat] /\ Len(counts) \in 0 .. Len(counts)
        BY <1>5, <1>6 DEF Totalling
  <2> QED BY <2>1, <2>2
<1>8. raw0 # <<>> => n > 0
      OBVIOUS
<1> HIDE DEF n
<1>9. raw0 # <<>> => Total(counts) \div n \in Int
      BY <1>1, <1>7, <1>8
<1> QED BY <1>4, <1>9

\* One line of prose is enough evidence.
LEMMA EnoughEvidence ==
  ASSUME SegmentsAreEnough, NEW kept \in Seq(AnyText), NEW t \in ToSet(kept), t.chars >= MinSegment,
         NEW confidence \in Int, confidence >= 35, NEW blocks
  PROVE  ~IsLowSignal(kept, confidence, blocks, MinOcrChars)
<1>1. \A u \in AnyText : u.chars \in Nat
      BY DEF AnyText
<1>2. PICK i \in DOMAIN kept : t = kept[i]
      BY DEF ToSet
<1>3. TextChars(kept) \in Nat /\ t.chars <= TextChars(kept) /\ t.chars \in Nat
  <2>1. kept[i] \in AnyText
        OBVIOUS
  <2> QED BY <1>1, <1>2, <2>1, CharsGrow
<1>4. LineChars(kept) = TextChars(kept) + (IF kept = <<>> THEN 0 ELSE Len(kept) - 1)
      BY DEF LineChars, TextChars, Map
<1>5. kept # <<>> /\ Len(kept) \in Nat /\ Len(kept) > 0
      BY <1>2
<1>6. ~(LineChars(kept) < MinOcrChars)
      BY <1>3, <1>4, <1>5 DEF SegmentsAreEnough, MinSegment
<1> QED BY <1>6 DEF IsLowSignal

\* What prose a frame shows is in its text.
LEMMA ProseIsInText ==
  ASSUME LinesAreTexts, SegmentsAreEnough, NEW class, NEW observations \in Frames,
         NEW l \in ToSet(ExtractRawLines(observations)), IsProse(class, l)
  PROVE  /\ ProseText(class, l.text)
         /\ l.text \in ToSet(BuildHighSignal(class, Recognize(ExtractRawLines(observations)).lines))
<1> DEFINE raw0 == ExtractRawLines(observations)
           lines == Preprocess(raw0)
           norm == Normalize(lines)
<1>1. raw0 \in Seq(Lines) /\ l.text.words # <<>> /\ l \in ToSet(raw0)
      BY RawLines
<1>2. /\ Len(raw0) <= LineCap
      /\ \A k, m \in ToSet(raw0) :
            /\ k.text.chars <= k.text.bytes /\ k.text.chars <= LongestLine
            /\ k.text.symbols = 0 => k.text.pathish = 0
            /\ k.text.name = m.text.name => k.text = m.text
      BY DEF LinesAreTexts
<1>3. Recognize(raw0).lines = norm
      BY DEF Recognize
<1> HIDE DEF raw0
<1>4. PICK i \in DOMAIN raw0 : l = raw0[i]
      BY <1>1 DEF ToSet
<1>5. ProseText(class, l.text)
  <2>1. l \in Lines
        BY <1>1, <1>4
  <2>2. l.text \in AnyText
        BY <2>1 DEF Lines
  <2> QED BY <1>1, <1>2, <2>2 DEF ProseText, IsProse
<1>6. Telling(TextsOf(raw0))
      BY <1>2 DEF Telling, TextsOf, ToSet
<1>7. /\ l.text \in TextsOf(lines) /\ Len(lines) <= Len(raw0)
      /\ TextsOf(lines) \subseteq TextsOf(raw0)
      BY <1>1, <1>4, <1>6, ProseIsRead DEF IsProse
<1>8. lines \in Seq(Marked)
      BY <1>1, PreprocessedLines
<1> HIDE DEF lines
<1>9. Telling(TextsOf(lines)) /\ Len(lines) <= LineCap
  <2>1. Len(lines) \in Nat /\ Len(raw0) \in Nat
        BY <1>1, <1>8
  <2> QED BY <1>2, <1>6, <1>7, <2>1, OcrAssumption DEF Telling
<1>10. PICK j \in DOMAIN lines : l.text = lines[j].text
      BY <1>7 DEF TextsOf
<1>11. l.text \in TextsOf(norm)
  <2>1. lines[j] \in Marked /\ ProseText(class, lines[j].text)
        BY <1>5, <1>8, <1>10
  <2>2. Printed(lines[j]).bytes >= MinLineLength /\ ~IsNoise(Printed(lines[j]))
        BY <2>1, ProseIsPrinted
  <2> QED BY <1>8, <1>9, <1>10, <2>2, ProseIsNormalized
<1>12. norm \in Seq(Marked) /\ TextsOf(norm) \subseteq TextsOf(lines)
  <2>1. norm \in Seq(Marked) /\ \A k \in DOMAIN norm : \E m \in DOMAIN lines : norm[k] = lines[m]
        BY <1>8, NormalizedLines
  <2> QED BY <2>1 DEF TextsOf
<1> HIDE DEF norm
<1>13. PICK k \in DOMAIN norm : l.text = norm[k].text
      BY <1>11 DEF TextsOf
<1>14. l.text \in ToSet(BuildHighSignal(class, norm))
  <2>1. Telling(TextsOf(norm))
        BY <1>9, <1>12 DEF Telling
  <2> QED BY <1>5, <1>12, <1>13, <2>1, ProseIsEvident
<1> QED BY <1>3, <1>5, <1>14 DEF raw0

-----------------------------------------------------------------------------
(* The text of a story                                                     *)

\* Apart from separators and placeholders, a text says a line once.
SaidOnce(text) ==
    TitlesAreNoPlaces => \A i, j \in DOMAIN text :
        /\ text[i] \notin {Bullet, Placeholder} /\ text[j] \notin {Bullet, Placeholder}
        /\ text[i].name = text[j].name
        => i = j

\* A sequence of one element.
LEMMA LoneElement ==
  ASSUME NEW S, NEW s \in Seq(S), Len(s) = 1
  PROVE  s = <<s[1]>>
  BY SeqEqual

\* A text that does not say a line has no line of its name.
LEMMA NotSaid ==
  ASSUME NEW L, NEW text \in Seq(L), NEW l, ~SaysAllOf(text, <<l>>)
  PROVE  \A k \in DOMAIN text : text[k].name # l.name
<1> SUFFICES ASSUME NEW k \in DOMAIN text, text[k].name = l.name PROVE FALSE
    OBVIOUS
<1> DEFINE names == Names(text)
           S == {text[i].name : i \in DOMAIN text}
<1>1. /\ DOMAIN names = 1 .. Len(text) /\ names = [i \in 1 .. Len(text) |-> names[i]]
      /\ \A i \in 1 .. Len(text) : names[i] \in S /\ names[i] = text[i].name
      BY DEF Names
<1>2. names \in Seq(S) /\ Len(names) = Len(text)
  <2>1. Len(text) \in Nat
        OBVIOUS
  <2> HIDE DEF names, S
  <2>2. names \in Seq(S)
        BY <1>1, <2>1, FunctionSequence
  <2> QED BY <1>1, <2>1, <2>2
<1>3. Names(<<l>>) = <<l.name>> /\ Len(<<l>>) = 1
      BY DEF Names
<1>4. k \in 1 .. Len(text) /\ names[k] = l.name
      BY <1>1
<1> HIDE DEF names, S
<1>5. SubSeq(names, k, k) = <<l.name>>
  <2>1. Len(names) \in Nat /\ k \in 1 .. Len(names)
        BY <1>2, <1>4
  <2>2. /\ SubSeq(names, k, k) \in Seq(S) /\ Len(SubSeq(names, k, k)) = 1
        /\ SubSeq(names, k, k)[1] = names[k]
        BY <1>2, <2>1
  <2>3. SubSeq(names, k, k) = <<SubSeq(names, k, k)[1]>>
        BY <2>2, LoneElement
  <2> QED BY <1>4, <2>2, <2>3
<1>6. k - 1 \in 0 .. (Len(text) - Len(<<l>>)) /\ (k - 1) + 1 = k
      BY <1>3, <1>4
<1>7. SubSeq(names, (k - 1) + 1, (k - 1) + Len(<<l>>)) = Names(<<l>>)
      BY <1>3, <1>5, <1>6
<1>8. SaysAllOf(text, <<l>>)
      BY <1>6, <1>7 DEF SaysAllOf, names
<1> QED BY <1>8

\* A line that is not said yet can be added.
LEMMA OneSegment ==
  ASSUME NEW L, Bullet \in L, NEW text \in Seq(L), SaidOnce(text), NEW l \in L,
         ~SaysAllOf(text, <<l>>)
  PROVE  text \o <<Bullet, l>> \in Seq(L) /\ SaidOnce(text \o <<Bullet, l>>)
<1> DEFINE n == Len(text)
           both == text \o <<Bullet, l>>
<1>1. /\ both \in Seq(L) /\ DOMAIN both = 1 .. (n + 2) /\ n \in Nat
      /\ both[n + 1] = Bullet /\ both[n + 2] = l
      /\ \A i \in 1 .. n : both[i] = text[i]
      OBVIOUS
<1>2. \A k \in 1 .. n : text[k].name # l.name
      BY NotSaid
<1> HIDE DEF both
<1>3. SaidOnce(both)
  <2> SUFFICES ASSUME NEW i \in DOMAIN both, NEW j \in DOMAIN both,
                      both[i] \notin {Bullet, Placeholder}, both[j] \notin {Bullet, Placeholder},
                      both[i].name = both[j].name, TitlesAreNoPlaces
               PROVE  i = j
      BY DEF SaidOnce
  <2>1. (i \in 1 .. n \/ i = n + 2) /\ (j \in 1 .. n \/ j = n + 2)
    <3>1. i \in 1 .. (n + 2) /\ j \in 1 .. (n + 2) /\ n \in Nat
          BY <1>1
    <3>2. i # n + 1 /\ j # n + 1
          BY <1>1
    <3> HIDE DEF n
    <3> QED BY <3>1, <3>2
  <2>2. CASE i \in 1 .. n /\ j \in 1 .. n
        BY <1>1, <2>2 DEF SaidOnce
  <2>3. CASE ~(i \in 1 .. n /\ j \in 1 .. n)
        BY <1>1, <1>2, <2>1, <2>3
  <2> QED BY <2>2, <2>3
<1> QED BY <1>1, <1>3 DEF both

\* One line more, unless it is short, said already or comes too late.
Longer(text, l) ==
    IF l.bytes < MinSegment \/ SaysAllOf(text, <<l>>) \/ TextChars(text) >= StoryCap
    THEN text ELSE text \o <<Bullet, l>>

\* Appending segments goes through the new text once.
Segmenting(f, L, old, new) ==
    /\ f \in [0 .. Len(new) -> Seq(L)] /\ f[0] = old
    /\ \A i \in 1 .. Len(new) : f[i] = Longer(f[i - 1], new[i])

\* The steps of that recursion exist, and AppendSegments is where they end.
LEMMA SegmentSteps ==
  ASSUME NEW L, Bullet \in L, NEW old \in Seq(L), NEW new \in Seq(L)
  PROVE  \E f : Segmenting(f, L, old, new) /\ AppendSegments(old, new) = f[Len(new)]
<1> DEFINE n == Len(new)
           A == Seq(L)
           step == [i \in 1 .. n |-> [t \in A |-> Longer(t, new[i])]]
<1>1. ASSUME NEW t \in A, NEW l \in L PROVE Longer(t, l) \in A
      BY DEF Longer
<1> HIDE DEF A
<1>2. old \in A /\ n \in Nat /\ \A i \in 1 .. n : new[i] \in L
      BY DEF A
<1>3. step \in [1 .. n -> [A -> A]]
      BY <1>1, <1>2
<1>4. \E g : Follows(g, n, A, old, step)
  <2> HIDE DEF n, step
  <2> QED BY <1>2, <1>3, StepsExist
<1>5. PICK g \in [0 .. n -> A] : g[0] = old /\ \A i \in 1 .. n : g[i] = step[i][g[i - 1]]
      BY <1>4, Zenon DEF Follows
<1> DEFINE Value(f, i) == IF i = 0 THEN old ELSE Longer(f[i - 1], new[i])
           Solves(f) == f = [i \in 0 .. n |-> Value(f, i)]
           merged == CHOOSE f : Solves(f)
<1>6. AppendSegments(old, new) = merged[n]
      BY DEF AppendSegments, Longer
<1>7. \A i \in 0 .. n : g[i] = Value(g, i)
  <2> TAKE i \in 0 .. n
  <2>1. CASE i = 0
        BY <1>5, <2>1
  <2>2. CASE i # 0
    <3>1. i \in 1 .. n /\ i - 1 \in 0 .. n
          BY <1>2, <2>2
    <3>2. g[i - 1] \in A /\ g[i] = step[i][g[i - 1]]
          BY <1>5, <3>1
    <3> QED BY <2>2, <3>1, <3>2
  <2> QED BY <2>1, <2>2
<1>8. Solves(g)
  <2> HIDE DEF Value, n
  <2> QED BY <1>5, <1>7
<1>9. Solves(merged)
  <2> HIDE DEF Solves
  <2> QED BY <1>8
<1> HIDE DEF merged
<1>10. \A i \in 0 .. n : merged[i] = Value(merged, i)
  <2> HIDE DEF Value, n
  <2> QED BY <1>9
<1>11. merged[0] = old /\ \A i \in 1 .. n : merged[i] = Longer(merged[i - 1], new[i])
  <2>1. 0 \in 0 .. n /\ \A i \in 1 .. n : i \in 0 .. n /\ i # 0
        BY <1>2
  <2> HIDE DEF n
  <2> QED BY <1>10, <2>1
<1>12. \A i \in 0 .. n : merged[i] \in A
  <2>1. ASSUME NEW i \in 1 .. n, merged[i - 1] \in A PROVE merged[i] \in A
        BY <1>1, <1>2, <1>11, <2>1
  <2> HIDE DEF n
  <2> QED BY <1>2, <1>11, <2>1, StaysIn
<1>13. merged \in [0 .. n -> A]
  <2> HIDE DEF n
  <2>1. merged = [i \in 0 .. n |-> merged[i]]
    <3> HIDE DEF Value
    <3> QED BY <1>9
  <2> QED BY <1>12, <2>1
<1> QED BY <1>6, <1>11, <1>13 DEF Segmenting, A

\* Appending segments adds lines of the new text, each once.
LEMMA SegmentsAppended ==
  ASSUME NEW L, Bullet \in L, NEW old \in Seq(L), SaidOnce(old), NEW new \in Seq(L)
  PROVE  AppendSegments(old, new) \in Seq(L) /\ SaidOnce(AppendSegments(old, new))
<1> DEFINE n == Len(new)
           A == {t \in Seq(L) : SaidOnce(t)}
<1>1. PICK f : Segmenting(f, L, old, new) /\ AppendSegments(old, new) = f[n]
      BY SegmentSteps
<1>2. ASSUME NEW t \in A, NEW l \in L PROVE Longer(t, l) \in A
      BY OneSegment DEF Longer
<1>3. old \in A /\ n \in Nat /\ \A i \in 1 .. n : new[i] \in L
      OBVIOUS
<1> HIDE DEF A
<1>4. f[0] \in A /\ \A i \in 1 .. n : f[i] = Longer(f[i - 1], new[i])
      BY <1>1, <1>3 DEF Segmenting
<1>5. \A i \in 0 .. n : f[i] \in A
  <2>1. ASSUME NEW i \in 1 .. n, f[i - 1] \in A PROVE f[i] \in A
        BY <1>2, <1>3, <1>4, <2>1
  <2> HIDE DEF n
  <2> QED BY <1>3, <1>4, <2>1, StaysIn
<1> QED BY <1>1, <1>3, <1>5 DEF A

\* No text is too long when it is empty.
LEMMA NothingIsShort == TextChars(<<>>) = 0 /\ TextChars(<<>>) <= StoryCap
<1>1. <<>> \in Seq({}) /\ \A l \in {} : l.chars \in Nat
      OBVIOUS
<1>2. Chars(<<>>) \in Seq(Nat) /\ Len(Chars(<<>>)) = 0 /\ TextChars(<<>>) = Total(Chars(<<>>))
      BY <1>1, CountsOfLines
<1>3. PICK f : Totalling(f, Chars(<<>>))
      BY <1>2, TotalSteps
<1> QED BY <1>2, <1>3, TotalIsLast, ContinuityAssumption DEF Totalling

\* A trimmed text is a beginning of the text.
LEMMA Trimmed ==
  ASSUME NEW L, NEW text \in Seq(L)
  PROVE  /\ TrimChars(text) \in Seq(L)
         /\ SaidOnce(text) => SaidOnce(TrimChars(text))
<1> DEFINE fits == {n \in 0 .. Len(text) : TextChars(SubSeq(text, 1, n)) <= StoryCap}
<1>2. 0 \in fits
  <2> DEFINE none == SubSeq(text, 1, 0)
  <2>1. none = <<>> /\ 0 \in 0 .. Len(text)
        OBVIOUS
  <2> HIDE DEF none
  <2>2. TextChars(none) <= StoryCap
        BY <2>1, NothingIsShort
  <2> QED BY <2>1, <2>2 DEF none
<1>3. Max(fits) \in 0 .. Len(text)
  <2>1. Len(text) \in Nat /\ fits \subseteq 0 .. Len(text) /\ fits # {}
        BY <1>2
  <2>2. Max(fits) \in fits
    <3> HIDE DEF fits
    <3> QED BY <2>1, GreatestNatural
  <2> QED BY <2>1, <2>2
<1>4. TrimChars(text) = SubSeq(text, 1, Max(fits))
      BY DEF TrimChars
<1> DEFINE m == Max(fits)
<1> HIDE DEF m, fits
<1>5. m \in 0 .. Len(text) /\ TrimChars(text) = SubSeq(text, 1, m)
      BY <1>3, <1>4 DEF m
<1>6. /\ SubSeq(text, 1, m) \in Seq(L) /\ DOMAIN SubSeq(text, 1, m) = 1 .. m
      /\ \A i \in 1 .. m : i \in DOMAIN text /\ SubSeq(text, 1, m)[i] = text[i]
      BY <1>5
<1> QED BY <1>5, <1>6 DEF SaidOnce

\* A merged story says what the story or the capture said, and says it once.
LEMMA MergedText ==
  ASSUME NEW L, Bullet \in L, NEW old \in Seq(L), NEW new \in Seq(L), SaidOnce(old), SaidOnce(new)
  PROVE  MergeStoryText(old, new) \in Seq(L) /\ SaidOnce(MergeStoryText(old, new))
<1> DEFINE whole == IF new = <<>> \/ SaysAllOf(old, new) THEN old
                    ELSE IF SaysAllOf(new, old) THEN new ELSE AppendSegments(old, new)
<1>1. whole \in Seq(L) /\ SaidOnce(whole)
      BY SegmentsAppended
<1>2. MergeStoryText(old, new) = TrimChars(whole)
      BY DEF MergeStoryText
<1> HIDE DEF whole
<1> QED BY <1>1, <1>2, Trimmed

SaysIn(text) == {text[i].name : i \in DOMAIN text}

\* Lines that have a length.
Measured(L) == /\ Bullet \in L
               /\ \A l \in L : l.chars \in Nat /\ l.bytes \in Nat /\ l.chars <= LongestLine

\* A text that says all of another says each of its lines.
LEMMA SaidThere ==
  ASSUME NEW L, NEW whole \in Seq(L), NEW part \in Seq(L), SaysAllOf(whole, part)
  PROVE  SaysIn(part) \subseteq SaysIn(whole)
<1>1. PICK i \in 0 .. (Len(whole) - Len(part)) :
               SubSeq(Names(whole), i + 1, i + Len(part)) = Names(part)
      BY DEF SaysAllOf
<1> DEFINE names == Names(whole)
           S == SaysIn(whole)
<1>2. /\ DOMAIN names = 1 .. Len(whole) /\ names = [k \in 1 .. Len(whole) |-> names[k]]
      /\ \A k \in 1 .. Len(whole) : names[k] \in S /\ names[k] = whole[k].name
      BY DEF Names, SaysIn
<1>3. Len(whole) \in Nat /\ Len(part) \in Nat /\ DOMAIN part = 1 .. Len(part)
      OBVIOUS
<1>4. names \in Seq(S) /\ Len(names) = Len(whole)
  <2> HIDE DEF names, S
  <2>1. names \in Seq(S)
        BY <1>2, <1>3, FunctionSequence
  <2> QED BY <1>2, <1>3, <2>1
<1>5. SubSeq(names, i + 1, i + Len(part)) = Names(part)
      BY <1>1
<1> HIDE DEF names, S
<1>6. ASSUME NEW j \in 1 .. Len(part) PROVE part[j].name \in S
  <2>1. Names(part)[j] = part[j].name
        BY <1>3 DEF Names
  <2>2. i + j \in 1 .. Len(names) /\ (i + 1) + j - 1 = i + j
        BY <1>3, <1>4
  <2>3. SubSeq(names, i + 1, i + Len(part))[j] = names[i + j]
        BY <1>3, <1>4, <2>2
  <2> QED BY <1>2, <1>4, <1>5, <2>1, <2>2, <2>3
<1> QED BY <1>3, <1>6 DEF SaysIn, S

\* What a step of AppendSegments does to a text.
LEMMA LongerSays ==
  ASSUME NEW L, Measured(L), NEW text \in Seq(L), NEW l \in L
  PROVE  LET more == Longer(text, l) IN
         /\ SaysIn(text) \subseteq SaysIn(more) /\ TextChars(text) <= TextChars(more)
         /\ l.bytes >= MinSegment => l.name \in SaysIn(more) \/ TextChars(more) >= StoryCap
<1> DEFINE more == text \o <<Bullet, l>>
           n == Len(text)
<1>0. \A k \in L : k.chars \in Nat /\ k.bytes \in Nat
      BY DEF Measured
<1>1. TextChars(text) \in Nat
      BY <1>0, CharsGrow
<1>2. CASE l.bytes < MinSegment
      BY <1>0, <1>1, <1>2 DEF Longer, MinSegment
<1>3. CASE SaysAllOf(text, <<l>>)
  <2>1. <<l>> \in Seq(L) /\ l.name \in SaysIn(<<l>>)
        BY DEF SaysIn
  <2>2. l.name \in SaysIn(text)
        BY <1>3, <2>1, SaidThere
  <2> QED BY <1>1, <1>3, <2>2 DEF Longer
<1>4. CASE TextChars(text) >= StoryCap
      BY <1>1, <1>4 DEF Longer
<1>5. CASE Longer(text, l) = more
  <2>1. /\ more \in Seq(L) /\ Len(more) = n + 2 /\ n \in Nat /\ DOMAIN text = 1 .. n
        /\ DOMAIN more = 1 .. n + 2 /\ more[n + 2] = l /\ \A i \in 1 .. n : more[i] = text[i]
    <3>1. Bullet \in L
          BY DEF Measured
    <3> QED BY <3>1
  <2>2. SubSeq(more, 1, n) = text
    <3>1. /\ SubSeq(more, 1, n) = [i \in 1 .. n |-> more[i]]
          /\ text = [i \in 1 .. n |-> text[i]]
          BY <2>1
    <3> HIDE DEF more
    <3> QED BY <2>1, <3>1
  <2> HIDE DEF more
  <2>3. n \in 0 .. Len(more)
        BY <2>1
  <2>4. TextChars(SubSeq(more, 1, n)) <= TextChars(more)
        BY <1>0, <2>1, <2>3, CharsGrow
  <2>5. SaysIn(text) \subseteq SaysIn(more) /\ l.name \in SaysIn(more)
        BY <2>1 DEF SaysIn
  <2> QED BY <1>5, <2>2, <2>4, <2>5
<1> QED BY <1>2, <1>3, <1>4, <1>5 DEF Longer

\* Below the cap everything is said that was and that is long enough.
LEMMA SegmentsSaid ==
  ASSUME NEW L, Measured(L), NEW old \in Seq(L), NEW new \in Seq(L),
         TextChars(AppendSegments(old, new)) < StoryCap
  PROVE  LET both == AppendSegments(old, new) IN
         /\ SaysIn(old) \subseteq SaysIn(both)
         /\ \A j \in DOMAIN new : new[j].bytes >= MinSegment => new[j].name \in SaysIn(both)
<1> DEFINE n == Len(new)
<1>1. Bullet \in L /\ \A k \in L : k.chars \in Nat
      BY DEF Measured
<1>2. PICK f : Segmenting(f, L, old, new) /\ AppendSegments(old, new) = f[n]
      BY <1>1, SegmentSteps
<1>3. f \in [0 .. n -> Seq(L)] /\ f[0] = old /\ n \in Nat /\ DOMAIN new = 1 .. n
      BY <1>2 DEF Segmenting
<1> DEFINE Said(k) ==
              /\ SaysIn(old) \subseteq SaysIn(f[k])
              /\ \/ TextChars(f[k]) >= StoryCap
                 \/ \A j \in 1 .. k : new[j].bytes >= MinSegment => new[j].name \in SaysIn(f[k])
           T == {k \in Nat : k <= n => Said(k)}
<1>4. 0 \in T
      BY <1>3
<1>5. ASSUME NEW k \in Nat, k \in T PROVE k + 1 \in T
  <2> SUFFICES ASSUME k + 1 <= n PROVE Said(k + 1)
      OBVIOUS
  <2>1. k + 1 \in 1 .. n /\ (k + 1) - 1 = k /\ k \in 0 .. n /\ k + 1 \in 0 .. n
        BY <1>3
  <2>2. f[k] \in Seq(L) /\ new[k + 1] \in L /\ f[k + 1] \in Seq(L)
        BY <1>3, <2>1
  <2>3. f[k + 1] = Longer(f[k], new[k + 1])
        BY <1>2, <2>1 DEF Segmenting
  <2>4. Said(k)
        BY <1>5, <2>1
  <2> HIDE DEF n
  <2>5. /\ SaysIn(f[k]) \subseteq SaysIn(f[k + 1]) /\ TextChars(f[k]) <= TextChars(f[k + 1])
        /\ new[k + 1].bytes >= MinSegment =>
              new[k + 1].name \in SaysIn(f[k + 1]) \/ TextChars(f[k + 1]) >= StoryCap
        BY <2>2, <2>3, LongerSays
  <2>6. TextChars(f[k]) \in Nat /\ TextChars(f[k + 1]) \in Nat
        BY <1>1, <2>2, CharsGrow
  <2>7. \A j \in 1 .. k + 1 : j \in 1 .. k \/ j = k + 1
        OBVIOUS
  <2> QED BY <2>4, <2>5, <2>6, <2>7, ContinuityAssumption
<1>6. n \in T
  <2> HIDE DEF T, n
  <2> QED BY <1>3, <1>4, <1>5, SetInduction
<1>7. Said(n) /\ f[n] \in Seq(L)
      BY <1>3, <1>6
<1>8. TextChars(f[n]) \in Nat
      BY <1>1, <1>7, CharsGrow
<1>9. ~(TextChars(f[n]) >= StoryCap)
      BY <1>2, <1>8, ContinuityAssumption
<1> QED BY <1>2, <1>3, <1>7, <1>9

\* What stays a line's length below the cap was not trimmed.
LEMMA NothingTrimmed ==
  ASSUME NEW L, Measured(L), LongestLine \in Nat, NEW text \in Seq(L),
         TextChars(TrimChars(text)) + LongestLine <= StoryCap
  PROVE  TrimChars(text) = text
<1> DEFINE n == Len(text)
           fits == {k \in 0 .. n : TextChars(SubSeq(text, 1, k)) <= StoryCap}
           m == Max(fits)
<1>1. TrimChars(text) = SubSeq(text, 1, m)
      BY DEF TrimChars
<1>2. \A k \in L : k.chars \in Nat /\ k.chars <= LongestLine
      BY DEF Measured
<1>3. fits # {}
  <2> SUFFICES 0 \in fits
      OBVIOUS
  <2>1. 0 \in 0 .. n /\ SubSeq(text, 1, 0) = <<>>
        OBVIOUS
  <2> QED BY <2>1, NothingIsShort
<1>4. n \in Nat /\ fits \subseteq 0 .. n
      OBVIOUS
<1>5. m \in fits /\ \A k \in fits : k <= m
  <2> HIDE DEF n, fits
  <2> QED BY <1>3, <1>4, GreatestNatural
<1> HIDE DEF m
<1>6. m \in 0 .. n /\ TextChars(SubSeq(text, 1, m)) + LongestLine <= StoryCap
      BY <1>1, <1>5
<1>7. m = n
  <2> SUFFICES ASSUME m # n PROVE FALSE
      OBVIOUS
  <2>1. m + 1 \in 0 .. n /\ m + 1 \in DOMAIN text /\ m + 1 <= n
        BY <1>4, <1>6
  <2>2. TextChars(SubSeq(text, 1, m + 1)) = TextChars(SubSeq(text, 1, m)) + text[m + 1].chars
        BY <1>2, <1>6, <2>1, CharsGrow
  <2>3. TextChars(SubSeq(text, 1, m)) \in Nat
        BY <1>2, <1>6, CharsGrow
  <2>4. text[m + 1].chars \in Nat /\ text[m + 1].chars <= LongestLine
        BY <1>2, <2>1
  <2> HIDE DEF n
  <2>5. TextChars(SubSeq(text, 1, m + 1)) <= StoryCap
        BY <1>6, <2>2, <2>3, <2>4, ContinuityAssumption
  <2>6. m + 1 \in fits
        BY <2>1, <2>5
  <2> QED BY <1>5, <1>6, <2>6
<1>8. SubSeq(text, 1, n) = text
      OBVIOUS
<1> QED BY <1>1, <1>7, <1>8

\* Appended segments are lines of both texts.
LEMMA AppendedFrom ==
  ASSUME NEW L, Bullet \in L, NEW old \in Seq(L), NEW new \in Seq(L)
  PROVE  AppendSegments(old, new) \in Seq(L)
<1>1. PICK f : Segmenting(f, L, old, new) /\ AppendSegments(old, new) = f[Len(new)]
      BY SegmentSteps
<1>2. f \in [0 .. Len(new) -> Seq(L)] /\ Len(new) \in 0 .. Len(new)
      BY <1>1 DEF Segmenting
<1> QED BY <1>1, <1>2

\* So are those of a merged text.
LEMMA MergedFrom ==
  ASSUME NEW L, Bullet \in L, NEW old \in Seq(L), NEW new \in Seq(L)
  PROVE  MergeStoryText(old, new) \in Seq(L)
<1> DEFINE whole == IF new = <<>> \/ SaysAllOf(old, new) THEN old
                    ELSE IF SaysAllOf(new, old) THEN new ELSE AppendSegments(old, new)
<1>1. whole \in Seq(L)
      BY AppendedFrom
<1>2. MergeStoryText(old, new) = TrimChars(whole)
      BY DEF MergeStoryText
<1> HIDE DEF whole
<1> QED BY <1>1, <1>2, Trimmed

\* A merge that stays below the cap keeps what the story said and says what is long enough.
LEMMA MergeSays ==
  ASSUME NEW L, Measured(L), LongestLine \in Nat, NEW old \in Seq(L), NEW new \in Seq(L),
         TextChars(MergeStoryText(old, new)) + LongestLine <= StoryCap
  PROVE  LET both == MergeStoryText(old, new) IN
         /\ SaysIn(old) \subseteq SaysIn(both)
         /\ \A j \in DOMAIN new : new[j].bytes >= MinSegment => new[j].name \in SaysIn(both)
<1> DEFINE whole == IF new = <<>> \/ SaysAllOf(old, new) THEN old
                    ELSE IF SaysAllOf(new, old) THEN new ELSE AppendSegments(old, new)
<1>0. Bullet \in L /\ \A k \in L : k.chars \in Nat
      BY DEF Measured
<1>1. whole \in Seq(L)
      BY <1>0, AppendedFrom
<1>2. MergeStoryText(old, new) = TrimChars(whole)
      BY DEF MergeStoryText
<1>3. MergeStoryText(old, new) = whole
  <2> HIDE DEF whole
  <2> QED BY <1>1, <1>2, NothingTrimmed
<1>4. CASE new = <<>>
      BY <1>3, <1>4
<1>5. CASE SaysAllOf(old, new)
  <2>1. SaysIn(new) \subseteq SaysIn(old)
        BY <1>5, SaidThere
  <2> QED BY <1>3, <1>5, <2>1 DEF SaysIn
<1>6. CASE whole = new /\ SaysAllOf(new, old)
  <2>1. SaysIn(old) \subseteq SaysIn(new)
        BY <1>6, SaidThere
  <2> QED BY <1>3, <1>6, <2>1 DEF SaysIn
<1>7. CASE whole = AppendSegments(old, new)
  <2>1. TextChars(whole) \in Nat /\ LongestLine > 0
    <3>1. TextChars(whole) \in Nat
      <4> HIDE DEF whole
      <4> QED BY <1>0, <1>1, CharsGrow
    <3>2. LongestLine >= 3
          BY DEF Measured, Bullet
    <3> QED BY <3>1, <3>2
  <2>2. TextChars(AppendSegments(old, new)) < StoryCap
    <3> HIDE DEF whole
    <3> QED BY <1>3, <1>7, <2>1, ContinuityAssumption
  <2>3. /\ SaysIn(old) \subseteq SaysIn(AppendSegments(old, new))
        /\ \A j \in DOMAIN new :
              new[j].bytes >= MinSegment => new[j].name \in SaysIn(AppendSegments(old, new))
        BY <2>2, SegmentsSaid
  <2> HIDE DEF whole
  <2> QED BY <1>3, <1>7, <2>3
<1> QED BY <1>4, <1>5, <1>6, <1>7

-----------------------------------------------------------------------------
(* When two captures are one story                                         *)

\* The elements of a sequence are finitely many.
LEMMA FewElements ==
  ASSUME NEW S, NEW s \in Seq(S)
  PROVE  IsFiniteSet(ToSet(s))
<1>1. Len(s) \in Nat /\ DOMAIN s = 1 .. Len(s)
      OBVIOUS
<1>2. IsFiniteSet(1 .. Len(s))
      BY <1>1, FS_Interval
<1>3. s \in Surjection(1 .. Len(s), ToSet(s))
      BY <1>1 DEF Surjection, ToSet
<1> QED BY <1>2, <1>3, FS_Surjection

\* So are the tokens of finitely many lines that have finitely many words each.
LEMMA FewTokens ==
  ASSUME NEW L, \A l \in L : IsFiniteSet(ToSet(l.words)), NEW lines \in Seq(L)
  PROVE  IsFiniteSet(TokensOf(lines))
<1> DEFINE n == Len(lines)
           Upto(k) == UNION {WordsOf(lines[i]) : i \in 1 .. k}
           T == {k \in Nat : k <= n => IsFiniteSet(Upto(k))}
<1>1. 0 \in T
  <2>1. Upto(0) = {}
        OBVIOUS
  <2>2. IsFiniteSet(Upto(0))
        BY <2>1, FS_EmptySet
  <2> QED BY <2>2
<1>2. ASSUME NEW k \in Nat, k \in T PROVE k + 1 \in T
  <2> SUFFICES ASSUME k + 1 <= n PROVE IsFiniteSet(Upto(k + 1))
      OBVIOUS
  <2>1. IsFiniteSet(Upto(k))
        BY <1>2
  <2>2. lines[k + 1] \in L
        OBVIOUS
  <2>3. IsFiniteSet(WordsOf(lines[k + 1]))
        BY <2>2, FS_Difference DEF WordsOf
  <2>4. Upto(k + 1) = Upto(k) \cup WordsOf(lines[k + 1])
    <3>1. 1 .. (k + 1) = (1 .. k) \cup {k + 1}
          OBVIOUS
    <3> QED BY <3>1
  <2> HIDE DEF Upto
  <2>5. IsFiniteSet(Upto(k) \cup WordsOf(lines[k + 1]))
        BY <2>1, <2>3, FS_Union
  <2> QED BY <2>4, <2>5
<1>3. n \in T
  <2>1. n \in Nat
        OBVIOUS
  <2> HIDE DEF T
  <2> QED BY <1>1, <1>2, <2>1, SetInduction
<1>4. TokensOf(lines) = Upto(n)
      BY DEF TokensOf
<1> QED BY <1>3, <1>4

\* A share of the tokens is at most all of them.
LEMMA Share ==
  ASSUME NEW c \in Nat, NEW d \in Nat \ {0}, c <= d
  PROVE  (10000 * c) \div d \in Nat /\ (10000 * c) \div d <= 10000
<1> DEFINE q == (10000 * c) \div d
<1>1. q \in Int /\ d * q <= 10000 * c /\ 10000 * c < d * (q + 1)
      OBVIOUS
<1> HIDE DEF q
<1>2. q <= 10000
  <2> SUFFICES ASSUME q >= 10001 PROVE FALSE
      BY <1>1
  <2>1. d * q >= d * 10001
        BY <1>1
  <2> QED BY <1>1, <2>1
<1>3. q >= 0
  <2> SUFFICES ASSUME q + 1 <= 0 PROVE FALSE
      BY <1>1
  <2>1. d * (q + 1) <= 0
        BY <1>1
  <2> QED BY <1>1, <2>1
<1> QED BY <1>1, <1>2, <1>3 DEF q

\* An overlap is a share in ten-thousandths.
LEMMA Overlap ==
  ASSUME NEW left, NEW right, IsFiniteSet(left), IsFiniteSet(right)
  PROVE  TokenOverlap(left, right) \in Nat /\ TokenOverlap(left, right) <= 10000
<1>1. CASE left = {} \/ right = {}
  <2>1. TokenOverlap(left, right) = 0
        BY <1>1 DEF TokenOverlap
  <2> QED BY <2>1
<1>2. CASE ~(left = {} \/ right = {})
  <2>1. IsFiniteSet(left \cup right) /\ left \cap right \subseteq left \cup right
        BY FS_Union
  <2>2. /\ Cardinality(left \cap right) \in Nat /\ Cardinality(left \cup right) \in Nat
        /\ Cardinality(left \cap right) <= Cardinality(left \cup right)
        BY <2>1, FS_Subset, FS_CardinalityType
  <2>3. Cardinality(left \cup right) # 0
        BY <1>2, <2>1, FS_EmptySet
  <2> DEFINE c == Cardinality(left \cap right)
             d == Cardinality(left \cup right)
  <2>4. TokenOverlap(left, right) = (10000 * c) \div d
        BY <1>2 DEF TokenOverlap
  <2> HIDE DEF c, d
  <2>5. c \in Nat /\ d \in Nat \ {0} /\ c <= d
        BY <2>2, <2>3 DEF c, d
  <2>6. (10000 * c) \div d \in Nat /\ (10000 * c) \div d <= 10000
        BY <2>5, Share
  <2> QED BY <2>4, <2>6
<1> QED BY <1>1, <1>2

\* Similar words are worth at most 4200.
LEMMA WordsAlone ==
  ASSUME NEW x \in Nat, x <= 10000
  PROVE  (42 * x) \div 100 \in Int /\ (42 * x) \div 100 <= 4200
<1> DEFINE q == (42 * x) \div 100
<1>1. q \in Int /\ 100 * q <= 42 * x
      OBVIOUS
<1> HIDE DEF q
<1>2. q <= 4200
      BY <1>1
<1> QED BY <1>1, <1>2 DEF q

\* Without embeddings nothing but the same anchor reaches a threshold: similar words and
\* the same domain are worth 5000, and 8000 are needed.
LEMMA StoriesShareAnchor ==
  ASSUME NEW L, \A l \in L : IsFiniteSet(ToSet(l.words)),
         NEW left, left.title \in L, left.text \in Seq(L),
         NEW right, right.title \in L, right.text \in Seq(L),
         PassesMergeThreshold(left, right)
  PROVE  AnchorMatch(left, right)
<1> DEFINE x == TokenOverlap(WordsOf(left.title), WordsOf(right.title))
           y == TokenOverlap(TokensOf(left.text), TokensOf(right.text))
           lex == Lexical(left, right)
<1>1. x \in Nat /\ x <= 10000
  <2>1. IsFiniteSet(WordsOf(left.title)) /\ IsFiniteSet(WordsOf(right.title))
        BY FS_Difference DEF WordsOf
  <2> QED BY <2>1, Overlap
<1>2. y \in Nat /\ y <= 10000
  <2>1. IsFiniteSet(TokensOf(left.text)) /\ IsFiniteSet(TokensOf(right.text))
        BY FewTokens
  <2> QED BY <2>1, Overlap
<1>3. lex = (68 * x + 32 * y) \div 100
      BY DEF Lexical
<1> HIDE DEF x, y
<1>4. lex \in Nat /\ lex <= 10000
      BY <1>1, <1>2, <1>3
<1>5. ASSUME ~AnchorMatch(left, right) PROVE FALSE
  <2>1. Score(left, right) = (50 * Vector + 42 * lex) \div 100
                             + (IF SameDomain(left, right) THEN 800 ELSE 0) + 0
        BY <1>5 DEF Score
  <2> HIDE DEF lex
  <2> DEFINE score == Score(left, right)
  <2>2. score \in Int /\ score <= 5000
    <3>1. Vector = 0
          BY WritePathAssumption
    <3>2. 50 * Vector + 42 * lex = 42 * lex
          BY <1>4, <3>1
    <3>3. (42 * lex) \div 100 \in Int /\ (42 * lex) \div 100 <= 4200
          BY <1>4, WordsAlone
    <3>4. score = (42 * lex) \div 100 + (IF SameDomain(left, right) THEN 800 ELSE 0) + 0
          BY <2>1, <3>2
    <3> QED BY <3>3, <3>4
  <2> HIDE DEF score
  <2>3. score >= 8000 \/ Vector >= 8200
        BY <1>5 DEF PassesMergeThreshold, score
  <2> QED BY <2>2, <2>3, WritePathAssumption
<1> QED BY <1>5

\* One story is on one site, or in one application where there is no site.
LEMMA StoriesShareSite ==
  ASSUME NEW L, \A l \in L : IsFiniteSet(ToSet(l.words)),
         NEW left, left.title \in L, left.text \in Seq(L),
         NEW right, right.title \in L, right.text \in Seq(L),
         ShouldMerge(left, right)
  PROVE  left.url.host = right.url.host /\ (left.url.host = <<>> => left.app = right.app)
<1>1. AnchorMatch(left, right)
      BY StoriesShareAnchor DEF ShouldMerge
<1>2. left.url.host = right.url.host
  <2>1. CASE left.url.host = <<>> /\ right.url.host # <<>>
    <3>1. ContinuityAnchor(right)[1] = "url"
          BY <2>1 DEF ContinuityAnchor
    <3>2. ContinuityAnchor(left)[1] # "url"
          BY <2>1 DEF ContinuityAnchor, NoAnchor
    <3> QED BY <1>1, <3>1, <3>2 DEF AnchorMatch
  <2>2. CASE left.url.host # <<>> /\ right.url.host = <<>>
    <3>1. ContinuityAnchor(left)[1] = "url"
          BY <2>2 DEF ContinuityAnchor
    <3>2. ContinuityAnchor(right)[1] # "url"
          BY <2>2 DEF ContinuityAnchor, NoAnchor
    <3> QED BY <1>1, <3>1, <3>2 DEF AnchorMatch
  <2>3. CASE left.url.host # <<>> /\ right.url.host # <<>>
    <3>1. /\ ContinuityAnchor(left)[2] = left.url.host
          /\ ContinuityAnchor(right)[2] = right.url.host
          BY <2>3 DEF ContinuityAnchor
    <3> QED BY <1>1, <3>1 DEF AnchorMatch
  <2>4. CASE left.url.host = <<>> /\ right.url.host = <<>>
        BY <2>4
  <2> QED BY <2>1, <2>2, <2>3, <2>4
<1>3. left.url.host = <<>> => left.app = right.app
      BY DEF ShouldMerge, AllowsCrossAppMerge, SameDomain
<1> QED BY <1>2, <1>3

-----------------------------------------------------------------------------
(* The invariant                                                           *)

\* The lines a vault may hold: the texts of frames and titles, the places that are
\* read, and the separator.
Sayable == AnyText \cup {UrlText(SanitizeUrlForStorage(c.url)) : c \in Contexts} \cup {Bullet}

\* Those that captures with some contexts, whose legible lines have some names, may say.
Shown(contexts, names) ==
    {t \in Sayable :
        \/ t \in {Bullet, Placeholder}
        \/ \E c \in contexts : t = c.title \/ t = UrlText(SanitizeUrlForStorage(c.url))
        \/ t.name \in names /\ \E c \in contexts : ~ShouldDrop(AppClass(c.app, c.bundle), t)}

Clean(contexts, names) == {t \in Shown(contexts, names) : ~HasSecret(t)}

LegibleNames(lines) == {l.text.name : l \in ToSet(Legible(lines))}

\* A record has the metadata of one of its contexts, all of them on its site and none of
\* them refused, and says what they may say.
Sound(r) ==
    /\ \A c \in r.contexts : /\ Skips(c, Blocklist) = {} /\ SiteOf(c) = r.url.host
                             /\ r.url.host = <<>> => c.app = r.app
    /\ \E c \in r.contexts : /\ r.app = c.app /\ r.title = c.title
                             /\ r.url = SanitizeUrlForStorage(c.url)
    /\ r.text \in Seq(Clean(r.contexts, r.legible)) /\ SaidOnce(r.text)

Stories ==
    {r \in [app : {c.app : c \in Contexts}, title : AnyText, text : Seq(Sayable),
            url : {SanitizeUrlForStorage(c.url) : c \in Contexts}, open : BOOLEAN,
            contexts : SUBSET Contexts, legible : SUBSET Seq(STRING)] : Sound(r)}

\* A capture in progress has a context, and what is to be persisted was shown there.
EvidenceInv ==
    /\ vault \in Seq(Stories) /\ raw \in Seq(Lines)
    /\ pc \in {"ocr", "persist"} => context \in Contexts
    /\ pc = "persist" => /\ payload \in Seq(Shown({context}, LegibleNames(raw)))
                         /\ TitlesAreNoPlaces => Distinct(payload)

\* What is read is a title and a location.
LEMMA ContextTypes ==
  ASSUME NEW c \in Contexts
  PROVE  c.title \in AnyText /\ c.url \in AnyUrl
<1>1. PICK s \in Screens : c = CurrentContext(s)
      BY DEF Contexts
<1> DEFINE kind == BrowserKind(s.app, s.bundle)
           read == IF kind = NoKind THEN FrontWindowTitle(s) ELSE BrowserMetadata(kind, s)
<1>2. c = [s EXCEPT !.title = read.title, !.url = read.url]
      BY <1>1 DEF CurrentContext
<1>3. s \in [app : [words : Seq(STRING), spells : SUBSET STRING],
             bundle : Seq(STRING), title : AnyText, url : AnyUrl]
      BY InputsAssumption
<1>4. NoUrl \in AnyUrl /\ NoTitle \in AnyText
      BY InputsAssumption
<1> HIDE DEF kind
<1>5. read.title \in AnyText /\ read.url \in AnyUrl
  <2>1. CASE kind = NoKind
        BY <1>3, <1>4, <2>1 DEF FrontWindowTitle
  <2>2. CASE kind # NoKind /\ BrowserMetadata(kind, s) = Unreadable
        BY <1>4, <2>2 DEF Unreadable
  <2>3. CASE kind # NoKind /\ BrowserMetadata(kind, s) # Unreadable
    <3>1. kind \in DOMAIN ScriptedBundle /\ BrowserMetadata(kind, s) = ActiveTab(kind, s)
          BY <2>3 DEF BrowserMetadata
    <3>2. Tabs[kind] \in [title : AnyText, url : AnyUrl]
          BY <3>1, InputsAssumption
    <3>3. ActiveTab(kind, s).title \in AnyText /\ ActiveTab(kind, s).url \in AnyUrl
          BY <1>3, <3>2 DEF ActiveTab
    <3> QED BY <2>3, <3>1, <3>3
  <2> QED BY <2>1, <2>2, <2>3
<1> HIDE DEF read
<1> QED BY <1>2, <1>3, <1>5

\* A verdict that does not skip storage says that no rule applies, and names secrets.
LEMMA Verdicts ==
  ASSUME NEW c, NEW lines, NEW list, ~SkipsStorage(Evaluate(c, lines, list))
  PROVE  /\ Skips(c, list) = {}
         /\ Evaluate(c, lines, list) = "Redact" \/ \A i \in DOMAIN lines : ~HasSecret(lines[i])
<1>1. Skips(c, list) = {}
  <2> SUFFICES ASSUME Skips(c, list) # {} PROVE FALSE
      OBVIOUS
  <2>1. Skips(c, list) \subseteq 1 .. 7
        BY DEF Skips, SkipReasons
  <2>2. Min(Skips(c, list)) \in 1 .. 7
        BY <2>1, LeastNatural
  <2>3. SkipReasons[Min(Skips(c, list))] \notin {"Allow", "Redact"}
        BY <2>2 DEF SkipReasons
  <2> QED BY <2>3 DEF Evaluate, SkipsStorage
<1>2. Evaluate(c, lines, list) = "Redact" \/ \A i \in DOMAIN lines : ~HasSecret(lines[i])
      BY <1>1 DEF Evaluate
<1> QED BY <1>1, <1>2

\* A location that may be stored has a host and a path.
LEMMA StoredPlace ==
  ASSUME NEW url \in AnyUrl
  PROVE  /\ SanitizeUrlForStorage(url).host \in Seq(STRING)
         /\ SanitizeUrlForStorage(url).path \in Seq(STRING)
<1>1. CASE SanitizeUrlForStorage(url) = NoUrl
  <2>1. NoUrl.host = <<>> /\ NoUrl.path = <<>>
        BY DEF NoUrl
  <2> QED BY <1>1, <2>1
<1>2. CASE SanitizeUrlForStorage(url) = [url EXCEPT !.query = {}, !.hidden = {}]
  <2>1. [url EXCEPT !.query = {}, !.hidden = {}] \in AnyUrl
        BY DEF AnyUrl
  <2> QED BY <1>2, <2>1 DEF AnyUrl
<1> QED BY <1>1, <1>2 DEF SanitizeUrlForStorage

\* A line that may be stored has finitely many words.
LEMMA FewWords == \A t \in Sayable : IsFiniteSet(ToSet(t.words))
<1>1. ASSUME NEW t \in AnyText PROVE IsFiniteSet(ToSet(t.words))
  <2>1. t.words \in Seq(STRING)
        BY DEF AnyText
  <2> QED BY <2>1, FewElements
<1>2. ASSUME NEW s \in Contexts
      PROVE  IsFiniteSet(ToSet(UrlText(SanitizeUrlForStorage(s.url)).words))
  <2>1. s.url \in AnyUrl
        BY ContextTypes
  <2>2. /\ SanitizeUrlForStorage(s.url).host \in Seq(STRING)
        /\ SanitizeUrlForStorage(s.url).path \in Seq(STRING)
        BY <2>1, StoredPlace
  <2>3. UrlText(SanitizeUrlForStorage(s.url)).words \in Seq(STRING)
        BY <2>2 DEF UrlText
  <2> QED BY <2>3, FewElements
<1>3. IsFiniteSet(ToSet(Bullet.words))
  <2>1. Bullet.words \in Seq(STRING)
        BY DEF Bullet
  <2> QED BY <2>1, FewElements
<1> QED BY <1>1, <1>2, <1>3 DEF Sayable

\* More contexts say more.
LEMMA ShownGrows ==
  ASSUME NEW a, NEW b, a \subseteq b, NEW m, NEW n, m \subseteq n
  PROVE  Seq(Clean(a, m)) \subseteq Seq(Clean(b, n)) /\ Seq(Clean(a, m)) \subseteq Seq(Sayable)
<1>1. Clean(a, m) \subseteq Clean(b, n) /\ Clean(a, m) \subseteq Sayable
      BY DEF Clean, Shown
<1>2. ASSUME NEW A, NEW B, A \subseteq B PROVE Seq(A) \subseteq Seq(B)
      BY <1>2
<1> QED BY <1>1, <1>2

-----------------------------------------------------------------------------
(* What a capture writes                                                   *)

\* Redaction leaves lines without secrets, and none twice.
LEMMA Redacted ==
  ASSUME NEW s \in Contexts, NEW names, NEW lines \in Seq(Shown({s}, names)),
         TitlesAreNoPlaces => Distinct(lines)
  PROVE  LET kept == RedactSecretLines(lines, Placeholder) IN
         kept \in Seq(Clean({s}, names)) /\ SaidOnce(kept)
<1> DEFINE kept == RedactSecretLines(lines, Placeholder)
<1>1. /\ DOMAIN kept = 1 .. Len(lines) /\ Len(lines) \in Nat
      /\ kept = [i \in 1 .. Len(lines) |-> kept[i]]
      /\ \A i \in 1 .. Len(lines) :
            kept[i] = IF HasSecret(lines[i]) THEN Placeholder ELSE lines[i]
      BY DEF RedactSecretLines
<1>2. Placeholder \in Clean({s}, names)
      BY WritePathAssumption DEF Clean, Shown, Sayable
<1>3. \A i \in 1 .. Len(lines) : lines[i] \in Shown({s}, names)
      OBVIOUS
<1> HIDE DEF kept
<1>4. \A i \in 1 .. Len(lines) : kept[i] \in Clean({s}, names)
      BY <1>1, <1>2, <1>3 DEF Clean
<1>5. kept \in Seq(Clean({s}, names))
      BY <1>1, <1>4, FunctionSequence
<1>6. SaidOnce(kept)
      BY <1>1 DEF SaidOnce, Distinct
<1> QED BY <1>5, <1>6 DEF kept

\* Where no line has a secret there is nothing to redact.
LEMMA NothingToRedact ==
  ASSUME NEW s \in Contexts, NEW names, NEW lines \in Seq(Shown({s}, names)),
         TitlesAreNoPlaces => Distinct(lines), \A i \in DOMAIN lines : ~HasSecret(lines[i])
  PROVE  lines \in Seq(Clean({s}, names)) /\ SaidOnce(lines)
<1>1. /\ Len(lines) \in Nat /\ DOMAIN lines = 1 .. Len(lines)
      /\ lines = [i \in 1 .. Len(lines) |-> lines[i]]
      /\ \A i \in 1 .. Len(lines) : lines[i] \in Shown({s}, names)
      OBVIOUS
<1>2. \A i \in 1 .. Len(lines) : lines[i] \in Clean({s}, names)
      BY <1>1 DEF Clean
<1>3. lines \in Seq(Clean({s}, names))
      BY <1>1, <1>2, FunctionSequence
<1> QED BY <1>3 DEF SaidOnce, Distinct

\* The record of a capture.
LEMMA IncomingIsStory ==
  ASSUME context \in Contexts, raw \in Seq(Lines),
         Skips(context, Blocklist) = {},
         NEW lines \in Seq(Clean({context}, LegibleNames(raw))), SaidOnce(lines)
  PROVE  Incoming(lines) \in Stories
<1> DEFINE r == Incoming(lines)
<1>1. r = [app |-> context.app, title |-> context.title, text |-> lines, open |-> TRUE,
           url |-> SanitizeUrlForStorage(context.url), contexts |-> {context},
           legible |-> LegibleNames(raw)]
      BY DEF Incoming, LegibleNames
<1>2. LegibleNames(raw) \subseteq Seq(STRING)
  <2> DEFINE at == {i \in DOMAIN raw : raw[i].conf >= DropThreshold /\ raw[i].text.words # <<>>}
  <2>1. Legible(raw) = Picked(raw, at)
        BY DEF Legible, Select
  <2> HIDE DEF at
  <2>2. Legible(raw) \in Seq(Lines)
        BY <2>1, PickedFrom
  <2>3. \A l \in ToSet(Legible(raw)) : l \in Lines
        BY <2>2 DEF ToSet
  <2>4. \A l \in Lines : l.text.name \in Seq(STRING)
        BY DEF Lines, AnyText
  <2> QED BY <2>3, <2>4 DEF LegibleNames
<1>3. context.title \in AnyText
      BY ContextTypes
<1>4. lines \in Seq(Sayable)
      BY ShownGrows
<1> HIDE DEF r
<1>5. r \in [app : {c.app : c \in Contexts}, title : AnyText, text : Seq(Sayable),
             url : {SanitizeUrlForStorage(c.url) : c \in Contexts}, open : BOOLEAN,
             contexts : SUBSET Contexts, legible : SUBSET Seq(STRING)]
      BY <1>1, <1>2, <1>3, <1>4
<1>6. Sound(r)
      BY <1>1 DEF Sound, SiteOf
<1> QED BY <1>5, <1>6 DEF Stories, r

\* The record of a capture that continues a story.
LEMMA MergeIsStory ==
  ASSUME vault \in Seq(Stories), NEW new \in Stories, NEW i \in DOMAIN vault,
         ShouldMerge(new, vault[i])
  PROVE  Merge(new, i) \in Seq(Stories)
<1> DEFINE old == vault[i]
           both == new.contexts \cup old.contexts
           names == new.legible \cup old.legible
           text == MergeStoryText(old.text, new.text)
           r == [new EXCEPT !.text = text, !.contexts = both,
                            !.legible = names]
<1>1. old \in Stories
      OBVIOUS
<1>2. /\ old.title \in Sayable /\ new.title \in Sayable
      /\ old.text \in Seq(Sayable) /\ new.text \in Seq(Sayable)
      BY <1>1 DEF Stories, Sayable
<1>3. new.url.host = old.url.host /\ (new.url.host = <<>> => new.app = old.app)
      BY <1>2, FewWords, StoriesShareSite
<1>4. Sound(old) /\ Sound(new)
      BY <1>1 DEF Stories
<1>5. text \in Seq(Clean(both, names)) /\ SaidOnce(text)
  <2>1. /\ old.text \in Seq(Clean(both, names)) /\ new.text \in Seq(Clean(both, names))
        /\ SaidOnce(old.text) /\ SaidOnce(new.text)
    <3>1. /\ Seq(Clean(old.contexts, old.legible)) \subseteq Seq(Clean(both, names))
          /\ Seq(Clean(new.contexts, new.legible)) \subseteq Seq(Clean(both, names))
      <4>1. old.contexts \subseteq both /\ new.contexts \subseteq both
            OBVIOUS
      <4>2. old.legible \subseteq names /\ new.legible \subseteq names
            OBVIOUS
      <4> HIDE DEF both, names, old
      <4> QED BY <4>1, <4>2, ShownGrows
    <3> QED BY <1>4, <3>1 DEF Sound
  <2>2. Bullet \in Clean(both, names)
        BY DEF Bullet, Clean, Shown, Sayable, HasSecret, Spells
  <2> HIDE DEF both, names, old
  <2> QED BY <2>1, <2>2, MergedText
<1> HIDE DEF text
<1>6. /\ r.app = new.app /\ r.title = new.title /\ r.text = text /\ r.url = new.url
      /\ r.open = new.open /\ r.contexts = both /\ r.legible = names
      BY DEF Stories
<1>7. r \in [app : {c.app : c \in Contexts}, title : AnyText, text : Seq(Sayable),
             url : {SanitizeUrlForStorage(c.url) : c \in Contexts}, open : BOOLEAN,
             contexts : SUBSET Contexts, legible : SUBSET Seq(STRING)]
  <2>1. text \in Seq(Sayable)
    <3> HIDE DEF both, names
    <3> QED BY <1>5, ShownGrows
  <2>2. /\ both \in SUBSET Contexts /\ names \in SUBSET Seq(STRING)
        BY <1>1 DEF Stories
  <2> HIDE DEF both, names
  <2> QED BY <2>1, <2>2 DEF Stories
<1>8. Sound(r)
  <2>1. \A s \in both : /\ Skips(s, Blocklist) = {} /\ SiteOf(s) = new.url.host
                        /\ new.url.host = <<>> => s.app = new.app
        BY <1>3, <1>4 DEF Sound
  <2>2. \E s \in both : /\ new.app = s.app /\ new.title = s.title
                        /\ new.url = SanitizeUrlForStorage(s.url)
        BY <1>4 DEF Sound
  <2> HIDE DEF r, both, names
  <2> QED BY <1>5, <1>6, <2>1, <2>2 DEF Sound
<1>9. r \in Stories
      BY <1>7, <1>8 DEF Stories
<1>10. Merge(new, i) = Append(RemoveAt(vault, i), r)
      BY DEF Merge, text
<1>11. RemoveAt(vault, i) \in Seq(Stories)
      BY DEF RemoveAt
<1> HIDE DEF r
<1> QED BY <1>9, <1>10, <1>11

-----------------------------------------------------------------------------
(* The invariant is inductive                                              *)

\* The vault is empty at first.
LEMMA InitEvidence == Init => EvidenceInv
  BY DEF Init, EvidenceInv

\* A capture that stops leaves the vault as it was.
LEMMA Stopped ==
  ASSUME EvidenceInv, NEW o, End(o), vault' = vault, raw' \in Seq(Lines)
  PROVE  EvidenceInv'
  BY DEF EvidenceInv, End

\* The text of a screen kept by its URL is its title and its place.
LEMMA LookStep ==
  ASSUME EvidenceInv, NEW s \in Screens, Look(s)
  PROVE  EvidenceInv'
<1> DEFINE c == CurrentContext(s)
           verdict == Evaluate(c, <<>>, Blocklist)
           place == UrlText(SanitizeUrlForStorage(c.url))
<1>1. vault' = vault /\ raw' = <<>> /\ raw' \in Seq(Lines)
      BY DEF Look
<1>2. c \in Contexts
      BY DEF Contexts
<1>3. ASSUME NEW o, End(o) PROVE EvidenceInv'
      BY <1>1, <1>3, Stopped
<1>4. ASSUME pc' = "ocr", context' = c PROVE EvidenceInv'
  <2> HIDE DEF c, place, verdict
  <2> QED BY <1>1, <1>2, <1>4 DEF EvidenceInv
<1>5. ASSUME pc' = "persist", context' = c, payload' = <<c.title, place>>
      PROVE  EvidenceInv'
  <2>1. c.title \in AnyText
        BY <1>2, ContextTypes
  <2>2. c.title \in Shown({c}, LegibleNames(raw')) /\ place \in Shown({c}, LegibleNames(raw'))
    <3> HIDE DEF c
    <3> QED BY <1>2, <2>1 DEF Shown, Sayable
  <2>3. TitlesAreNoPlaces => c.title.name # place.name
    <3> HIDE DEF c
    <3> QED BY <1>2 DEF TitlesAreNoPlaces
  <2> HIDE DEF c, place, verdict
  <2>4. payload' \in Seq(Shown({context'}, LegibleNames(raw')))
        BY <1>5, <2>2
  <2>5. TitlesAreNoPlaces => Distinct(payload')
        BY <1>5, <2>3 DEF Distinct
  <2> QED BY <1>1, <1>2, <1>5, <2>4, <2>5 DEF EvidenceInv
<1> HIDE DEF verdict, place
<1>6. \/ \E o : End(o)
      \/ pc' = "ocr" /\ context' = c
      \/ pc' = "persist" /\ context' = c /\ payload' = <<c.title, place>>
      BY DEF Look, verdict, place
<1> QED BY <1>3, <1>4, <1>5, <1>6

\* The text of a frame is lines that were legible on it.
LEMMA ReadFrameStep ==
  ASSUME EvidenceInv, NEW observations \in Frames, ReadFrame(observations)
  PROVE  EvidenceInv'
<1> DEFINE class == AppClass(context.app, context.bundle)
           kept == BuildHighSignal(class, Recognize(raw').lines)
<1>1. /\ pc = "ocr" /\ raw' = ExtractRawLines(observations) /\ vault' = vault
      /\ \/ \E o : End(o)
         \/ pc' = "persist" /\ payload' = kept /\ UNCHANGED context
      BY DEF ReadFrame
<1>2. raw' \in Seq(Lines)
      BY <1>1, RawLines
<1>3. CASE \E o : End(o)
      BY <1>1, <1>2, <1>3, Stopped
<1>4. ASSUME pc' = "persist", payload' = kept, UNCHANGED context PROVE EvidenceInv'
  <2>1. context \in Contexts
        BY <1>1 DEF EvidenceInv
  <2>2. class = AppClass(context.app, context.bundle)
        OBVIOUS
  <2>3. /\ kept \in Seq(AnyText) /\ Distinct(kept)
        /\ \A k \in DOMAIN kept : /\ ~ShouldDrop(class, kept[k])
                                  /\ \E l \in ToSet(Legible(raw')) : kept[k] = l.text
        BY <1>2, FrameText
  <2> HIDE DEF class, kept
  <2>4. /\ Len(kept) \in Nat /\ DOMAIN kept = 1 .. Len(kept)
        /\ kept = [k \in 1 .. Len(kept) |-> kept[k]]
        /\ \A k \in 1 .. Len(kept) : kept[k] \in AnyText
        BY <2>3
  <2>5. \A k \in 1 .. Len(kept) : kept[k].name \in LegibleNames(raw')
        BY <2>3, <2>4 DEF LegibleNames
  <2>6. \A k \in 1 .. Len(kept) : kept[k] \in Shown({context}, LegibleNames(raw'))
        BY <2>2, <2>3, <2>4, <2>5 DEF Shown, Sayable
  <2>7. kept \in Seq(Shown({context}, LegibleNames(raw')))
        BY <2>4, <2>6, FunctionSequence
  <2>8. context' \in Contexts
        BY <1>4, <2>1
  <2>9. payload' \in Seq(Shown({context'}, LegibleNames(raw')))
        BY <1>4, <2>7
  <2> QED BY <1>1, <1>2, <1>4, <2>3, <2>8, <2>9 DEF EvidenceInv
<1> QED BY <1>1, <1>3, <1>4

\* What is stored or merged is clean.
LEMMA PersistStep ==
  ASSUME EvidenceInv, Persist
  PROVE  EvidenceInv'
<1> DEFINE verdict == Evaluate(context, payload, Blocklist)
           lines == IF verdict = "Redact" THEN RedactSecretLines(payload, Placeholder)
                    ELSE payload
           record == Incoming(lines)
           stories == Candidates(record)
<1>1. /\ pc = "persist" /\ raw' = <<>>
      /\ \/ End("FinalPrivacy") /\ vault' = vault
         \/ /\ ~SkipsStorage(verdict)
            /\ \/ stories # {} /\ End("Merged") /\ vault' = Merge(record, Max(stories))
               \/ End("Stored") /\ vault' = Append(vault, record)
      BY DEF Persist
<1>2. /\ vault \in Seq(Stories) /\ raw \in Seq(Lines)
      /\ context \in Contexts
      /\ payload \in Seq(Shown({context}, LegibleNames(raw)))
      /\ TitlesAreNoPlaces => Distinct(payload)
      BY <1>1 DEF EvidenceInv
<1>3. ASSUME ~SkipsStorage(verdict) PROVE record \in Stories
  <2>1. /\ Skips(context, Blocklist) = {}
        /\ verdict = "Redact" \/ \A i \in DOMAIN payload : ~HasSecret(payload[i])
        BY <1>2, <1>3, Verdicts
  <2> HIDE DEF verdict
  <2>2. lines \in Seq(Clean({context}, LegibleNames(raw))) /\ SaidOnce(lines)
        BY <1>2, <2>1, Redacted, NothingToRedact
  <2> HIDE DEF lines
  <2> QED BY <1>2, <2>1, <2>2, IncomingIsStory
<1>4. ASSUME stories # {} PROVE Max(stories) \in DOMAIN vault /\ ShouldMerge(record, vault[Max(stories)])
  <2>1. stories \subseteq 0 .. Len(vault) /\ Len(vault) \in Nat
        BY <1>2 DEF Candidates
  <2>2. Max(stories) \in stories
    <3> HIDE DEF stories
    <3> QED BY <1>4, <2>1, GreatestNatural
  <2> QED BY <2>2 DEF Candidates
<1> HIDE DEF verdict, record, stories
<1>5. vault' \in Seq(Stories)
  <2>1. CASE stories # {} /\ vault' = Merge(record, Max(stories)) /\ ~SkipsStorage(verdict)
        BY <1>2, <1>3, <1>4, <2>1, MergeIsStory
  <2>2. CASE vault' = Append(vault, record) /\ ~SkipsStorage(verdict)
        BY <1>2, <1>3, <2>2
  <2> QED BY <1>1, <1>2, <2>1, <2>2
<1>6. pc' = "idle"
      BY <1>1 DEF End
<1> QED BY <1>1, <1>5, <1>6 DEF EvidenceInv

\* A record that closes says what it said.
LEMMA CloseStep ==
  ASSUME EvidenceInv, NEW i \in DOMAIN vault, Close(i)
  PROVE  EvidenceInv'
<1> DEFINE r == [vault[i] EXCEPT !.open = FALSE]
<1>1. vault \in Seq(Stories) /\ vault[i] \in Stories
      BY DEF EvidenceInv
<1>2. r \in Stories
      BY <1>1 DEF Stories, Sound
<1>3. vault' = [vault EXCEPT ![i] = r]
      BY DEF Close
<1> HIDE DEF r
<1>4. vault' \in Seq(Stories)
      BY <1>1, <1>2, <1>3
<1> QED BY <1>4 DEF EvidenceInv, Close

\* Every step keeps the invariant.
LEMMA NextEvidence ==
  ASSUME EvidenceInv, [Next]_vars
  PROVE  EvidenceInv'
<1>1. CASE UNCHANGED vars
      BY <1>1 DEF EvidenceInv, vars
<1> QED BY <1>1, LookStep, ReadFrameStep, PersistStep, CloseStep DEF Next

\* It holds in every state.
LEMMA AlwaysEvidence == Spec => []EvidenceInv
<1>1. EvidenceInv /\ [Next]_vars => EvidenceInv'
      BY NextEvidence
<1> QED BY InitEvidence, <1>1, PTL DEF Spec

\* A record of the vault is a story.
LEMMA RecordsAreStories ==
  ASSUME EvidenceInv, NEW r \in Records
  PROVE  r \in Stories
  BY DEF EvidenceInv, Records

-----------------------------------------------------------------------------
(* What is kept                                                            *)

\* The lines that are no longer than the longest.
Fitting == {t \in Sayable : t.chars \in Nat /\ t.bytes \in Nat /\ t.chars <= LongestLine}

\* The text to persist says all the prose of its frame.
KeptInv ==
    /\ \A r \in Records : r.text \in Seq(Fitting)
    /\ pc = "persist" =>
          /\ payload \in Seq(Fitting)
          /\ \A name \in Prose(raw) : \E i \in DOMAIN payload :
                /\ payload[i].name = name /\ ~HasSecret(payload[i])
                /\ payload[i].bytes >= MinSegment

\* Separators, placeholders and the texts of a size are such lines.
LEMMA WhatFits ==
  ASSUME LongestLineBounds
  PROVE  /\ Measured(Fitting) /\ LongestLine \in Nat /\ Bullet \in Fitting /\ Placeholder \in Fitting
         /\ \A t \in AnyText : t.chars <= LongestLine => t \in Fitting
         /\ \A s \in Contexts : Classify(s) = "UrlOnly" =>
               s.title \in Fitting /\ UrlText(SanitizeUrlForStorage(s.url)) \in Fitting
<1>1. \A t \in AnyText : t.chars \in Nat /\ t.bytes \in Nat /\ t \in Sayable
      BY DEF AnyText, Sayable
<1>2. Bullet \in Fitting
      BY DEF LongestLineBounds, Bullet, Fitting, Sayable
<1>3. Placeholder \in Fitting
      BY <1>1, WritePathAssumption DEF LongestLineBounds, Fitting
<1>4. \A t \in AnyText : t.chars <= LongestLine => t \in Fitting
      BY <1>1 DEF Fitting
<1>5. Measured(Fitting)
      BY <1>2 DEF Measured, Fitting
<1>6. ASSUME NEW s \in Contexts, Classify(s) = "UrlOnly"
      PROVE  s.title \in Fitting /\ UrlText(SanitizeUrlForStorage(s.url)) \in Fitting
  <2> DEFINE place == SanitizeUrlForStorage(s.url)
  <2>1. s.title \in AnyText /\ s.url \in AnyUrl
        BY ContextTypes
  <2>2. place.host \in Seq(STRING) /\ place.path \in Seq(STRING)
        BY <2>1, StoredPlace
  <2>3. UrlText(place) \in Sayable
        BY DEF Sayable
  <2>4. s.title.chars <= LongestLine /\ UrlText(place).chars <= LongestLine
        BY <1>6 DEF LongestLineBounds
  <2> HIDE DEF place
  <2>5. UrlText(place).chars \in Nat /\ UrlText(place).bytes \in Nat
    <3> DEFINE parts == place.host \o place.path
    <3>1. parts \in Seq(STRING)
          BY <2>2
    <3>2. UrlText(place).chars = 10 * Len(parts) /\ UrlText(place).bytes = 10 * Len(parts)
          BY DEF UrlText
    <3> HIDE DEF parts
    <3>3. Len(parts) \in Nat
          BY <3>1
    <3> DEFINE n == Len(parts)
    <3> HIDE DEF n
    <3>4. n \in Nat => 10 * n \in Nat
          OBVIOUS
    <3> QED BY <3>2, <3>3, <3>4 DEF n
  <2>6. UrlText(place) \in Fitting
        BY <2>3, <2>4, <2>5 DEF Fitting
  <2> QED BY <1>4, <2>1, <2>4, <2>6 DEF place
<1> QED BY <1>2, <1>3, <1>4, <1>5, <1>6 DEF LongestLineBounds

\* What is legible is on the frame.
LEMMA LegibleFrom ==
  ASSUME NEW raw0 \in Seq(Lines)
  PROVE  ToSet(Legible(raw0)) \subseteq ToSet(raw0)
<1> DEFINE at == {i \in DOMAIN raw0 : raw0[i].conf >= DropThreshold /\ raw0[i].text.words # <<>>}
           legible == Picked(raw0, at)
<1>1. Legible(raw0) = legible
      BY DEF Legible, Select
<1> HIDE DEF at
<1>2. \A k \in DOMAIN legible : \E i \in DOMAIN raw0 : legible[k] = raw0[i]
      BY PickedFrom
<1> HIDE DEF legible
<1> QED BY <1>1, <1>2 DEF ToSet

\* An empty frame says nothing.
LEMMA LookKeeps ==
  ASSUME LongestLineBounds, EvidenceInv, KeptInv, NEW s \in Screens, Look(s)
  PROVE  KeptInv'
<1> DEFINE c == CurrentContext(s)
           place == UrlText(SanitizeUrlForStorage(c.url))
<1>1. vault' = vault /\ raw' = <<>>
      BY DEF Look
<1>2. \/ pc' # "persist"
      \/ /\ payload' = <<c.title, place>>
         /\ Classify(c) # "Normal" /\ Classify(c) # "SkipFrame"
      BY DEF Look, End
<1>3. \A r \in Records' : r.text \in Seq(Fitting)
      BY <1>1 DEF KeptInv, Records
<1>4. CASE pc' # "persist"
      BY <1>3, <1>4 DEF KeptInv
<1>5. CASE /\ payload' = <<c.title, place>>
           /\ Classify(c) # "Normal" /\ Classify(c) # "SkipFrame"
  <2>1. c \in Contexts
        BY DEF Contexts
  <2>2. Classify(c) = "UrlOnly"
        BY <1>5 DEF Classify
  <2> HIDE DEF c
  <2>3. c.title \in Fitting /\ place \in Fitting
        BY <2>1, <2>2, WhatFits
  <2> HIDE DEF place
  <2>4. payload' \in Seq(Fitting)
        BY <1>5, <2>3
  <2>5. Prose(raw)' = {}
        BY <1>1 DEF Prose, ToSet
  <2> QED BY <1>3, <2>4, <2>5 DEF KeptInv
<1> HIDE DEF c, place
<1> QED BY <1>2, <1>4, <1>5

\* The text of a frame has the prose it shows.
LEMMA ReadFrameKeeps ==
  ASSUME LinesAreTexts, LongestLineBounds, SegmentsAreEnough, EvidenceInv, KeptInv,
         NEW observations \in Frames, ReadFrame(observations)
  PROVE  KeptInv'
<1> DEFINE class == AppClass(context.app, context.bundle)
           kept == BuildHighSignal(class, Recognize(raw').lines)
<1>1. /\ pc = "ocr" /\ raw' = ExtractRawLines(observations) /\ vault' = vault
      /\ \/ pc' # "persist"
         \/ payload' = kept /\ context' = context
      BY DEF ReadFrame, End
<1>2. \A r \in Records' : r.text \in Seq(Fitting)
      BY <1>1 DEF KeptInv, Records
<1>3. CASE pc' # "persist"
      BY <1>2, <1>3 DEF KeptInv
<1>4. CASE payload' = kept /\ context' = context
  <2>1. raw' \in Seq(Lines)
        BY <1>1, RawLines
  <2>2. class = AppClass(context'.app, context'.bundle)
        BY <1>4
  <2>3. /\ kept \in Seq(AnyText)
        /\ \A k \in DOMAIN kept : \E l \in ToSet(Legible(raw')) : kept[k] = l.text
        BY <2>1, FrameText
  <2>4. \A l \in ToSet(raw') : l.text.chars <= LongestLine
        BY <1>1 DEF LinesAreTexts
  <2>5. ASSUME NEW l \in ToSet(raw'), IsProse(class, l)
        PROVE  ProseText(class, l.text) /\ \E i \in DOMAIN kept : kept[i] = l.text
    <3>1. ProseText(class, l.text) /\ l.text \in ToSet(kept)
          BY <1>1, <2>5, ProseIsInText
    <3> QED BY <3>1 DEF ToSet
  <2> HIDE DEF kept, class
  <2>6. payload' \in Seq(Fitting)
    <3>1. /\ Len(kept) \in Nat /\ DOMAIN kept = 1 .. Len(kept)
          /\ kept = [k \in 1 .. Len(kept) |-> kept[k]]
          /\ \A k \in 1 .. Len(kept) : kept[k] \in AnyText
          BY <2>3
    <3>2. \A k \in 1 .. Len(kept) : kept[k].chars <= LongestLine
          BY <2>1, <2>3, <2>4, <3>1, LegibleFrom
    <3>3. \A k \in 1 .. Len(kept) : kept[k] \in Fitting
          BY <3>1, <3>2, WhatFits
    <3>4. kept \in Seq(Fitting)
          BY <3>1, <3>3, FunctionSequence
    <3> QED BY <1>4, <3>4
  <2>7. ASSUME NEW name \in Prose(raw)'
        PROVE  \E i \in DOMAIN payload' :
                  /\ payload'[i].name = name /\ ~HasSecret(payload'[i])
                  /\ payload'[i].bytes >= MinSegment
    <3>1. PICK l \in ToSet(raw') : IsProse(class, l) /\ name = l.text.name
          BY <2>2, <2>7 DEF Prose
    <3>2. ProseText(class, l.text)
          BY <2>5, <3>1
    <3>3. PICK i \in DOMAIN kept : kept[i] = l.text
          BY <2>5, <3>1
    <3>4. l.text.bytes >= MinSegment
      <4>1. l.text.chars \in Nat /\ l.text.bytes \in Nat
            BY <3>2 DEF ProseText, AnyText
      <4> QED BY <3>2, <4>1 DEF ProseText, MinSegment
    <3> QED BY <1>4, <3>1, <3>2, <3>3, <3>4 DEF ProseText
  <2> QED BY <1>2, <2>6, <2>7 DEF KeptInv
<1> QED BY <1>1, <1>3, <1>4

\* A frame that has no evidence shows no prose, unless Vision trusts none of it.
LEMMA NoEvidenceNoProse ==
  ASSUME LinesAreTexts, SegmentsAreEnough, EvidenceInv,
         NEW observations \in Frames, ReadFrame(observations), pc' = "idle",
         Recognize(raw').confidence >= 35
  PROVE  Prose(raw') = {}
<1> DEFINE class == AppClass(context.app, context.bundle)
           kept == BuildHighSignal(class, Recognize(raw').lines)
           ocr == Recognize(raw')
<1>1. /\ pc = "ocr" /\ raw' = ExtractRawLines(observations)
      /\ IsLowSignal(kept, ocr.confidence, ocr.blocks, MinOcrChars)
      BY DEF ReadFrame
<1>2. raw' \in Seq(Lines)
      BY <1>1, RawLines
<1>3. class = AppClass(context.app, context.bundle)
      OBVIOUS
<1>4. ocr.confidence \in Int /\ ocr.confidence >= 35 /\ kept \in Seq(AnyText)
      BY <1>2, ConfidenceIsNumber, FrameText
<1> SUFFICES ASSUME NEW l \in ToSet(raw'), IsProse(class, l) PROVE FALSE
    BY <1>3 DEF Prose
<1>5. ProseText(class, l.text) /\ l.text \in ToSet(kept)
      BY <1>1, ProseIsInText
<1> HIDE DEF kept, ocr, class
<1>6. l.text.chars >= MinSegment
      BY <1>5 DEF ProseText
<1>7. ~IsLowSignal(kept, ocr.confidence, ocr.blocks, MinOcrChars)
      BY <1>4, <1>5, <1>6, EnoughEvidence
<1> QED BY <1>1, <1>7

\* What is left when one element is removed and another appended.
LEMMA Replaced ==
  ASSUME NEW S, NEW seq \in Seq(S), NEW i \in DOMAIN seq, NEW x \in S
  PROVE  LET whole == Append(RemoveAt(seq, i), x) IN
         /\ ToSet(whole) \subseteq ToSet(seq) \cup {x} /\ x \in ToSet(whole)
         /\ \A j \in DOMAIN seq : j # i => seq[j] \in ToSet(whole)
<1> DEFINE n == Len(seq)
           rest == RemoveAt(seq, i)
           whole == Append(rest, x)
<1>1. n \in Nat /\ i \in 1 .. n /\ DOMAIN seq = 1 .. n
      OBVIOUS
<1>2. /\ rest \in Seq(S) /\ Len(rest) = n - 1 /\ DOMAIN rest = 1 .. n - 1
      /\ \A j \in 1 .. n - 1 : rest[j] = IF j < i THEN seq[j] ELSE seq[j + 1]
  <2> DEFINE before == SubSeq(seq, 1, i - 1)
             after == SubSeq(seq, i + 1, n)
  <2>1. rest = before \o after
        BY DEF RemoveAt
  <2>2. /\ before \in Seq(S) /\ Len(before) = i - 1
        /\ \A j \in 1 .. i - 1 : before[j] = seq[j]
        BY <1>1
  <2>3. after \in Seq(S) /\ Len(after) = n - i
    <3>1. CASE i = n
          BY <1>1, <3>1
    <3>2. CASE i # n
          BY <1>1, <3>2
    <3> QED BY <3>1, <3>2
  <2>4. \A j \in 1 .. n - i : after[j] = seq[j + i]
        BY <1>1
  <2> HIDE DEF before, after, rest, n
  <2>5. rest \in Seq(S) /\ Len(rest) = n - 1 /\ DOMAIN rest = 1 .. n - 1
    <3>1. rest \in Seq(S) /\ Len(rest) = Len(before) + Len(after)
          BY <2>1, <2>2, <2>3, ConcatProperties
    <3>2. Len(rest) = n - 1
          BY <1>1, <2>2, <2>3, <3>1
    <3> QED BY <3>1, <3>2
  <2>6. ASSUME NEW j \in 1 .. n - 1
        PROVE  rest[j] = IF j < i THEN seq[j] ELSE seq[j + 1]
    <3>1. CASE j < i
      <4>1. j \in 1 .. i - 1
            BY <1>1, <3>1
      <4> QED BY <2>1, <2>2, <2>3, <3>1, <4>1
    <3>2. CASE ~(j < i)
      <4>1. j - (i - 1) \in 1 .. n - i /\ (j - (i - 1)) + i = j + 1
            BY <1>1, <3>2
      <4>2. rest[j] = after[j - Len(before)]
        <5>1. j \in 1 .. Len(before) + Len(after) /\ ~(j <= Len(before))
              BY <1>1, <2>2, <2>3, <3>2
        <5> QED BY <2>1, <2>2, <2>3, <5>1, ConcatProperties
      <4> QED BY <2>2, <2>4, <3>2, <4>1, <4>2
    <3> QED BY <3>1, <3>2
  <2> QED BY <2>5, <2>6
<1> HIDE DEF rest
<1>3. /\ DOMAIN whole = 1 .. n /\ whole[n] = x
      /\ \A j \in 1 .. n - 1 : whole[j] = rest[j]
  <2> HIDE DEF n
  <2> QED BY <1>1, <1>2
<1> HIDE DEF whole, n
<1>4. ToSet(whole) \subseteq ToSet(seq) \cup {x}
  <2> SUFFICES ASSUME NEW j \in 1 .. n, j # n PROVE whole[j] \in ToSet(seq)
      BY <1>3 DEF ToSet
  <2>1. j \in 1 .. n - 1 /\ j \in 1 .. n /\ j + 1 \in 1 .. n
        BY <1>1
  <2> QED BY <1>1, <1>2, <1>3, <2>1 DEF ToSet
<1>5. x \in ToSet(whole)
  <2>1. n \in 1 .. n
        BY <1>1
  <2> QED BY <1>3, <2>1 DEF ToSet
<1>6. ASSUME NEW j \in DOMAIN seq, j # i PROVE seq[j] \in ToSet(whole)
  <2>1. CASE j < i
    <3>1. j \in 1 .. n - 1 /\ j \in 1 .. n
          BY <1>1, <2>1
    <3> QED BY <1>2, <1>3, <2>1, <3>1 DEF ToSet
  <2>2. CASE i < j
    <3>1. j - 1 \in 1 .. n - 1 /\ j - 1 \in 1 .. n /\ ~(j - 1 < i) /\ (j - 1) + 1 = j
          BY <1>1, <2>2
    <3>2. whole[j - 1] = seq[j]
          BY <1>2, <1>3, <3>1
    <3> QED BY <1>3, <3>1, <3>2 DEF ToSet
  <2> QED BY <1>1, <1>6, <2>1, <2>2
<1> QED BY <1>4, <1>5, <1>6 DEF whole, rest

\* The lines that are stored: the payload, but for its secrets.
Written(lines) ==
    /\ lines \in Seq(Fitting)
    /\ \A i \in DOMAIN payload :
          ~HasSecret(payload[i]) => i \in DOMAIN lines /\ lines[i] = payload[i]
    /\ \/ vault' = Append(vault, Incoming(lines))
       \/ \E i \in DOMAIN vault : vault' = Merge(Incoming(lines), i)

\* A capture that is stored or merged writes such lines.
LEMMA PersistWrites ==
  ASSUME EvidenceInv, KeptInv, LongestLineBounds, Persist
  PROVE  \/ vault' = vault /\ outcome' \notin {"Stored", "Merged"}
         \/ \E lines : Written(lines)
<1> DEFINE verdict == Evaluate(context, payload, Blocklist)
           redacted == RedactSecretLines(payload, Placeholder)
           lines == IF verdict = "Redact" THEN redacted ELSE payload
           stories == Candidates(Incoming(lines))
<1>1. \/ vault' = vault /\ outcome' = "FinalPrivacy"
      \/ stories # {} /\ vault' = Merge(Incoming(lines), Max(stories))
      \/ vault' = Append(vault, Incoming(lines))
      BY DEF Persist, End
<1>2. vault \in Seq(Stories) /\ payload \in Seq(Fitting)
      BY DEF EvidenceInv, KeptInv, Persist
<1>3. /\ Len(payload) \in Nat /\ DOMAIN payload = 1 .. Len(payload)
      /\ \A i \in 1 .. Len(payload) : payload[i] \in Fitting
      BY <1>2
<1>4. /\ DOMAIN redacted = 1 .. Len(payload)
      /\ redacted = [i \in 1 .. Len(payload) |-> redacted[i]]
      /\ \A i \in 1 .. Len(payload) :
            redacted[i] = IF HasSecret(payload[i]) THEN Placeholder ELSE payload[i]
      BY <1>3 DEF RedactSecretLines
<1> HIDE DEF redacted
<1>5. redacted \in Seq(Fitting)
  <2>1. \A i \in 1 .. Len(payload) : redacted[i] \in Fitting
        BY <1>3, <1>4, WhatFits
  <2> QED BY <1>3, <1>4, <2>1, FunctionSequence
<1> HIDE DEF verdict
<1>6. /\ lines \in Seq(Fitting)
      /\ \A i \in DOMAIN payload :
            ~HasSecret(payload[i]) => i \in DOMAIN lines /\ lines[i] = payload[i]
      BY <1>2, <1>3, <1>4, <1>5
<1>7. ASSUME stories # {} PROVE Max(stories) \in DOMAIN vault
  <2>1. stories \subseteq 0 .. Len(vault) /\ Len(vault) \in Nat
        BY <1>2 DEF Candidates
  <2>2. Max(stories) \in stories
    <3> HIDE DEF stories
    <3> QED BY <1>7, <2>1, GreatestNatural
  <2> QED BY <2>2 DEF Candidates
<1> HIDE DEF stories, lines
<1> QED BY <1>1, <1>6, <1>7 DEF Written

\* What the vault holds then.
LEMMA WrittenRecords ==
  ASSUME EvidenceInv, NEW lines, Written(lines)
  PROVE  \/ /\ Records' = Records \cup {Incoming(lines)}
            /\ Incoming(lines).text = lines
         \/ \E old \in Records, new \in Records' :
               /\ new.text = MergeStoryText(old.text, lines)
               /\ Records' \subseteq Records \cup {new} /\ Records \ {old} \subseteq Records'
<1>1. vault \in Seq(Stories)
      BY DEF EvidenceInv
<1>2. Incoming(lines).text = lines
      BY DEF Incoming
<1>3. CASE vault' = Append(vault, Incoming(lines))
  <2> DEFINE x == Incoming(lines)
             n == Len(vault)
  <2>1. n \in Nat /\ DOMAIN vault = 1 .. n /\ DOMAIN vault' = 1 .. n + 1
        BY <1>1, <1>3
  <2>2. vault'[n + 1] = x /\ \A i \in 1 .. n : vault'[i] = vault[i]
        BY <1>1, <1>3
  <2> HIDE DEF x, n
  <2>3. \A i \in 1 .. n + 1 : i = n + 1 \/ i \in 1 .. n
        BY <2>1
  <2>4. n + 1 \in 1 .. n + 1 /\ \A i \in 1 .. n : i \in 1 .. n + 1
        BY <2>1
  <2>5. Records' = Records \cup {x}
        BY <2>1, <2>2, <2>3, <2>4 DEF Records
  <2> QED BY <1>2, <2>5 DEF x
<1>4. ASSUME NEW i \in DOMAIN vault, vault' = Merge(Incoming(lines), i)
      PROVE  \E old \in Records, new \in Records' :
               /\ new.text = MergeStoryText(old.text, lines)
               /\ Records' \subseteq Records \cup {new} /\ Records \ {old} \subseteq Records'
  <2> DEFINE new == [Incoming(lines) EXCEPT
                        !.text     = MergeStoryText(vault[i].text, Incoming(lines).text),
                        !.contexts = @ \cup vault[i].contexts,
                        !.legible  = @ \cup vault[i].legible]
             old == vault[i]
  <2>1. vault' = Append(RemoveAt(vault, i), new)
        BY <1>4 DEF Merge
  <2>2. new.text = MergeStoryText(old.text, lines)
        BY <1>2 DEF Incoming
  <2> HIDE DEF new
  <2> DEFINE T == Stories \cup {new}
  <2>3. vault \in Seq(T) /\ new \in T
        BY <1>1
  <2> HIDE DEF T
  <2>4. /\ ToSet(vault') \subseteq ToSet(vault) \cup {new} /\ new \in ToSet(vault')
        /\ \A j \in DOMAIN vault : j # i => vault[j] \in ToSet(vault')
        BY <2>1, <2>3, Replaced
  <2>5. Records = ToSet(vault) /\ Records' = ToSet(vault')
        BY DEF Records, ToSet
  <2> QED BY <2>2, <2>4, <2>5 DEF ToSet
<1> QED BY <1>2, <1>3, <1>4 DEF Written

\* Persisting a capture stores lines that fit.
LEMMA PersistKeeps ==
  ASSUME LongestLineBounds, EvidenceInv, KeptInv, Persist
  PROVE  KeptInv'
<1>1. pc' # "persist"
      BY DEF Persist, End
<1>2. \A r \in Records : r.text \in Seq(Fitting)
      BY DEF KeptInv
<1>3. CASE vault' = vault
      BY <1>1, <1>2, <1>3 DEF KeptInv, Records
<1>4. ASSUME NEW lines, Written(lines) PROVE \A r \in Records' : r.text \in Seq(Fitting)
  <2>1. lines \in Seq(Fitting)
        BY <1>4 DEF Written
  <2>2. CASE Records' = Records \cup {Incoming(lines)} /\ Incoming(lines).text = lines
        BY <1>2, <2>1, <2>2
  <2>3. ASSUME NEW old \in Records, NEW new \in Records',
               new.text = MergeStoryText(old.text, lines), Records' \subseteq Records \cup {new}
        PROVE  \A r \in Records' : r.text \in Seq(Fitting)
    <3>1. new.text \in Seq(Fitting)
          BY <1>2, <2>1, <2>3, WhatFits, MergedFrom
    <3> QED BY <1>2, <2>3, <3>1
  <2> QED BY <1>4, <2>2, <2>3, WrittenRecords
<1> QED BY <1>1, <1>3, <1>4, PersistWrites DEF KeptInv

\* Below the cap the vault then says what it said, and the prose of the frame.
LEMMA PersistSays ==
  ASSUME LongestLineBounds, EvidenceInv, KeptInv, Persist,
         outcome' \in {"Stored", "Merged"}, ~AtCap'
  PROVE  AllSaid \cup Prose(raw) \subseteq AllSaid'
<1>1. PICK lines : Written(lines)
      BY PersistWrites
<1>2. /\ lines \in Seq(Fitting)
      /\ \A i \in DOMAIN payload :
            ~HasSecret(payload[i]) => i \in DOMAIN lines /\ lines[i] = payload[i]
      BY <1>1 DEF Written
<1>3. \A name \in Prose(raw) : \E i \in DOMAIN lines :
         lines[i].name = name /\ lines[i].bytes >= MinSegment
  <2> TAKE name \in Prose(raw)
  <2>1. PICK i \in DOMAIN payload : /\ payload[i].name = name /\ ~HasSecret(payload[i])
                                    /\ payload[i].bytes >= MinSegment
        BY DEF KeptInv, Persist
  <2> QED BY <1>2, <2>1
<1>4. /\ AllSaid = UNION {SaysIn(r.text) : r \in Records}
      /\ AllSaid' = UNION {SaysIn(r.text) : r \in Records'}
      BY DEF AllSaid, Says, SaysIn
<1>5. CASE Records' = Records \cup {Incoming(lines)} /\ Incoming(lines).text = lines
  <2>1. \A name \in Prose(raw) : name \in SaysIn(lines)
        BY <1>3 DEF SaysIn
  <2> HIDE DEF SaysIn
  <2> QED BY <1>4, <1>5, <2>1
<1>6. ASSUME NEW old \in Records, NEW new \in Records',
             new.text = MergeStoryText(old.text, lines), Records \ {old} \subseteq Records'
      PROVE  AllSaid \cup Prose(raw) \subseteq AllSaid'
  <2>1. old.text \in Seq(Fitting)
        BY DEF KeptInv
  <2>2. Measured(Fitting) /\ LongestLine \in Nat
        BY WhatFits
  <2>3. TextChars(new.text) + LongestLine <= StoryCap
    <3>1. TextChars(new.text) \in Nat
      <4>1. new.text \in Seq(Fitting) /\ \A l \in Fitting : l.chars \in Nat
            BY <1>2, <1>6, <2>1, <2>2, MergedFrom DEF Measured
      <4> QED BY <4>1, CharsGrow
    <3>2. ~(TextChars(new.text) + LongestLine > StoryCap)
          BY DEF AtCap
    <3> QED BY <2>2, <3>1, <3>2, ContinuityAssumption
  <2>4. /\ SaysIn(old.text) \subseteq SaysIn(new.text)
        /\ \A j \in DOMAIN lines : lines[j].bytes >= MinSegment => lines[j].name \in SaysIn(new.text)
        BY <1>2, <1>6, <2>1, <2>2, <2>3, MergeSays
  <2>5. \A name \in Prose(raw) : name \in SaysIn(new.text)
        BY <1>3, <2>4
  <2>6. \A r \in Records : r = old \/ r \in Records'
        BY <1>6
  <2> HIDE DEF SaysIn
  <2> QED BY <1>4, <2>4, <2>5, <2>6
<1> QED BY <1>1, <1>5, <1>6, WrittenRecords

\* Every step keeps the invariant.
LEMMA NextKeeps ==
  ASSUME LinesAreTexts, LongestLineBounds, SegmentsAreEnough,
         EvidenceInv, KeptInv, [Next]_vars
  PROVE  KeptInv'
<1>1. CASE UNCHANGED vars
  <2>1. Records' = Records /\ Prose(raw)' = Prose(raw)
        BY <1>1 DEF vars, Records, Prose
  <2> QED BY <1>1, <2>1 DEF KeptInv, vars
<1>2. ASSUME NEW i \in DOMAIN vault, Close(i) PROVE KeptInv'
  <2>1. pc' # "persist" /\ vault' = [vault EXCEPT ![i].open = FALSE]
        BY <1>2 DEF Close
  <2>2. \A j \in DOMAIN vault : vault[j] \in Stories /\ vault[j].text \in Seq(Fitting)
        BY DEF EvidenceInv, KeptInv, Records
  <2>3. DOMAIN vault' = DOMAIN vault /\ \A j \in DOMAIN vault : vault'[j].text = vault[j].text
        BY <2>1, <2>2 DEF Stories
  <2> QED BY <2>1, <2>2, <2>3 DEF KeptInv, Records
<1> QED BY <1>1, <1>2, LookKeeps, ReadFrameKeeps, PersistKeeps DEF Next

\* A step that ends a frame without evidence, or that stores one, keeps the prose.
LEMMA StepKeepsProse ==
  ASSUME LinesAreTexts, LongestLineBounds, SegmentsAreEnough, EvidenceInv, KeptInv, [Next]_vars
  PROVE  [KeepsProse]_vars
<1>1. SUFFICES ASSUME Next PROVE KeepsProse
      OBVIOUS
<1>2. CASE \E s \in Screens : Look(s)
      BY <1>2 DEF KeepsProse, Look
<1>3. CASE \E observations \in Frames : ReadFrame(observations)
  <2>1. PICK observations \in Frames : ReadFrame(observations)
        BY <1>3
  <2>2. pc' = "idle" /\ Recognize(raw').confidence >= 35 => Prose(raw') = {}
        BY <2>1, NoEvidenceNoProse
  <2>3. pc = "ocr"
        BY <2>1 DEF ReadFrame
  <2> QED BY <2>2, <2>3 DEF KeepsProse
<1>4. CASE Persist
  <2>1. pc = "persist"
        BY <1>4 DEF Persist
  <2>2. outcome' \in {"Stored", "Merged"} /\ ~AtCap' => AllSaid \cup Prose(raw) \subseteq AllSaid'
        BY <1>4, PersistSays
  <2> QED BY <2>1, <2>2 DEF KeepsProse
<1>5. CASE \E i \in DOMAIN vault : Close(i)
      BY <1>5 DEF KeepsProse, Close
<1> QED BY <1>1, <1>2, <1>3, <1>4, <1>5 DEF Next

-----------------------------------------------------------------------------
(* The theorems                                                            *)

\* Nothing the gate refuses by the metadata it reads, no line of text with a secret and no
\* hidden part of a URL is ever in the vault, whatever is in front, whatever Vision reads
\* and whatever the user blocks.
THEOREM PrivateStaysOutAlways == Spec => []PrivateStaysOut
<1>1. EvidenceInv => PrivateStaysOut
  <2> SUFFICES ASSUME EvidenceInv, NEW r \in Records
               PROVE  /\ \A c \in r.contexts : Skips(c, Blocklist) = {}
                      /\ \A i \in DOMAIN r.text : ~HasSecret(r.text[i])
                      /\ r.url.query = {} /\ r.url.hidden = {}
      BY DEF PrivateStaysOut
  <2>1. r \in Stories /\ Sound(r)
        BY RecordsAreStories DEF Stories
  <2>2. \A i \in DOMAIN r.text : ~HasSecret(r.text[i])
    <3>1. r.text \in Seq(Clean(r.contexts, r.legible))
          BY <2>1 DEF Sound
    <3>2. \A i \in DOMAIN r.text : r.text[i] \in Clean(r.contexts, r.legible)
          BY <3>1
    <3> QED BY <3>2 DEF Clean
  <2>3. PICK s \in r.contexts : r.url = SanitizeUrlForStorage(s.url)
        BY <2>1 DEF Sound
  <2>4. s.url \in AnyUrl
        BY <2>1, ContextTypes DEF Stories
  <2>5. r.url.query = {} /\ r.url.hidden = {}
    <3>1. CASE r.url = NoUrl
      <4>1. NoUrl.query = {} /\ NoUrl.hidden = {}
            BY DEF NoUrl
      <4> QED BY <3>1, <4>1
    <3>2. CASE r.url = [s.url EXCEPT !.query = {}, !.hidden = {}]
          BY <2>4, <3>2 DEF AnyUrl
    <3> QED BY <2>3, <3>1, <3>2 DEF SanitizeUrlForStorage
  <2> QED BY <2>1, <2>2, <2>5 DEF Sound
<1> QED BY AlwaysEvidence, <1>1, PTL

\* All the captures of a story are of one site, or of one application where there is none.
THEOREM StoryStaysOnSiteAlways == Spec => []StoryStaysOnSite
<1>1. EvidenceInv => StoryStaysOnSite
  <2> SUFFICES ASSUME EvidenceInv, NEW r \in Records, NEW c \in r.contexts, NEW d \in r.contexts
               PROVE  SiteOf(c) = SiteOf(d) /\ (SiteOf(c) = <<>> => c.app = d.app)
      BY DEF StoryStaysOnSite
  <2> QED BY RecordsAreStories DEF Stories, Sound
<1> QED BY AlwaysEvidence, <1>1, PTL

\* A record says, once, what was legible on its frames and is no chrome, or its title and
\* place.
THEOREM TextIsEvidenceAlways ==
  ASSUME TitlesAreNoPlaces
  PROVE  Spec => []TextIsEvidence
<1>1. EvidenceInv => TextIsEvidence
  <2> SUFFICES ASSUME EvidenceInv, NEW r \in Records
               PROVE  /\ \A i, j \in Wording(r) : r.text[i].name = r.text[j].name => i = j
                      /\ \A i \in Wording(r) : LET t == r.text[i] IN
                            \/ \E s \in r.contexts :
                                  t = s.title \/ t = UrlText(SanitizeUrlForStorage(s.url))
                            \/ /\ t.name \in r.legible
                               /\ \E s \in r.contexts :
                                     ~ShouldDrop(AppClass(s.app, s.bundle), t)
      BY DEF TextIsEvidence
  <2>1. Sound(r)
        BY RecordsAreStories DEF Stories
  <2>2. \A i, j \in Wording(r) : r.text[i].name = r.text[j].name => i = j
        BY <2>1 DEF Sound, SaidOnce, Wording
  <2>3. \A i \in DOMAIN r.text : r.text[i] \in Clean(r.contexts, r.legible)
        BY <2>1 DEF Sound
  <2>4. \A i \in Wording(r) : LET t == r.text[i] IN
           \/ \E s \in r.contexts : t = s.title \/ t = UrlText(SanitizeUrlForStorage(s.url))
           \/ /\ t.name \in r.legible
              /\ \E s \in r.contexts : ~ShouldDrop(AppClass(s.app, s.bundle), t)
        BY <2>3 DEF Wording, Clean, Shown
  <2> QED BY <2>1, <2>2, <2>4 DEF Sound
<1> QED BY AlwaysEvidence, <1>1, PTL

\* A frame that shows prose at a usable confidence is not refused as low signal, what it
\* says is in the vault once it is stored, and no merge drops what a story said: text is
\* lost only at the cap.
THEOREM ProseIsKeptAlways ==
  ASSUME LinesAreTexts, LongestLineBounds, SegmentsAreEnough
  PROVE  Spec => ProseIsKept
<1> DEFINE Inv == EvidenceInv /\ KeptInv
<1>1. Init => Inv
      BY InitEvidence DEF Init, KeptInv, Records
<1>2. Inv /\ [Next]_vars => Inv'
      BY NextEvidence, NextKeeps
<1>3. Inv /\ [Next]_vars => [KeepsProse]_vars
      BY StepKeepsProse
<1> QED BY <1>1, <1>2, <1>3, PTL DEF Spec, ProseIsKept
=============================================================================
