---------------------------- MODULE ProofHashProofs ----------------------------
(***************************************************************************)
(* Proofs about ProofHash, for lists of any length and any step.           *)
(***************************************************************************)
EXTENDS ProofHash, SequenceTheorems, TLAPS

USE LengthAssumption, StepAssumption

\* Each distance that is drawn is a natural number, and the record of what
\* was drawn keeps its type.
LEMMA DistanceType ==
  ASSUME TypeOK, length > 0, NEW d \in Distances, NEW t \in Seq(Entries), IntFromHash(t, d),
         length' = length
  PROVE  /\ d \in Nat
         /\ \A u \in DOMAIN drawn' : u \in Seq(Entries) /\ drawn'[u] \in 0 .. length' - 1
<1>1. d \in Nat BY DEF Distances, TypeOK
<1>2. length > FixedStep => d \in 0 .. length - 1 BY DEF Distances, TypeOK
<1> QED BY <1>1, <1>2 DEF IntFromHash, TypeOK

\* Every variable always has its type.
THEOREM TypeCorrect == Spec => []TypeOK
<1>1. Init => TypeOK BY DEF Init, TypeOK
<1>2. TypeOK /\ [Next]_vars => TypeOK'
  <2> SUFFICES ASSUME TypeOK, [Next]_vars PROVE TypeOK'
    OBVIOUS
  <2>1. ASSUME NEW w \in Walkers, Start(w) PROVE TypeOK'
    <3>1. CASE length = 0 /\ UNCHANGED <<drawn, seed>> BY <2>1, <3>1 DEF Start, TypeOK
    <3>2. CASE length > 0
      <4>1. PICK d \in Distances : IntFromHash(<<>>, d) /\ seed' = [seed EXCEPT ![w] = d]
        BY <2>1, <3>2 DEF Start
      <4>2. <<>> \in Seq(Entries) /\ length' = length BY <2>1 DEF Start
      <4> QED BY <2>1, <3>2, <4>1, <4>2, DistanceType DEF Start, TypeOK
    <3> QED BY <2>1, <3>1, <3>2 DEF Start, TypeOK
  <2>2. ASSUME NEW w \in Walkers, HashBlock(w) PROVE TypeOK'
    <3>1. PICK got \in {"bytes", "nil"}, d \in Distances :
            LET more == Append(text[w], [block |-> i[w], got |-> got]) IN
            /\ text' = [text EXCEPT ![w] = more]
            /\ IntFromHash(more, d)
            /\ seed' = [seed EXCEPT ![w] = @ + d]
      BY <2>2 DEF HashBlock
    <3> DEFINE more == Append(text[w], [block |-> i[w], got |-> got])
    <3>2. [block |-> i[w], got |-> got] \in Entries BY DEF Entries, TypeOK
    <3>3. more \in Seq(Entries) BY <3>2 DEF TypeOK
    <3>4. length > 0 /\ length' = length /\ i[w] < length
      BY <2>2 DEF HashBlock, Looping, TypeOK
    <3>5. /\ d \in Nat
          /\ \A u \in DOMAIN drawn' : u \in Seq(Entries) /\ drawn'[u] \in 0 .. length' - 1
      BY <3>1, <3>3, <3>4, DistanceType
    <3>6. seed' \in [Walkers -> Nat] BY <3>1, <3>5 DEF TypeOK
    <3>7. text' \in [Walkers -> Seq(Entries)] BY <3>1, <3>3 DEF TypeOK
    <3>8. i' \in [Walkers -> 0 .. length' + 1] BY <2>2, <3>4 DEF HashBlock, TypeOK
    <3> QED BY <2>2, <3>4, <3>5, <3>6, <3>7, <3>8 DEF HashBlock, TypeOK
  <2>3. ASSUME NEW w \in Walkers, SkipBlock(w) PROVE TypeOK'
    <3>1. i[w] + 1 \in 0 .. length + 1 BY <2>3 DEF SkipBlock, Looping, TypeOK
    <3>2. i' \in [Walkers -> 0 .. length' + 1] BY <2>3, <3>1 DEF SkipBlock, TypeOK
    <3> QED BY <2>3, <3>2 DEF SkipBlock, TypeOK
  <2>4. ASSUME NEW w \in Walkers, Finish(w) PROVE TypeOK'
    BY <2>4 DEF Finish, TypeOK
  <2>5. CASE UNCHANGED vars BY <2>5 DEF vars, TypeOK
  <2> QED BY <2>1, <2>2, <2>3, <2>4, <2>5 DEF Next, Step
<1> QED BY <1>1, <1>2, PTL DEF Spec

-----------------------------------------------------------------------------
\* What has been hashed lies before the loop index.
BehindIndex == \A w \in Walkers : \A k \in 1 .. Len(text[w]) : text[w][k].block < i[w]

\* A walk never leaves its list and never turns back, because it hashes the
\* block at its index, which only grows, and stops where the list ends.
THEOREM WalkAlwaysAscends == Spec => []WalkAscends
<1>1. Init => WalkAscends /\ BehindIndex BY DEF Init, WalkAscends, BehindIndex
<1>2. TypeOK /\ WalkAscends /\ BehindIndex /\ [Next]_vars => (WalkAscends /\ BehindIndex)'
  <2> SUFFICES ASSUME TypeOK, WalkAscends, BehindIndex, [Next]_vars
               PROVE  (WalkAscends /\ BehindIndex)'
    OBVIOUS
  <2>1. ASSUME NEW w \in Walkers, HashBlock(w) PROVE (WalkAscends /\ BehindIndex)'
    <3>1. PICK got \in {"bytes", "nil"} :
            text' = [text EXCEPT ![w] = Append(@, [block |-> i[w], got |-> got])]
      BY <2>1 DEF HashBlock
    <3>2. i[w] \in 0 .. length - 1 /\ length' = length /\ length \in Nat
          /\ i' = [i EXCEPT ![w] = @ + 1]
      BY <2>1 DEF HashBlock, Looping, TypeOK
    <3>3. ASSUME NEW v \in Walkers, v # w
          PROVE  text'[v] = text[v] /\ i'[v] = i[v]
      BY <3>1, <3>2, <3>3 DEF TypeOK
    <3>4. /\ Len(text'[w]) = Len(text[w]) + 1 /\ Len(text[w]) \in Nat
          /\ text'[w][Len(text[w]) + 1].block = i[w]
          /\ \A k \in 1 .. Len(text[w]) : text'[w][k] = text[w][k]
      BY <3>1 DEF TypeOK
    <3>5. \A k \in 1 .. Len(text[w]) : text[w][k].block \in Nat /\ text[w][k].block < i[w]
      BY <3>2 DEF WalkAscends, BehindIndex
    <3>6. BehindIndex'
      <4> SUFFICES ASSUME NEW v \in Walkers, NEW k \in 1 .. Len(text'[v])
                   PROVE  text'[v][k].block < i'[v]
        BY DEF BehindIndex
      <4>1. CASE v # w BY <3>3, <4>1 DEF BehindIndex
      <4>2. i'[w] = i[w] + 1 BY <3>2 DEF TypeOK
      <4>3. CASE v = w /\ k = Len(text[w]) + 1 BY <3>2, <3>4, <4>2, <4>3
      <4>4. CASE v = w /\ k \in 1 .. Len(text[w])
        <5>1. text'[w][k] = text[w][k] BY <3>4, <4>4
        <5> QED BY <3>2, <3>5, <4>2, <4>4, <5>1
      <4> QED BY <3>4, <4>1, <4>3, <4>4
    <3>7. WalkAscends'
      <4> SUFFICES ASSUME NEW v \in Walkers, NEW k \in 1 .. Len(text'[v])
                   PROVE  /\ text'[v][k].block \in 0 .. length - 1
                          /\ k > 1 => text'[v][k - 1].block < text'[v][k].block
        BY <3>2 DEF WalkAscends
      <4>1. CASE v # w BY <3>3, <4>1 DEF WalkAscends
      <4>2. CASE v = w /\ k = Len(text[w]) + 1 BY <3>2, <3>4, <3>5, <4>2
      <4>3. CASE v = w /\ k \in 1 .. Len(text[w])
        <5>1. text'[w][k] = text[w][k] /\ (k > 1 => text'[w][k - 1] = text[w][k - 1])
          BY <3>4, <4>3
        <5> QED BY <4>3, <5>1 DEF WalkAscends
      <4> QED BY <3>4, <4>1, <4>2, <4>3
    <3> QED BY <3>6, <3>7
  <2>2. ASSUME NEW w \in Walkers, Start(w) \/ SkipBlock(w) \/ Finish(w)
        PROVE  (WalkAscends /\ BehindIndex)'
    <3>1. length' = length /\ text' = text /\ \A v \in Walkers : i[v] <= i'[v]
      BY <2>2 DEF Start, SkipBlock, Finish, TypeOK
    <3>2. \A v \in Walkers : \A k \in 1 .. Len(text[v]) : text[v][k].block \in Nat
      BY DEF WalkAscends, TypeOK
    <3>3. \A v \in Walkers : i[v] \in Int /\ i'[v] \in Int
      BY <2>2 DEF Start, SkipBlock, Finish, TypeOK
    <3>4. WalkAscends' BY <3>1 DEF WalkAscends
    <3>5. BehindIndex'
      <4> SUFFICES ASSUME NEW v \in Walkers, NEW k \in 1 .. Len(text[v])
                   PROVE  text[v][k].block < i'[v]
        BY <3>1 DEF BehindIndex
      <4>1. text[v][k].block < i[v] BY DEF BehindIndex
      <4> QED BY <3>1, <3>2, <3>3, <4>1
    <3> QED BY <3>4, <3>5
  <2>3. CASE UNCHANGED vars BY <2>3 DEF vars, WalkAscends, BehindIndex
  <2> QED BY <2>1, <2>2, <2>3 DEF Next, Step
<1> QED BY <1>1, <1>2, TypeCorrect, PTL DEF Spec

-----------------------------------------------------------------------------
\* Before it has hashed anything, a walk over at least two blocks is still to
\* reach its first one.
FirstAhead ==
  \A w \in Walkers :
    /\ at[w] = "start" => text[w] = <<>> /\ i[w] = 0
    /\ at[w] = "loop" /\ length >= 2 /\ text[w] = <<>> => i[w] <= seed[w] /\ seed[w] < length

\* A proof covers a block whenever the list has two or more, as long as it is
\* and whatever the distances.
THEOREM ProofCoversABlock == Spec => []CoversABlock
<1>1. Init => FirstAhead /\ CoversABlock BY DEF Init, FirstAhead, CoversABlock
<1>2. TypeOK /\ FirstAhead /\ CoversABlock /\ [Next]_vars => (FirstAhead /\ CoversABlock)'
  <2> SUFFICES ASSUME TypeOK, FirstAhead, CoversABlock, [Next]_vars
               PROVE  (FirstAhead /\ CoversABlock)'
    OBVIOUS
  <2>1. ASSUME NEW w \in Walkers, Start(w) PROVE (FirstAhead /\ CoversABlock)'
    <3>1. text' = text /\ i' = i /\ length' = length /\ at' = [at EXCEPT ![w] = "loop"]
          /\ at[w] = "start" /\ i[w] = 0 /\ text[w] = <<>> /\ length \in Nat
      BY <2>1 DEF Start, FirstAhead, TypeOK
    <3>2. /\ \A v \in Walkers : v # w => seed'[v] = seed[v]
          /\ length >= 2 => 0 <= seed'[w] /\ seed'[w] < length
      <4>1. CASE length = 0 /\ UNCHANGED <<drawn, seed>> BY <4>1 DEF TypeOK
      <4>2. CASE length > 0
        <5>1. PICK d \in Distances : seed' = [seed EXCEPT ![w] = d] BY <2>1, <4>2 DEF Start
        <5> QED BY <4>2, <5>1 DEF Distances, TypeOK
      <4> QED BY <2>1, <4>1, <4>2 DEF Start, TypeOK
    <3> QED BY <3>1, <3>2 DEF FirstAhead, CoversABlock, TypeOK
  <2>2. ASSUME NEW w \in Walkers, HashBlock(w) PROVE (FirstAhead /\ CoversABlock)'
    <3>1. at[w] = "loop" /\ at' = at /\ length' = length
      BY <2>2 DEF HashBlock, Looping, FirstAhead, TypeOK
    <3>2. text'[w] # <<>> /\ \A v \in Walkers :
            v # w => text'[v] = text[v] /\ i'[v] = i[v] /\ seed'[v] = seed[v]
      <4>1. PICK got \in {"bytes", "nil"}, d \in Distances :
              /\ text' = [text EXCEPT ![w] = Append(@, [block |-> i[w], got |-> got])]
              /\ seed' = [seed EXCEPT ![w] = @ + d]
        BY <2>2 DEF HashBlock
      <4>2. text'[w] = Append(text[w], [block |-> i[w], got |-> got])
        BY <4>1 DEF TypeOK
      <4>3. /\ [block |-> i[w], got |-> got] \in Entries
            /\ text[w] \in Seq(Entries) /\ Len(text[w]) \in Nat
        BY <4>1 DEF Entries, TypeOK
      <4>4. Len(text'[w]) = Len(text[w]) + 1 BY <4>2, <4>3
      <4>5. text'[w] # <<>> BY <4>3, <4>4
      <4> QED BY <2>2, <4>1, <4>5 DEF HashBlock, TypeOK
    <3> QED BY <3>1, <3>2 DEF FirstAhead, CoversABlock, TypeOK
  <2>3. ASSUME NEW w \in Walkers, SkipBlock(w) PROVE (FirstAhead /\ CoversABlock)'
    BY <2>3 DEF SkipBlock, Looping, FirstAhead, CoversABlock, TypeOK
  <2>4. ASSUME NEW w \in Walkers, Finish(w) PROVE (FirstAhead /\ CoversABlock)'
    BY <2>4 DEF Finish, FirstAhead, CoversABlock, TypeOK
  <2>5. CASE UNCHANGED vars BY <2>5 DEF vars, FirstAhead, CoversABlock
  <2> QED BY <2>1, <2>2, <2>3, <2>4, <2>5 DEF Next, Step
<1> QED BY <1>1, <1>2, TypeCorrect, PTL DEF Spec

-----------------------------------------------------------------------------
(* Two walks.  Where a walk stops next depends on nothing but the text it  *)
(* has hashed: this is StopsDrawn.                                         *)

Prefix(w, k) == SubSeq(text[w], 1, k)

\* The k-th block hashed, and the one after it, or the index where it will be.
Last(w, k) == IF k = 0 THEN 0 ELSE text[w][k].block
Stop(w, k) == IF k < Len(text[w]) THEN text[w][k + 1].block ELSE seed[w]

Distance(t) == IF length <= FixedStep THEN 1 ELSE drawn[t]

StopsDrawn ==
  \A w \in Walkers : at[w] # "start" /\ length > 0 =>
    \A k \in 0 .. Len(text[w]) :
      /\ length > FixedStep => Prefix(w, k) \in DOMAIN drawn
      /\ Stop(w, k) = Last(w, k) + Distance(Prefix(w, k))

\* A walk that looks for a block has not passed it, unless the distance was 0.
StopAhead ==
  \A w \in Walkers :
    /\ at[w] = "start" => text[w] = <<>> /\ i[w] = 0 /\ seed[w] = 0
    /\ length = 0 => text[w] = <<>>
    /\ at[w] = "loop" => \/ i[w] <= seed[w] \/ length <= seed[w]
                         \/ text[w] # <<>> /\ seed[w] <= Last(w, Len(text[w]))
    /\ at[w] = "done" => \/ length <= seed[w]
                         \/ text[w] # <<>> /\ seed[w] <= Last(w, Len(text[w]))

\* Up to k two texts agree, or they differ first over a block.
AgreeTo(v, w, k) == \A j \in 1 .. k : text[v][j] = text[w][j]
SplitBy(v, w, k) == \E m \in 1 .. k : /\ text[v][m].block = text[w][m].block
                                      /\ text[v][m].got # text[w][m].got
AgreeOrSplit ==
  \A v, w \in Walkers : \A k \in 0 .. Len(text[v]) :
    k <= Len(text[w]) => AgreeTo(v, w, k) \/ SplitBy(v, w, k)

WalksInv == StopsDrawn /\ StopAhead /\ AgreeOrSplit

\* Texts that agree up to k have the same prefix there.
LEMMA SamePrefix ==
  ASSUME NEW s \in Seq(Entries), NEW t \in Seq(Entries), NEW k \in 0 .. Len(s), k <= Len(t),
         \A j \in 1 .. k : s[j] = t[j]
  PROVE  SubSeq(s, 1, k) = SubSeq(t, 1, k)
<1>1. \A j \in 1 .. k : s[j] \in Entries /\ t[j] \in Entries OBVIOUS
<1>2. /\ SubSeq(s, 1, k) \in Seq(Entries) /\ SubSeq(t, 1, k) \in Seq(Entries)
      /\ Len(SubSeq(s, 1, k)) = k /\ Len(SubSeq(t, 1, k)) = k
      /\ \A j \in 1 .. k : SubSeq(s, 1, k)[j] = s[j] /\ SubSeq(t, 1, k)[j] = t[j]
  BY <1>1, SubSeqProperties
<1> QED BY <1>2, SeqEqual

\* Two walks with the same text so far go on to the same block.
LEMMA SameStop ==
  ASSUME TypeOK, StopsDrawn, length > 0, NEW v \in Walkers, NEW w \in Walkers,
         at[v] # "start", at[w] # "start",
         NEW k \in 0 .. Len(text[v]), k <= Len(text[w]), AgreeTo(v, w, k)
  PROVE  Stop(v, k) = Stop(w, k)
<1>1. text[v] \in Seq(Entries) /\ text[w] \in Seq(Entries) BY DEF TypeOK
<1>2. \A j \in 1 .. k : text[v][j] = text[w][j] BY DEF AgreeTo
<1>3. Prefix(v, k) = Prefix(w, k) BY <1>1, <1>2, SamePrefix DEF Prefix
<1>4. Last(v, k) = Last(w, k) BY <1>2 DEF Last
<1>5. k \in 0 .. Len(text[w]) BY <1>1
<1> QED BY <1>3, <1>4, <1>5 DEF StopsDrawn

\* What was drawn for a text stays, and what is drawn now is kept.
LEMMA DrawnStays ==
  ASSUME length \in Nat, NEW t, NEW d \in Distances, IntFromHash(t, d), length' = length
  PROVE  /\ \A u \in DOMAIN drawn : u \in DOMAIN drawn' /\ drawn'[u] = drawn[u]
         /\ length > FixedStep => t \in DOMAIN drawn' /\ drawn'[t] = d
         /\ length <= FixedStep => d = 1
<1>1. CASE length <= FixedStep
  <2>1. drawn' = drawn /\ d = 1 BY <1>1 DEF IntFromHash, Distances
  <2> QED BY <1>1, <2>1
<1>2. CASE length > FixedStep
  <2>1. CASE t \in DOMAIN drawn /\ d = drawn[t] /\ UNCHANGED drawn
    BY <1>2, <2>1
  <2>2. CASE /\ t \notin DOMAIN drawn
             /\ drawn' = [u \in DOMAIN drawn \cup {t} |-> IF u = t THEN d ELSE drawn[u]]
    BY <1>2, <2>2
  <2> QED BY <1>2, <2>1, <2>2 DEF IntFromHash
<1> QED BY <1>1, <1>2

\* What a walk does to its own text when it hashes a block.
LEMMA BlockHashed ==
  ASSUME TypeOK, NEW w \in Walkers, HashBlock(w)
  PROVE  \E got \in {"bytes", "nil"}, d \in Distances :
           LET more == Append(text[w], [block |-> i[w], got |-> got])
               n == Len(text[w]) IN
           /\ length' = length /\ length > 0 /\ at' = at /\ at[w] = "loop" /\ i[w] = seed[w]
           /\ n \in Nat /\ more \in Seq(Entries) /\ Len(more) = n + 1
           /\ text'[w] = more /\ more[n + 1] = [block |-> i[w], got |-> got]
           /\ \A j \in 1 .. n : more[j] = text[w][j]
           /\ IntFromHash(more, d) /\ d \in Nat
           /\ seed'[w] = i[w] + d /\ i'[w] = i[w] + 1
           /\ \A v \in Walkers \ {w} : text'[v] = text[v] /\ seed'[v] = seed[v] /\ i'[v] = i[v]
<1>1. PICK got \in {"bytes", "nil"}, d \in Distances :
        LET more == Append(text[w], [block |-> i[w], got |-> got]) IN
        /\ text' = [text EXCEPT ![w] = more]
        /\ IntFromHash(more, d)
        /\ seed' = [seed EXCEPT ![w] = @ + d]
  BY DEF HashBlock
<1> DEFINE more == Append(text[w], [block |-> i[w], got |-> got])
           n == Len(text[w])
<1>2. /\ length' = length /\ length > 0 /\ at' = at /\ at[w] = "loop" /\ i[w] = seed[w]
      /\ i' = [i EXCEPT ![w] = @ + 1]
  BY DEF HashBlock, Looping, TypeOK
<1>3. [block |-> i[w], got |-> got] \in Entries BY DEF Entries, TypeOK
<1>4. /\ n \in Nat /\ more \in Seq(Entries) /\ Len(more) = n + 1
      /\ more[n + 1] = [block |-> i[w], got |-> got]
      /\ \A j \in 1 .. n : more[j] = text[w][j]
  BY <1>3, AppendProperties DEF TypeOK
<1>5. d \in Nat BY <1>2 DEF Distances, TypeOK
<1>6. text'[w] = more /\ seed'[w] = i[w] + d /\ i'[w] = i[w] + 1
  BY <1>1, <1>2, <1>5 DEF TypeOK
<1>7. \A v \in Walkers \ {w} : text'[v] = text[v] /\ seed'[v] = seed[v] /\ i'[v] = i[v]
  BY <1>1, <1>2 DEF TypeOK
<1> QED BY <1>1, <1>2, <1>4, <1>5, <1>6, <1>7

\* A walk that changes neither its text nor where it will stop, while others
\* draw, keeps what was said of it.
LEMMA StopsKept ==
  ASSUME StopsDrawn, NEW w \in Walkers, at[w] # "start", length \in Nat, length > 0,
         length' = length,
         text'[w] = text[w], seed'[w] = seed[w], Len(text[w]) \in Nat,
         \A u \in DOMAIN drawn : u \in DOMAIN drawn' /\ drawn'[u] = drawn[u],
         NEW k \in 0 .. Len(text[w])
  PROVE  /\ length > FixedStep => Prefix(w, k)' \in DOMAIN drawn'
         /\ Stop(w, k)' = Last(w, k)' + Distance(Prefix(w, k))'
<1>1. /\ length > FixedStep => Prefix(w, k) \in DOMAIN drawn
      /\ Stop(w, k) = Last(w, k) + Distance(Prefix(w, k))
  BY DEF StopsDrawn
<1>2. Prefix(w, k)' = Prefix(w, k) /\ Last(w, k)' = Last(w, k) /\ Stop(w, k)' = Stop(w, k)
  BY DEF Prefix, Last, Stop
<1>3. Distance(Prefix(w, k))' = Distance(Prefix(w, k))
  <2>1. CASE length <= FixedStep BY <2>1 DEF Distance
  <2>2. CASE length > FixedStep
    <3>1. Prefix(w, k) \in DOMAIN drawn BY <1>1, <2>2
    <3> QED BY <1>2, <2>2, <3>1 DEF Distance
  <2> QED BY <2>1, <2>2
<1> QED BY <1>1, <1>2, <1>3

\* Hashing a block keeps StopsDrawn: the walk's own stops go with its longer
\* text, and the others' distances stay.
LEMMA StopsHashed ==
  ASSUME TypeOK, StopsDrawn, NEW w \in Walkers, HashBlock(w)
  PROVE  StopsDrawn'
<1>1. PICK got \in {"bytes", "nil"}, d \in Distances :
        LET more == Append(text[w], [block |-> i[w], got |-> got])
            n == Len(text[w]) IN
        /\ length' = length /\ length > 0 /\ at' = at /\ at[w] = "loop" /\ i[w] = seed[w]
        /\ n \in Nat /\ more \in Seq(Entries) /\ Len(more) = n + 1
        /\ text'[w] = more /\ more[n + 1] = [block |-> i[w], got |-> got]
        /\ \A j \in 1 .. n : more[j] = text[w][j]
        /\ IntFromHash(more, d) /\ d \in Nat
        /\ seed'[w] = i[w] + d /\ i'[w] = i[w] + 1
        /\ \A v \in Walkers \ {w} : text'[v] = text[v] /\ seed'[v] = seed[v] /\ i'[v] = i[v]
  BY BlockHashed
<1> DEFINE more == Append(text[w], [block |-> i[w], got |-> got])
           n == Len(text[w])
<1>2. length \in Nat /\ FixedStep \in Nat /\ i[w] \in Nat BY DEF TypeOK
<1>3. /\ \A u \in DOMAIN drawn : u \in DOMAIN drawn' /\ drawn'[u] = drawn[u]
      /\ length > FixedStep => more \in DOMAIN drawn' /\ drawn'[more] = d
      /\ length <= FixedStep => d = 1
  BY <1>1, <1>2, DrawnStays
<1> SUFFICES ASSUME NEW v \in Walkers, at[v] # "start", NEW k \in 0 .. Len(text'[v])
             PROVE  /\ length > FixedStep => Prefix(v, k)' \in DOMAIN drawn'
                    /\ Stop(v, k)' = Last(v, k)' + Distance(Prefix(v, k))'
  BY <1>1 DEF StopsDrawn
<1>4. CASE v # w
  <2>1. text'[v] = text[v] /\ seed'[v] = seed[v] /\ Len(text[v]) \in Nat BY <1>1, <1>4 DEF TypeOK
  <2> QED BY <1>1, <1>2, <1>3, <2>1, StopsKept
<1>5. CASE v = w /\ k = n + 1
  <2>1. Prefix(w, k)' = more BY <1>1, <1>5, SubSeqFull DEF Prefix
  <2>2. Stop(w, k)' = i[w] + d BY <1>1, <1>5 DEF Stop
  <2>3. Last(w, k)' = i[w] BY <1>1, <1>5 DEF Last
  <2>4. Distance(Prefix(w, k))' = d
    <3>1. CASE length <= FixedStep BY <1>1, <1>3, <3>1 DEF Distance
    <3>2. CASE length > FixedStep BY <1>1, <1>2, <1>3, <2>1, <3>2 DEF Distance
    <3> QED BY <1>2, <3>1, <3>2
  <2> QED BY <1>3, <1>5, <2>1, <2>2, <2>3, <2>4
<1>6. CASE v = w /\ k \in 0 .. n
  <2>1. k \in 0 .. Len(text[w]) /\ text[w] \in Seq(Entries) BY <1>6 DEF TypeOK
  <2>2. Prefix(w, k)' = Prefix(w, k)
    <3>1. k <= Len(more) /\ \A j \in 1 .. k : text[w][j] = more[j] BY <1>1, <1>6
    <3>2. SubSeq(text[w], 1, k) = SubSeq(more, 1, k) BY <1>1, <2>1, <3>1, SamePrefix
    <3> QED BY <1>1, <3>2 DEF Prefix
  <2>3. Last(w, k)' = Last(w, k) BY <1>1, <1>6 DEF Last
  <2>4. Stop(w, k)' = Stop(w, k)
    <3>1. CASE k = n BY <1>1, <3>1 DEF Stop
    <3>2. CASE k < n BY <1>1, <1>6, <3>2 DEF Stop
    <3> QED BY <1>1, <1>6, <3>1, <3>2
  <2>5. /\ length > FixedStep => Prefix(w, k) \in DOMAIN drawn
        /\ Stop(w, k) = Last(w, k) + Distance(Prefix(w, k))
    BY <1>1, <2>1 DEF StopsDrawn
  <2>6. Distance(Prefix(w, k))' = Distance(Prefix(w, k))
    <3>1. CASE length <= FixedStep BY <1>1, <3>1 DEF Distance
    <3>2. CASE length > FixedStep BY <1>1, <1>3, <2>2, <2>5, <3>2 DEF Distance
    <3> QED BY <1>2, <3>1, <3>2
  <2> QED BY <1>3, <1>6, <2>2, <2>3, <2>4, <2>5, <2>6
<1> QED BY <1>1, <1>4, <1>5, <1>6

\* So do the other steps.
LEMMA StopsStep ==
  ASSUME TypeOK, StopsDrawn, StopAhead, [Next]_vars
  PROVE  StopsDrawn'
<1>1. length \in Nat /\ \A v \in Walkers : Len(text[v]) \in Nat BY DEF TypeOK
<1>2. ASSUME NEW w \in Walkers, Start(w) PROVE StopsDrawn'
  <2>1. /\ length' = length /\ text' = text /\ text[w] = <<>> /\ at' = [at EXCEPT ![w] = "loop"]
    BY <1>2 DEF Start, StopAhead
  <2>2. CASE length = 0 BY <2>1, <2>2 DEF StopsDrawn
  <2>3. CASE length > 0
    <3>1. PICK d \in Distances : IntFromHash(<<>>, d) /\ seed' = [seed EXCEPT ![w] = d]
      BY <1>2, <2>3 DEF Start
    <3>2. /\ \A u \in DOMAIN drawn : u \in DOMAIN drawn' /\ drawn'[u] = drawn[u]
          /\ length > FixedStep => <<>> \in DOMAIN drawn' /\ drawn'[<<>>] = d
          /\ length <= FixedStep => d = 1
      BY <1>1, <2>1, <3>1, DrawnStays
    <3>3. seed'[w] = d /\ d \in Nat BY <2>3, <3>1 DEF Distances, TypeOK
    <3> SUFFICES ASSUME NEW v \in Walkers, at'[v] # "start", NEW k \in 0 .. Len(text[v])
                 PROVE  /\ length > FixedStep => Prefix(v, k)' \in DOMAIN drawn'
                        /\ Stop(v, k)' = Last(v, k)' + Distance(Prefix(v, k))'
      BY <2>1 DEF StopsDrawn
    <3>4. CASE v # w
      <4>1. text'[v] = text[v] /\ seed'[v] = seed[v] /\ at[v] # "start"
        BY <2>1, <3>1, <3>4 DEF TypeOK
      <4> QED BY <1>1, <2>1, <2>3, <3>2, <4>1, StopsKept
    <3>5. CASE v = w
      <4>1. k = 0 BY <2>1, <3>5
      <4>2. Prefix(w, k)' = <<>> BY <4>1, SubSeqEmpty DEF Prefix
      <4>3. Stop(w, k)' = d /\ Last(w, k)' = 0 BY <2>1, <3>3, <4>1 DEF Stop, Last
      <4>4. Distance(Prefix(w, k))' = d
        <5>1. CASE length <= FixedStep BY <2>1, <3>2, <5>1 DEF Distance
        <5>2. CASE length > FixedStep BY <1>1, <2>1, <3>2, <4>2, <5>2 DEF Distance
        <5> QED BY <1>1, <5>1, <5>2
      <4> QED BY <3>2, <3>3, <3>5, <4>2, <4>3, <4>4
    <3> QED BY <3>4, <3>5
  <2> QED BY <1>1, <2>2, <2>3
<1>3. ASSUME NEW w \in Walkers, SkipBlock(w) \/ Finish(w) PROVE StopsDrawn'
  <2>1. /\ length' = length /\ text' = text /\ seed' = seed /\ drawn' = drawn
        /\ \A v \in Walkers : at'[v] # "start" => at[v] # "start"
    BY <1>3 DEF SkipBlock, Looping, Finish, TypeOK
  <2> QED BY <2>1 DEF StopsDrawn, Prefix, Stop, Last, Distance
<1>4. CASE UNCHANGED vars BY <1>4 DEF vars, StopsDrawn, Prefix, Stop, Last, Distance
<1> QED BY <1>2, <1>3, <1>4, StopsHashed DEF Next, Step

\* Every step keeps StopAhead: an index is passed only when the walk does not
\* stop there, and a walk with a stop to come ends only at the end of the list.
LEMMA AheadStep ==
  ASSUME TypeOK, StopAhead, [Next]_vars
  PROVE  StopAhead'
<1>1. length \in Nat /\ \A v \in Walkers : i[v] \in 0 .. length + 1 /\ seed[v] \in Nat
  BY DEF TypeOK
<1>2. ASSUME NEW w \in Walkers, HashBlock(w) PROVE StopAhead'
  <2>1. PICK got \in {"bytes", "nil"}, d \in Distances :
          LET more == Append(text[w], [block |-> i[w], got |-> got])
              n == Len(text[w]) IN
          /\ length' = length /\ length > 0 /\ at' = at /\ at[w] = "loop" /\ i[w] = seed[w]
          /\ n \in Nat /\ more \in Seq(Entries) /\ Len(more) = n + 1
          /\ text'[w] = more /\ more[n + 1] = [block |-> i[w], got |-> got]
          /\ \A j \in 1 .. n : more[j] = text[w][j]
          /\ IntFromHash(more, d) /\ d \in Nat
          /\ seed'[w] = i[w] + d /\ i'[w] = i[w] + 1
          /\ \A v \in Walkers \ {w} : text'[v] = text[v] /\ seed'[v] = seed[v] /\ i'[v] = i[v]
    BY <1>2, BlockHashed
  <2>2. text'[w] # <<>> BY <2>1
  <2>3. Last(w, Len(text[w]))' = i[w] BY <2>1 DEF Last
  <2>4. \/ i'[w] <= seed'[w]
        \/ text'[w] # <<>> /\ seed'[w] <= Last(w, Len(text[w]))'
    <3>1. i[w] \in Nat /\ d \in Nat /\ (d = 0 \/ d >= 1) BY <1>1, <2>1
    <3>2. CASE d = 0 BY <2>1, <2>2, <2>3, <3>1, <3>2
    <3>3. CASE d >= 1 BY <2>1, <3>1, <3>3
    <3> QED BY <3>1, <3>2, <3>3
  <2>5. \A v \in Walkers \ {w} : Last(v, Len(text[v]))' = Last(v, Len(text[v]))
    BY <2>1 DEF Last
  <2> SUFFICES ASSUME NEW v \in Walkers
               PROVE  /\ at'[v] = "start" => text'[v] = <<>> /\ i'[v] = 0 /\ seed'[v] = 0
                      /\ length = 0 => text'[v] = <<>>
                      /\ at'[v] = "loop" =>
                           \/ i'[v] <= seed'[v] \/ length <= seed'[v]
                           \/ text'[v] # <<>> /\ seed'[v] <= Last(v, Len(text[v]))'
                      /\ at'[v] = "done" =>
                           \/ length <= seed'[v]
                           \/ text'[v] # <<>> /\ seed'[v] <= Last(v, Len(text[v]))'
    BY <2>1 DEF StopAhead
  <2>6. CASE v = w BY <1>1, <2>1, <2>4, <2>6
  <2>7. CASE v # w BY <2>1, <2>5, <2>7 DEF StopAhead
  <2> QED BY <2>6, <2>7
<1>3. ASSUME NEW w \in Walkers, Start(w) PROVE StopAhead'
  <2>1. /\ length' = length /\ text' = text /\ i' = i /\ at' = [at EXCEPT ![w] = "loop"]
        /\ text[w] = <<>> /\ i[w] = 0
        /\ \A v \in Walkers \ {w} : seed'[v] = seed[v]
    BY <1>3 DEF Start, StopAhead, TypeOK
  <2>2. seed'[w] >= 0 BY <1>1, <1>3 DEF Start, Distances, TypeOK
  <2>3. \A v \in Walkers : Last(v, Len(text[v]))' = Last(v, Len(text[v])) BY <2>1 DEF Last
  <2> QED BY <1>1, <2>1, <2>2, <2>3 DEF StopAhead, TypeOK
<1>4. ASSUME NEW w \in Walkers, SkipBlock(w) \/ Finish(w) PROVE StopAhead'
  <2>1. /\ length' = length /\ text' = text /\ seed' = seed
        /\ \A v \in Walkers : Last(v, Len(text[v]))' = Last(v, Len(text[v]))
    BY <1>4 DEF SkipBlock, Finish, Last
  <2>2. CASE SkipBlock(w)
    <3>1. at' = at /\ at[w] = "loop" /\ i[w] # seed[w] /\ i'[w] = i[w] + 1
          /\ \A v \in Walkers \ {w} : i'[v] = i[v]
      BY <2>2 DEF SkipBlock, Looping, TypeOK
    <3>2. i[w] <= seed[w] => i'[w] <= seed[w] BY <1>1, <3>1
    <3> QED BY <2>1, <3>1, <3>2 DEF StopAhead
  <2>3. CASE Finish(w)
    <3>1. /\ at[w] = "loop" /\ i' = i /\ (i[w] > length \/ seed[w] >= length)
          /\ at'[w] = "done" /\ \A v \in Walkers \ {w} : at'[v] = at[v]
      BY <2>3 DEF Finish, TypeOK
    <3>2. i[w] <= seed[w] \/ seed[w] >= length => length <= seed[w] BY <1>1, <3>1
    <3> QED BY <1>1, <2>1, <3>1, <3>2 DEF StopAhead
  <2> QED BY <1>4, <2>2, <2>3
<1>5. CASE UNCHANGED vars BY <1>5 DEF vars, StopAhead, Last
<1> QED BY <1>2, <1>3, <1>4, <1>5 DEF Next, Step

\* Every step keeps AgreeOrSplit: where two texts agree, both go on with the
\* same block, which either both walks read alike, or not.
LEMMA AgreeStep ==
  ASSUME TypeOK, WalksInv, [Next]_vars
  PROVE  AgreeOrSplit'
<1>1. ASSUME NEW w \in Walkers, HashBlock(w) PROVE AgreeOrSplit'
  <2>1. PICK got \in {"bytes", "nil"}, d \in Distances :
          LET more == Append(text[w], [block |-> i[w], got |-> got])
              n == Len(text[w]) IN
          /\ length' = length /\ length > 0 /\ at' = at /\ at[w] = "loop" /\ i[w] = seed[w]
          /\ n \in Nat /\ more \in Seq(Entries) /\ Len(more) = n + 1
          /\ text'[w] = more /\ more[n + 1] = [block |-> i[w], got |-> got]
          /\ \A j \in 1 .. n : more[j] = text[w][j]
          /\ IntFromHash(more, d) /\ d \in Nat
          /\ seed'[w] = i[w] + d /\ i'[w] = i[w] + 1
          /\ \A v \in Walkers \ {w} : text'[v] = text[v] /\ seed'[v] = seed[v] /\ i'[v] = i[v]
    BY <1>1, BlockHashed
  <2> DEFINE n == Len(text[w])
  <2>2. ASSUME NEW v \in Walkers \ {w}, NEW k \in 0 .. n + 1, k <= Len(text[v])
        PROVE  AgreeTo(w, v, k)' \/ SplitBy(w, v, k)'
    <3>1. \A j \in 1 .. n : text'[w][j] = text[w][j] BY <2>1
    <3>2. text'[v] = text[v] /\ Len(text[v]) \in Nat /\ text[v] \in Seq(Entries)
      BY <2>1 DEF TypeOK
    <3>3. \A j \in 0 .. n : j <= Len(text[v]) => AgreeTo(w, v, j) \/ SplitBy(w, v, j)
      BY DEF WalksInv, AgreeOrSplit
    <3>4. CASE k <= n
      <4>1. AgreeTo(w, v, k) => AgreeTo(w, v, k)' BY <2>1, <3>1, <3>2, <3>4 DEF AgreeTo
      <4>2. SplitBy(w, v, k) => SplitBy(w, v, k)' BY <2>1, <3>1, <3>2, <3>4 DEF SplitBy
      <4>3. k \in 0 .. n BY <2>1, <3>4
      <4>4. AgreeTo(w, v, k) \/ SplitBy(w, v, k) BY <2>2, <3>3, <4>3
      <4> QED BY <4>1, <4>2, <4>4
    <3>5. CASE k = n + 1
      <4>1. CASE SplitBy(w, v, n)
        <5>1. PICK m \in 1 .. n : /\ text[w][m].block = text[v][m].block
                                  /\ text[w][m].got # text[v][m].got
          BY <4>1 DEF SplitBy
        <5>2. m \in 1 .. k /\ text'[w][m] = text[w][m] BY <2>1, <3>1, <3>5
        <5> QED BY <3>2, <5>1, <5>2 DEF SplitBy
      <4>2. CASE AgreeTo(w, v, n)
        <5>1. at[v] # "start" /\ at[w] # "start"
          BY <2>1, <2>2, <3>2, <3>5 DEF WalksInv, StopAhead
        <5>2. Stop(w, n) = Stop(v, n)
          BY <2>1, <2>2, <3>2, <3>5, <4>2, <5>1, SameStop DEF WalksInv
        <5>3. Stop(w, n) = i[w] BY <2>1 DEF Stop
        <5>4. Stop(v, n) = text[v][k].block BY <2>1, <2>2, <3>2, <3>5 DEF Stop
        <5>5. text'[w][k] = [block |-> i[w], got |-> got] BY <2>1, <3>5
        <5>6. text[v][k] \in Entries BY <2>1, <2>2, <3>2, <3>5
        <5>7. text[v][k] = [block |-> text[v][k].block, got |-> text[v][k].got]
          BY <5>6 DEF Entries
        <5>8. \A j \in 1 .. n : text'[w][j] = text'[v][j] BY <3>1, <3>2, <4>2 DEF AgreeTo
        <5>9. CASE text[v][k].got = got
          <6>1. text'[w][k] = text'[v][k] BY <3>2, <5>2, <5>3, <5>4, <5>5, <5>7, <5>9
          <6>2. \A j \in 1 .. k : j \in 1 .. n \/ j = k BY <2>1, <3>5
          <6> QED BY <5>8, <6>1, <6>2 DEF AgreeTo
        <5>10. CASE text[v][k].got # got
          <6>1. k \in 1 .. k BY <2>1, <3>5
          <6>2. text'[w][k].block = i[w] /\ text'[w][k].got = got BY <5>5
          <6>3. text'[v][k].block = i[w] /\ text'[v][k].got # got BY <3>2, <5>2, <5>3, <5>4, <5>10
          <6> QED BY <6>1, <6>2, <6>3 DEF SplitBy
        <5> QED BY <5>9, <5>10
      <4> QED BY <2>1, <2>2, <3>2, <3>3, <3>5, <4>1, <4>2
    <3> QED BY <2>1, <3>4, <3>5
  <2> SUFFICES ASSUME NEW u \in Walkers, NEW v \in Walkers,
                      NEW k \in 0 .. Len(text'[u]), k <= Len(text'[v])
               PROVE  AgreeTo(u, v, k)' \/ SplitBy(u, v, k)'
    BY DEF AgreeOrSplit
  <2>3. CASE u = v BY <2>3 DEF AgreeTo
  <2>4. CASE u = w /\ v # w BY <2>1, <2>2, <2>4
  <2>5. CASE u # w /\ v = w
    <3>1. k \in 0 .. n + 1 /\ k <= Len(text[u]) BY <2>1, <2>5 DEF TypeOK
    <3>2. AgreeTo(w, u, k)' \/ SplitBy(w, u, k)' BY <2>2, <2>5, <3>1
    <3> QED BY <2>5, <3>2 DEF AgreeTo, SplitBy
  <2>6. CASE u # w /\ v # w
    <3>1. text'[u] = text[u] /\ text'[v] = text[v] BY <2>1, <2>6
    <3>2. AgreeTo(u, v, k) \/ SplitBy(u, v, k) BY <3>1 DEF WalksInv, AgreeOrSplit
    <3> QED BY <3>1, <3>2 DEF AgreeTo, SplitBy
  <2> QED BY <2>3, <2>4, <2>5, <2>6
<1>2. ASSUME text' = text PROVE AgreeOrSplit'
  BY <1>2 DEF WalksInv, AgreeOrSplit, AgreeTo, SplitBy
<1> QED BY <1>1, <1>2 DEF Next, Step, Start, SkipBlock, Finish, vars

\* What is known of any two walks is invariant.
THEOREM WalksInvariant == Spec => []WalksInv
<1>1. Init => WalksInv
  <2> SUFFICES ASSUME Init PROVE WalksInv OBVIOUS
  <2>1. StopsDrawn /\ StopAhead BY DEF Init, StopsDrawn, StopAhead
  <2>2. \A w \in Walkers : text[w] = <<>> BY DEF Init
  <2>3. AgreeOrSplit BY <2>2 DEF AgreeOrSplit, AgreeTo
  <2> QED BY <2>1, <2>3 DEF WalksInv
<1>2. TypeOK /\ WalksInv /\ [Next]_vars => WalksInv'
  BY StopsStep, AheadStep, AgreeStep DEF WalksInv
<1> QED BY <1>1, <1>2, TypeCorrect, PTL DEF Spec

\* Two texts differ first over a block that one node read and the other did
\* not: no walk goes on, or ends, where another with the same text would not,
\* for lists of any length and any distances.
THEOREM TextsDifferOverABlock == Spec => []DifferOverABlock
<1>1. TypeOK /\ WalkAscends /\ WalksInv => DifferOverABlock
  <2> SUFFICES ASSUME TypeOK, WalkAscends, WalksInv,
                      NEW v \in Walkers, NEW w \in Walkers, NEW k \in 1 .. Len(text[v])
               PROVE  \/ k <= Len(text[w]) /\ text[v][k] = text[w][k]
                      \/ at[w] # "done" /\ k > Len(text[w])
                      \/ \E m \in 1 .. k : /\ m <= Len(text[w])
                                           /\ text[v][m].block = text[w][m].block
                                           /\ text[v][m].got # text[w][m].got
    BY DEF DifferOverABlock
  <2> SUFFICES ASSUME k > Len(text[w]) => at[w] = "done"
               PROVE  \/ k <= Len(text[w]) /\ text[v][k] = text[w][k]
                      \/ \E m \in 1 .. k : /\ m <= Len(text[w])
                                           /\ text[v][m].block = text[w][m].block
                                           /\ text[v][m].got # text[w][m].got
    OBVIOUS
  <2>1. /\ Len(text[v]) \in Nat /\ Len(text[w]) \in Nat /\ length \in Nat
        /\ seed[w] \in Nat
    BY DEF TypeOK
  <2>2. ASSUME NEW n \in 0 .. k, n <= Len(text[w])
        PROVE  \/ AgreeTo(v, w, n)
               \/ \E m \in 1 .. k : /\ m <= Len(text[w])
                                    /\ text[v][m].block = text[w][m].block
                                    /\ text[v][m].got # text[w][m].got
    <3>1. n \in 0 .. Len(text[v]) BY <2>1
    <3>2. AgreeTo(v, w, n) \/ SplitBy(v, w, n) BY <2>2, <3>1 DEF WalksInv, AgreeOrSplit
    <3>3. \A m \in 1 .. n : m \in 1 .. k /\ m <= Len(text[w]) BY <2>1, <2>2
    <3> QED BY <3>2, <3>3 DEF SplitBy
  <2>3. CASE k <= Len(text[w])
    <3>1. AgreeTo(v, w, k) => text[v][k] = text[w][k] BY DEF AgreeTo
    <3> QED BY <2>1, <2>2, <2>3, <3>1
  <2>4. CASE k > Len(text[w])
    <3> DEFINE n == Len(text[w])
    <3>1. n \in 0 .. k /\ n \in 0 .. Len(text[v]) /\ n + 1 \in 1 .. Len(text[v]) BY <2>1, <2>4
    <3>2. SUFFICES ASSUME AgreeTo(v, w, n) PROVE FALSE BY <2>1, <2>2, <3>1
    <3>3. /\ text[v][n + 1].block \in 0 .. length - 1
          /\ n + 1 > 1 => text[v][n + 1 - 1].block < text[v][n + 1].block
      BY <3>1 DEF WalkAscends
    <3>4. length > 0 /\ text[v] # <<>> BY <2>1, <3>1, <3>3
    <3>5. at[v] # "start" /\ at[w] = "done" BY <2>4, <3>4 DEF WalksInv, StopAhead
    <3>6. Stop(v, n) = Stop(w, n) BY <2>1, <3>1, <3>2, <3>4, <3>5, SameStop DEF WalksInv
    <3>7. Stop(v, n) = text[v][n + 1].block /\ Stop(w, n) = seed[w]
      BY <2>1, <2>4, <3>1 DEF Stop
    <3>8. length <= seed[w] \/ (text[w] # <<>> /\ seed[w] <= Last(w, n))
      BY <3>5 DEF WalksInv, StopAhead
    <3>9. text[w] # <<>> => n >= 1 /\ Last(w, n) = text[v][n].block
      <4>1. text[w] # <<>> => n >= 1 BY <2>1 DEF TypeOK
      <4> QED BY <2>1, <3>2, <4>1 DEF Last, AgreeTo
    <3>10. text[v][n + 1].block = seed[w] BY <3>6, <3>7
    <3>11. seed[w] \in 0 .. length - 1 BY <3>3, <3>10
    <3>12. CASE text[w] # <<>> /\ seed[w] <= Last(w, n)
      <4>1. n + 1 - 1 = n BY <2>1
      <4>2. text[v][n].block < text[v][n + 1].block BY <2>1, <3>3, <3>9, <3>12, <4>1
      <4>3. text[v][n].block \in Int
        <5>1. n \in 1 .. Len(text[v]) BY <2>1, <3>1, <3>9, <3>12
        <5> QED BY <5>1 DEF WalkAscends
      <4>4. seed[w] <= text[v][n].block
        <5>1. n \in 1 .. n BY <2>1, <3>9, <3>12
        <5>2. text[v][n] = text[w][n] BY <3>2, <5>1 DEF AgreeTo
        <5> QED BY <3>9, <3>12, <5>2
      <4> QED BY <2>1, <3>10, <4>2, <4>3, <4>4
    <3> QED BY <2>1, <3>8, <3>11, <3>12
  <2> QED BY <2>1, <2>3, <2>4
<1> QED BY <1>1, TypeCorrect, WalkAlwaysAscends, WalksInvariant, PTL

-----------------------------------------------------------------------------
(* How long a walk takes.                                                  *)

\* The steps a walk has left at most.
Left(w) == CASE at[w] = "start" -> length + 3
             [] at[w] = "loop" -> length + 2 - i[w]
             [] at[w] = "done" -> 0

WalkShortens ==
  \A w \in Walkers : /\ Left(w) \in Nat /\ Left(w)' \in Nat
                     /\ Step(w) => Left(w)' < Left(w)
                     /\ ~Step(w) => Left(w)' = Left(w)

\* Every step of a walk leaves it fewer, and no other walk's step adds to them:
\* a walk over n blocks ends after n + 3 steps, whatever distances are drawn,
\* distance 0 included, which the loop of validation.go:56 answers by going
\* through the rest of the list.  What WalkEnds adds is that the steps are taken.
THEOREM WalkAlwaysShortens == Spec => [][WalkShortens]_vars
<1>1. TypeOK /\ [Next]_vars => [WalkShortens]_vars
  <2> SUFFICES ASSUME TypeOK, Next, NEW w \in Walkers
               PROVE  /\ Left(w) \in Nat /\ Left(w)' \in Nat
                      /\ Step(w) => Left(w)' < Left(w)
                      /\ ~Step(w) => Left(w)' = Left(w)
    BY DEF WalkShortens
  <2>1. /\ length \in Nat /\ length' = length
        /\ at[w] \in {"start", "loop", "done"} /\ i[w] \in 0 .. length + 1
    BY DEF TypeOK, Next, Step, Start, HashBlock, SkipBlock, Finish
  <2>2. ASSUME NEW v \in Walkers, v # w, Step(v) PROVE at'[w] = at[w] /\ i'[w] = i[w]
    BY <2>2 DEF TypeOK, Step, Start, HashBlock, SkipBlock, Finish
  <2>3. Left(w) \in Nat BY <2>1 DEF Left
  <2>4. CASE Step(w)
    <3>1. \/ at[w] = "start" /\ at'[w] = "loop" /\ i'[w] = i[w]
          \/ /\ at[w] = "loop" /\ at'[w] = "loop"
             /\ i[w] <= length /\ i'[w] = i[w] + 1
          \/ at[w] = "loop" /\ at'[w] = "done"
      BY <2>1, <2>4 DEF TypeOK, Step, Start, HashBlock, SkipBlock, Finish, Looping
    <3>2. Left(w)' \in Nat /\ Left(w)' < Left(w)
      BY <2>1, <3>1 DEF Left
    <3> QED BY <2>3, <2>4, <3>2
  <2>5. CASE ~Step(w)
    <3>1. at'[w] = at[w] /\ i'[w] = i[w] BY <2>2, <2>5 DEF Next
    <3>2. Left(w)' = Left(w) BY <2>1, <3>1 DEF Left
    <3> QED BY <2>3, <2>5, <3>2
  <2> QED BY <2>4, <2>5
<1> QED BY <1>1, TypeCorrect, PTL DEF Spec
=============================================================================
