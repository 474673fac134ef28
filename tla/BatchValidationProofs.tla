------------------------ MODULE BatchValidationProofs ------------------------
(***************************************************************************)
(* Proofs about BatchValidation, for batches of any length: the results of *)
(* a reply rest on what the proof exchange has on record.                  *)
(***************************************************************************)
EXTENDS BatchValidation, ProofExchangeProofs

\* The exchange takes its own steps beside the batch.
LEMMA ExchangeRuns == [BNext]_bvars => [Next]_vars
BY DEF BNext, bvars, BatchStep, AskItem, ItemNotSent, BeginPoll, PollItem, GiveUpItem,
       SendBatch, BTick, BRestart, OtherSteps, Next, RequesterStep

\* So whatever holds of the exchange alone holds here.
LEMMA ExchangeHolds == BSpec => Spec
<1>1. BInit => Init BY DEF BInit
<1> QED BY <1>1, ExchangeRuns, PTL DEF BSpec, Spec

BatchTypeOK ==
  /\ conn \in {"working", "replied", "gone"}
  /\ item \in 1 .. Len(Batch) + 1
  /\ polling \in BOOLEAN
  /\ timer \in 0 .. PollLimit
  /\ results \in [1 .. item - 1 -> {"Valid", "Invalid"}]

\* Requests before the item in hand, and one waited for, have been made.
PolledIsMade ==
  /\ \A i \in 1 .. item - 1 : phase[Batch[i]] # "new"
  /\ polling => item <= Len(Batch) /\ phase[Batch[item]] # "new"

BatchInv ==
  /\ BatchTypeOK
  /\ PolledIsMade
  /\ ValidResultIsSound
  /\ ValidResultStands

\* The items of a batch are requests.
LEMMA ItemIsRequest ==
  /\ Len(Batch) \in Nat
  /\ \A i \in 1 .. Len(Batch) : Batch[i] \in Requests /\ SeedOfItem(i) \in Seeds
BY BatchAssumption, RequestAssumption DEF SeedOfItem

\* A step that enters no result: what the results rest on stays.
LEMMA ResultsKept ==
  ASSUME TypeOK, TypeOK', SoundInv, RecordInv, BatchInv, [Next]_vars,
         UNCHANGED <<item, results>>
  PROVE  ValidResultIsSound' /\ ValidResultStands'
<1>1. /\ DOMAIN results = 1 .. item - 1 /\ DOMAIN results' = 1 .. item - 1
      /\ 1 .. item - 1 \subseteq 1 .. Len(Batch)
  BY ItemIsRequest DEF BatchInv, BatchTypeOK
<1>2. ValidResultIsSound'
  <2> SUFFICES ASSUME NEW i \in 1 .. item - 1, results[i] = "Valid"
               PROVE  Agrees(SeedOfItem(i))' /\ Good(SeedOfItem(i))'
    BY <1>1 DEF ValidResultIsSound, Good, SeedOfItem
  <2>1. SeedOfItem(i) \in Seeds BY <1>1, ItemIsRequest
  <2>2. Agrees(SeedOfItem(i)) /\ Good(SeedOfItem(i))
    BY <1>1 DEF BatchInv, ValidResultIsSound, Good
  <2> QED BY <2>1, <2>2, JustifiedStep DEF SeedOfItem
<1>3. ValidResultStands'
  <2> SUFFICES ASSUME NEW i \in 1 .. item - 1, results[i] = "Valid", OnlyUser(Batch[i])'
               PROVE  status'[SeedOfItem(i)] = "Valid"
    BY <1>1 DEF ValidResultStands, OnlyUser, SeedOfItem
  <2>1. Batch[i] \in Requests BY <1>1, ItemIsRequest
  <2>2. OnlyUser(Batch[i]) BY <2>1, PhaseStep
  <2>3. status[SeedOfItem(i)] = "Valid"
    BY <1>1, <2>2 DEF BatchInv, ValidResultStands, OnlyUser, SeedOfItem
  <2> QED BY <2>1, <2>3, VerdictStands DEF SeedOfItem, Judged
<1> QED BY <1>2, <1>3

\* A step that enters one: it is Invalid, or the verdict on record.
LEMMA Entered ==
  ASSUME TypeOK, TypeOK', SoundInv, RecordInv, BatchInv, [Next]_vars,
         NEW result \in {"Valid", "Invalid"}, Enter(result), item <= Len(Batch),
         phase'[Batch[item]] # "new",
         result = "Valid" => status[SeedOfItem(item)] = "Valid" /\ UNCHANGED vars
  PROVE  BatchInv'
<1>1. /\ item \in 1 .. Len(Batch) /\ item' = item + 1 /\ Len(Batch) \in Nat
      /\ polling' = FALSE /\ timer' = 0 /\ conn' = conn
      /\ results' = Append(results, result)
  BY ItemIsRequest DEF Enter, BatchInv, BatchTypeOK
<1>2. results \in Seq({"Valid", "Invalid"}) /\ Len(results) = item - 1
  BY <1>1 DEF BatchInv, BatchTypeOK
<1>3. /\ results' \in [1 .. item -> {"Valid", "Invalid"}]
      /\ results'[item] = result
      /\ \A i \in 1 .. item - 1 : results'[i] = results[i]
  <2>1. /\ results' \in Seq({"Valid", "Invalid"}) /\ Len(results') = Len(results) + 1
        /\ \A i \in 1 .. Len(results) : results'[i] = results[i]
        /\ results'[Len(results) + 1] = result
    BY <1>1, <1>2
  <2>2. Len(results) + 1 = item BY <1>1, <1>2
  <2>3. results' \in [1 .. Len(results') -> {"Valid", "Invalid"}] BY <2>1
  <2> QED BY <1>2, <2>1, <2>2, <2>3
<1>4. BatchTypeOK'
  <2>1. item' - 1 = item BY <1>1
  <2>2. results' \in [1 .. item' - 1 -> {"Valid", "Invalid"}] BY <1>3, <2>1
  <2>3. item' \in 1 .. Len(Batch) + 1 /\ timer' \in 0 .. PollLimit
    BY <1>1, PollAssumption
  <2>4. conn' \in {"working", "replied", "gone"} /\ polling' \in BOOLEAN
    BY <1>1 DEF BatchInv, BatchTypeOK
  <2> QED BY <2>2, <2>3, <2>4 DEF BatchTypeOK
<1>5. /\ DOMAIN results = 1 .. item - 1 /\ DOMAIN results' = 1 .. item
      /\ \A i \in 1 .. item : i = item \/ i \in 1 .. item - 1
      /\ 1 .. item \subseteq 1 .. Len(Batch)
  BY <1>1, <1>3 DEF BatchInv, BatchTypeOK
<1>6. PolledIsMade'
  <2> SUFFICES ASSUME NEW i \in 1 .. item PROVE phase'[Batch[i]] # "new"
    BY <1>1 DEF PolledIsMade
  <2>1. CASE i = item BY <2>1
  <2>2. CASE i \in 1 .. item - 1
    <3>1. phase[Batch[i]] # "new" BY <2>2 DEF BatchInv, PolledIsMade
    <3> QED BY <1>5, <3>1, PhaseStep, ItemIsRequest
  <2> QED BY <1>5, <2>1, <2>2
<1>7. ValidResultIsSound'
  <2> SUFFICES ASSUME NEW i \in 1 .. item, results'[i] = "Valid"
               PROVE  Agrees(SeedOfItem(i))' /\ Good(SeedOfItem(i))'
    BY <1>5 DEF ValidResultIsSound, Good, SeedOfItem
  <2>1. SeedOfItem(i) \in Seeds BY <1>5, ItemIsRequest
  <2>2. Agrees(SeedOfItem(i)) /\ Good(SeedOfItem(i))
    <3>1. CASE i = item
      BY <1>3, <2>1, <3>1 DEF SoundInv, VerdictsSound
    <3>2. CASE i \in 1 .. item - 1
      BY <1>3, <1>5, <3>2 DEF BatchInv, ValidResultIsSound, Good
    <3> QED BY <1>5, <3>1, <3>2
  <2> QED BY <2>1, <2>2, JustifiedStep DEF SeedOfItem
<1>8. ValidResultStands'
  <2> SUFFICES ASSUME NEW i \in 1 .. item, results'[i] = "Valid", OnlyUser(Batch[i])'
               PROVE  status'[SeedOfItem(i)] = "Valid"
    BY <1>5 DEF ValidResultStands, OnlyUser, SeedOfItem
  <2>1. Batch[i] \in Requests BY <1>5, ItemIsRequest
  <2>2. CASE i = item
    BY <1>3, <2>2 DEF vars, records, SeedOfItem
  <2>3. CASE i \in 1 .. item - 1
    <3>1. OnlyUser(Batch[i]) BY <2>1, PhaseStep
    <3>2. status[SeedOfItem(i)] = "Valid"
      BY <1>3, <1>5, <2>3, <3>1 DEF BatchInv, ValidResultStands, OnlyUser, SeedOfItem
    <3> QED BY <2>1, <3>2, VerdictStands DEF SeedOfItem, Judged
  <2> QED BY <1>5, <2>2, <2>3
<1> QED BY <1>4, <1>6, <1>7, <1>8 DEF BatchInv

\* Every step keeps the invariant.
LEMMA BatchKeeps ==
  ASSUME TypeOK, TypeOK', SoundInv, RecordInv, BatchInv, [BNext]_bvars PROVE BatchInv'
<1>1. [Next]_vars BY ExchangeRuns
<1>2. ASSUME UNCHANGED <<item, results>>, BatchTypeOK', polling' = polling PROVE BatchInv'
  <2>1. PolledIsMade'
    <3>1. \A i \in 1 .. Len(Batch) : phase[Batch[i]] # "new" => phase'[Batch[i]] # "new"
      BY <1>1, PhaseStep, ItemIsRequest
    <3>2. item \in 1 .. Len(Batch) + 1 /\ Len(Batch) \in Nat
      BY ItemIsRequest DEF BatchInv, BatchTypeOK
    <3>3. 1 .. item - 1 \subseteq 1 .. Len(Batch) /\ (item <= Len(Batch) => item \in 1 .. Len(Batch))
      BY <3>2
    <3> QED BY <1>2, <3>1, <3>3 DEF BatchInv, PolledIsMade
  <2> QED BY <1>1, <1>2, <2>1, ResultsKept DEF BatchInv
<1>3. ASSUME UNCHANGED batch PROVE BatchInv'
  BY <1>2, <1>3 DEF batch, BatchInv, BatchTypeOK
<1>4. ASSUME NEW r \in Requests, AskItem(r) PROVE BatchInv' BY <1>3, <1>4 DEF AskItem
<1>5. ASSUME NEW r \in Requests, ItemNotSent(r) PROVE BatchInv'
  <2>1. /\ item <= Len(Batch) /\ Batch[item] = r
        /\ SendFails(r) /\ Enter("Invalid")
    BY <1>5 DEF ItemNotSent, InHand
  <2>2. phase'[r] # "new" BY <2>1 DEF SendFails, TypeOK
  <2> QED BY <1>1, <2>1, <2>2, Entered
<1>6. ASSUME NEW r \in Requests, BeginPoll(r) PROVE BatchInv'
  <2>1. /\ item <= Len(Batch) /\ Batch[item] = r /\ SaveTime(r)
        /\ polling' = TRUE /\ UNCHANGED <<conn, item, timer, results>>
    BY <1>6 DEF BeginPoll, InHand
  <2>2. BatchTypeOK' BY <2>1 DEF BatchInv, BatchTypeOK
  <2>3. phase'[Batch[item]] # "new" BY <2>1 DEF SaveTime, TypeOK
  <2>4. PolledIsMade'
    <3>1. item \in 1 .. Len(Batch) + 1 /\ Len(Batch) \in Nat
      BY ItemIsRequest DEF BatchInv, BatchTypeOK
    <3>2. 1 .. item - 1 \subseteq 1 .. Len(Batch) BY <3>1
    <3>3. \A i \in 1 .. item - 1 : phase'[Batch[i]] # "new"
      BY <1>1, <3>2, PhaseStep, ItemIsRequest DEF BatchInv, PolledIsMade
    <3> QED BY <2>1, <2>3, <3>3 DEF PolledIsMade
  <2> QED BY <1>1, <2>1, <2>2, <2>4, ResultsKept DEF BatchInv
<1>7. CASE PollItem
  <2> DEFINE result == IF status[SeedOf[Batch[item]]] = "Valid" THEN "Valid" ELSE "Invalid"
  <2>1. polling /\ Enter(result) /\ UNCHANGED vars BY <1>7 DEF PollItem
  <2>2. item <= Len(Batch) /\ phase[Batch[item]] # "new"
    BY <2>1 DEF BatchInv, PolledIsMade
  <2>3. phase'[Batch[item]] # "new" BY <2>1, <2>2 DEF vars
  <2>4. result \in {"Valid", "Invalid"}
        /\ (result = "Valid" => status[SeedOfItem(item)] = "Valid")
    BY DEF SeedOfItem
  <2> HIDE DEF result
  <2> QED BY <1>1, <2>1, <2>2, <2>3, <2>4, Entered
<1>8. CASE GiveUpItem
  <2>1. polling /\ Enter("Invalid") /\ UNCHANGED vars BY <1>8 DEF GiveUpItem
  <2>2. item <= Len(Batch) /\ phase[Batch[item]] # "new"
    BY <2>1 DEF BatchInv, PolledIsMade
  <2>3. phase'[Batch[item]] # "new" BY <2>1, <2>2 DEF vars
  <2> QED BY <1>1, <2>1, <2>2, <2>3, Entered
<1>9. CASE SendBatch BY <1>2, <1>9 DEF SendBatch, BatchInv, BatchTypeOK
<1>10. CASE BTick
  <2>1. timer' \in 0 .. PollLimit
    BY <1>10, PollAssumption DEF BTick, BatchInv, BatchTypeOK
  <2>2. BatchTypeOK' BY <1>10, <2>1 DEF BTick, BatchInv, BatchTypeOK
  <2> QED BY <1>2, <1>10, <2>2 DEF BTick
<1>11. CASE BRestart BY <1>2, <1>11 DEF BRestart, BatchInv, BatchTypeOK
<1>12. CASE OtherSteps \/ UNCHANGED bvars BY <1>3, <1>12 DEF OtherSteps, bvars
<1> QED BY <1>4, <1>5, <1>6, <1>7, <1>8, <1>9, <1>10, <1>11, <1>12 DEF BNext, BatchStep

\* What the loop over the items knows between its steps: handlers.go:258-378.
THEOREM BatchInvariant == BSpec => []BatchInv
<1>1. ASSUME BInit PROVE BatchInv
  <2>1. item = 1 /\ results = <<>> /\ polling = FALSE /\ timer = 0 /\ conn = "working"
    BY <1>1 DEF BInit
  <2>2. results \in [1 .. item - 1 -> {"Valid", "Invalid"}] /\ DOMAIN results = {}
    BY <2>1
  <2>3. item \in 1 .. Len(Batch) + 1 /\ timer \in 0 .. PollLimit
    BY <2>1, ItemIsRequest, PollAssumption
  <2>4. BatchTypeOK BY <2>1, <2>2, <2>3 DEF BatchTypeOK
  <2>5. PolledIsMade BY <2>1 DEF PolledIsMade
  <2> QED BY <2>2, <2>4, <2>5 DEF BatchInv, ValidResultIsSound, ValidResultStands
<1>2. TypeOK /\ TypeOK' /\ SoundInv /\ RecordInv /\ BatchInv /\ [BNext]_bvars => BatchInv'
  BY BatchKeeps
<1> QED BY <1>1, <1>2, ExchangeHolds, TypeCorrect, SoundInvariant, RecordInvariant, PTL
        DEF BSpec

\* Every variable of the loop keeps its type.
THEOREM BatchTypeCorrect == BSpec => []BTypeOK
<1>1. TypeOK /\ BatchInv => BTypeOK BY DEF BatchInv, BatchTypeOK, BTypeOK
<1> QED BY <1>1, ExchangeHolds, TypeCorrect, BatchInvariant, PTL

\* A result of Valid means lists whose walks can come out the same and an
\* answer within the limit, for batches of any length.
THEOREM ValidResultAlwaysSound == BSpec => []ValidResultIsSound
<1>1. BatchInv => ValidResultIsSound BY DEF BatchInv
<1> QED BY <1>1, BatchInvariant, PTL

\* It is what the record says, and goes on saying, while the other items are
\* asked and after the reply.
THEOREM ValidResultAlwaysStands == BSpec => []ValidResultStands
<1>1. BatchInv => ValidResultStands BY DEF BatchInv
<1> QED BY <1>1, BatchInvariant, PTL

-----------------------------------------------------------------------------
(* How long a batch takes, and what its reply has.                         *)

\* An item that is waited for has been asked; a reply is sent after the last.
PolledIsAsked ==
  /\ polling => phase[Batch[item]] \notin {"new", "created", "sent"}
  /\ conn = "replied" => item = Len(Batch) + 1

\* The steps left for the item in hand at most, and for the whole batch.
ItemLeft == IF polling THEN 1
            ELSE IF phase[Batch[item]] = "new" THEN 4
            ELSE IF phase[Batch[item]] = "created" THEN 3
            ELSE 2
BatchLeft == IF conn # "working" THEN 0
             ELSE IF item = Len(Batch) + 1 THEN 1
             ELSE 4 * (Len(Batch) - item) + 1 + ItemLeft

\* Each step of the connection's goroutine leaves it fewer, and nobody else's
\* adds to them.
BatchShortens ==
  /\ BatchLeft \in Nat /\ BatchLeft' \in Nat
  /\ BatchStep => BatchLeft' < BatchLeft
  /\ BatchLeft' <= BatchLeft

\* A reply has a result for each item of the batch, and no other.
ReplyIsComplete == conn = "replied" => DOMAIN results = 1 .. Len(Batch)

\* What the steps beside the batch do to the phase of a request.
LEMMA OthersKeepPhases ==
  ASSUME TypeOK, OtherSteps \/ BTick \/ UNCHANGED bvars PROVE phase' = phase
BY DEF OtherSteps, BTick, bvars, vars, HandlerStep, IndexStep, exchange, HandleRequestProof,
       ReceiveProof, ReadFastest, KeepFastest, MarkReceived, Judge, WriteBase, WriteNode,
       MarkAnswered, BeginIndex, SaveRefs, AbandonIndex, Tick

\* The steps of the goroutine one by one: the item in hand advances by a
\* stage, or gives way to the next, or was the last.
Advances ==
  /\ item \in 1 .. Len(Batch) /\ ~polling /\ item' = item /\ conn' = conn
  /\ \/ phase[Batch[item]] = "new" /\ phase'[Batch[item]] = "created" /\ polling' = FALSE
     \/ phase[Batch[item]] = "created" /\ phase'[Batch[item]] = "sent" /\ polling' = FALSE
     \/ phase[Batch[item]] = "sent" /\ phase'[Batch[item]] = "timed" /\ polling' = TRUE
GivesWay ==
  item \in 1 .. Len(Batch) /\ item' = item + 1 /\ polling' = FALSE /\ conn' = conn
Replies ==
  item = Len(Batch) + 1 /\ conn' = "replied" /\ UNCHANGED <<item, polling, phase>>

LEMMA BatchMoves ==
  ASSUME TypeOK, BatchInv, PolledIsAsked, BatchStep
  PROVE  conn = "working" /\ (Advances \/ GivesWay \/ Replies)
<1> USE ItemIsRequest
<1>1. /\ item \in 1 .. Len(Batch) + 1 /\ Len(Batch) \in Nat /\ polling \in BOOLEAN
      /\ polling => item <= Len(Batch)
  BY DEF BatchInv, BatchTypeOK, PolledIsMade
<1>2. ASSUME NEW r \in Requests, AskItem(r) PROVE conn = "working" /\ Advances
  <2>1. /\ conn = "working" /\ item <= Len(Batch) /\ Batch[item] = r
        /\ UNCHANGED <<conn, item, polling>>
    BY <1>2 DEF AskItem, InHand, batch
  <2>2. \/ phase[r] = "new" /\ phase'[r] = "created"
        \/ phase[r] = "created" /\ phase'[r] = "sent"
    BY <1>2 DEF AskItem, CreateProofRequest, SendProofRequest, TypeOK
  <2>3. polling = FALSE BY <1>1, <2>1, <2>2 DEF PolledIsAsked
  <2> QED BY <1>1, <2>1, <2>2, <2>3 DEF Advances
<1>3. ASSUME NEW r \in Requests, BeginPoll(r) PROVE conn = "working" /\ Advances
  BY <1>1, <1>3 DEF BeginPoll, InHand, SaveTime, TypeOK, PolledIsAsked, Advances
<1>4. ASSUME NEW r \in Requests, ItemNotSent(r) PROVE conn = "working" /\ GivesWay
  BY <1>1, <1>4 DEF ItemNotSent, InHand, Enter, GivesWay
<1>5. ASSUME PollItem \/ GiveUpItem PROVE conn = "working" /\ GivesWay
  BY <1>1, <1>5 DEF PollItem, GiveUpItem, Enter, GivesWay
<1>6. ASSUME SendBatch PROVE conn = "working" /\ Replies
  BY <1>1, <1>6 DEF SendBatch, vars, exchange, Replies
<1> QED BY <1>2, <1>3, <1>4, <1>5, <1>6 DEF BatchStep

\* Every step keeps the two.
LEMMA PolledStep ==
  ASSUME TypeOK, BatchInv, PolledIsAsked, [BNext]_bvars PROVE PolledIsAsked'
<1> USE ItemIsRequest
<1>1. CASE BatchStep
  <2>1. item \in Nat /\ Len(Batch) \in Nat BY DEF BatchInv, BatchTypeOK
  <2>2. CASE Advances BY <1>1, <2>2, BatchMoves DEF Advances, PolledIsAsked
  <2>3. CASE GivesWay BY <1>1, <2>3, BatchMoves DEF GivesWay, PolledIsAsked
  <2>4. CASE Replies
    <3>1. ~polling BY <2>1, <2>4 DEF Replies, BatchInv, PolledIsMade
    <3> QED BY <2>4, <3>1 DEF Replies, PolledIsAsked
  <2> QED BY <1>1, <2>2, <2>3, <2>4, BatchMoves
<1>2. CASE OtherSteps \/ BTick \/ UNCHANGED bvars
  <2>1. UNCHANGED <<conn, item, polling>>
    BY <1>2 DEF OtherSteps, BTick, bvars, batch
  <2> QED BY <1>2, <2>1, OthersKeepPhases DEF PolledIsAsked
<1>3. CASE BRestart
  <2>1. polling => Batch[item] \in Requests
    BY DEF BatchInv, BatchTypeOK, PolledIsMade
  <2>2. \A r \in Requests : phase[r] \notin {"new", "created", "sent"}
                              => phase'[r] \notin {"new", "created", "sent"}
    BY <1>3 DEF BRestart, Restart, TypeOK
  <2> QED BY <1>3, <2>1, <2>2 DEF BRestart, PolledIsAsked
<1> QED BY <1>1, <1>2, <1>3 DEF BNext

\* What the loop knows in addition.
THEOREM PolledInvariant == BSpec => []PolledIsAsked
<1>1. BInit => PolledIsAsked BY DEF BInit, PolledIsAsked
<1>2. TypeOK /\ BatchInv /\ PolledIsAsked /\ [BNext]_bvars => PolledIsAsked'
  BY PolledStep
<1> QED BY <1>1, <1>2, ExchangeHolds, TypeCorrect, BatchInvariant, PTL DEF BSpec

\* A batch of n items is answered after 4n + 1 steps of its goroutine at most
\* (the polls that find the record pending change nothing), whatever answers
\* arrive, late or never, and whichever sends fail: what BatchEnds adds is that
\* the goroutine runs and time passes.
THEOREM BatchAlwaysShortens == BSpec => [][BatchShortens]_bvars
<1>1. TypeOK /\ BatchInv /\ BatchInv' /\ PolledIsAsked /\ [BNext]_bvars
      => [BatchShortens]_bvars
  <2> SUFFICES ASSUME TypeOK, BatchInv, BatchInv', PolledIsAsked, BNext
               PROVE  BatchShortens
    OBVIOUS
  <2> USE ItemIsRequest
  <2>1. /\ item \in 1 .. Len(Batch) + 1 /\ item' \in 1 .. Len(Batch) + 1
        /\ Len(Batch) \in Nat
    BY DEF BatchInv, BatchTypeOK
  <2>2. ItemLeft \in 1 .. 4 /\ ItemLeft' \in 1 .. 4 BY DEF ItemLeft
  <2>3. BatchLeft \in Nat /\ BatchLeft' \in Nat BY <2>1, <2>2 DEF BatchLeft
  <2>4. ASSUME BatchStep PROVE BatchLeft' < BatchLeft
    <3>1. conn = "working" BY <2>4, BatchMoves
    <3>2. CASE Advances
      <4>1. ItemLeft' < ItemLeft BY <3>2 DEF Advances, ItemLeft
      <4> QED BY <2>1, <2>2, <3>1, <3>2, <4>1 DEF Advances, BatchLeft
    <3>3. CASE GivesWay BY <2>1, <2>2, <3>1, <3>3 DEF GivesWay, BatchLeft
    <3>4. CASE Replies BY <3>1, <3>4 DEF Replies, BatchLeft
    <3> QED BY <2>4, <3>2, <3>3, <3>4, BatchMoves
  <2>5. ASSUME OtherSteps \/ BTick PROVE BatchLeft' = BatchLeft
    <3>1. UNCHANGED <<conn, item, polling>> BY <2>5 DEF OtherSteps, BTick, batch
    <3> QED BY <2>5, <3>1, OthersKeepPhases DEF BatchLeft, ItemLeft
  <2>6. ASSUME BRestart PROVE BatchLeft' = 0
    BY <2>6 DEF BRestart, BatchInv, BatchTypeOK, BatchLeft
  <2>7. BatchLeft' <= BatchLeft BY <2>3, <2>4, <2>5, <2>6 DEF BNext
  <2> QED BY <2>3, <2>4, <2>7 DEF BatchShortens
<1> QED BY <1>1, ExchangeHolds, TypeCorrect, BatchInvariant, PolledInvariant, PTL DEF BSpec

\* The client is never told of fewer items than it asked for, nor of one twice,
\* although each result is entered by one of three branches of the loop.
THEOREM ReplyAlwaysComplete == BSpec => []ReplyIsComplete
<1>1. BatchInv /\ PolledIsAsked => ReplyIsComplete
  <2> SUFFICES ASSUME BatchInv, PolledIsAsked, conn = "replied"
               PROVE  DOMAIN results = 1 .. Len(Batch)
    BY DEF ReplyIsComplete
  <2>1. item - 1 = Len(Batch) BY ItemIsRequest DEF PolledIsAsked
  <2> QED BY <2>1 DEF BatchInv, BatchTypeOK
<1> QED BY <1>1, BatchInvariant, PolledInvariant, PTL
=============================================================================
