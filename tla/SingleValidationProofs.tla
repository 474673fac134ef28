------------------------ MODULE SingleValidationProofs ------------------------
(***************************************************************************)
(* Proofs about SingleValidation, for any requests and seeds: what clients *)
(* are told rests on what the proof exchange has on record.                *)
(***************************************************************************)
EXTENDS SingleValidation, ProofExchangeProofs

\* The exchange takes its own steps beside the clients' goroutines.
LEMMA ExchangeRuns == [SNext]_svars => [Next]_vars
BY DEF SNext, svars, ExchangeStep, BeginWait, WaiterStep, Announce, SeeAnswer, Tell, Return,
       SRestart, Next

\* So whatever holds of the exchange alone holds here.
LEMMA ExchangeHolds == SSpec => Spec
<1>1. SInit => Init BY DEF SInit
<1> QED BY <1>1, ExchangeRuns, PTL DEF SSpec, Spec

Replies == {"ProofReceived", "Pending", "Valid", "Invalid", "context"}

\* A watcher is started after the request was recorded, so there is a status
\* for it to read.
WatchedIsMade == \A r \in Requests : watcher[r] # "off" => phase[r] # "new"

WaitersTypeOK ==
  /\ main \in [Requests -> {"off", "waiting", "closed", "gone"}]
  /\ announcer \in [Requests -> BOOLEAN]
  /\ watcher \in [Requests -> {"off", "ticking", "seen", "ended"}]
  /\ done \in [Requests -> BOOLEAN]
  /\ replies \in [Requests -> SUBSET Replies]

\* A verdict seen or told comes of an answer that was handled to its end.
SeenIsDone ==
  \A r \in Requests : watcher[r] = "seen" \/ Told(r) # {} =>
    \E q \in Requests : SeedOf[q] = SeedOf[r] /\ pc[q] = "done"

WaiterInv ==
  /\ WaitersTypeOK
  /\ WatchedIsMade
  /\ SeenIsDone
  /\ ToldIsOnRecord
  /\ ToldValidIsSound

\* What a goroutine of a client knows of the exchange stays so: requests are
\* not made new again, and an answer stays handled.
LEMMA ExchangeKeeps ==
  ASSUME TypeOK, TypeOK', SoundInv, RecordInv, [Next]_vars, WaiterInv, UNCHANGED replies,
         \A r \in Requests : watcher'[r] # watcher[r] => watcher'[r] \in {"off", "ended"}
                                                         /\ watcher[r] # "off"
  PROVE  WatchedIsMade' /\ SeenIsDone' /\ ToldIsOnRecord' /\ ToldValidIsSound'
<1> USE RequestAssumption
<1>1. WatchedIsMade' BY PhaseStep DEF WaiterInv, WatchedIsMade
<1>2. SeenIsDone'
  <2> SUFFICES ASSUME NEW r \in Requests, watcher'[r] = "seen" \/ Told(r)' # {}
               PROVE  \E q \in Requests : SeedOf[q] = SeedOf[r] /\ pc'[q] = "done"
    BY DEF SeenIsDone
  <2>1. watcher[r] = "seen" \/ Told(r) # {} BY DEF Told
  <2>2. PICK q \in Requests : SeedOf[q] = SeedOf[r] /\ pc[q] = "done"
    BY <2>1 DEF WaiterInv, SeenIsDone
  <2>3. phase[q] # "created" BY <2>2 DEF RecordInv, AskedOnce
  <2>4. pc'[q] = "done" BY <2>2, <2>3, PlaceStep DEF Unjudged, Handling, SendProofRequest
  <2> QED BY <2>2, <2>4
<1>3. ToldIsOnRecord'
  <2> SUFFICES ASSUME NEW r \in Requests, Alone(r)', NEW told \in Told(r)
               PROVE  told = status'[SeedOf[r]] /\ told # "Pending"
    BY DEF ToldIsOnRecord, Told
  <2>1. OnlyUser(r)' BY DEF Alone, OnlyUser
  <2>2. Alone(r) BY <2>1, PhaseStep DEF Alone, OnlyUser
  <2>3. told = status[SeedOf[r]] /\ told \in Judged
    BY <2>2 DEF WaiterInv, ToldIsOnRecord, Told, Judged
  <2> QED BY <2>1, <2>3, VerdictStands DEF Judged
<1>4. ToldValidIsSound'
  <2> SUFFICES ASSUME NEW r \in Requests, "Valid" \in Told(r)
               PROVE  Agrees(SeedOf[r])' /\ best'[SeedOf[r]] \in 1 .. ProofLimit
    BY DEF ToldValidIsSound, Told
  <2>1. Agrees(SeedOf[r]) /\ Good(SeedOf[r]) BY DEF WaiterInv, ToldValidIsSound, Good
  <2> QED BY <2>1, JustifiedStep DEF Good
<1> QED BY <1>1, <1>2, <1>3, <1>4

\* A step of a client's goroutine that tells no verdict.
LEMMA SilentKeeps ==
  ASSUME WaiterInv, UNCHANGED vars, WaitersTypeOK',
         NEW r \in Requests,
         \A q \in Requests : Told(q)' = Told(q) /\ (q # r => watcher'[q] = watcher[q]),
         \/ watcher'[r] = watcher[r]
         \/ watcher'[r] = "ticking" /\ phase[r] # "new"
         \/ watcher[r] # "off" /\ answered[SeedOf[r]],
         AnsweredIsDone
  PROVE  WaiterInv'
<1> USE RequestAssumption
<1>1. WatchedIsMade' BY DEF WaiterInv, WatchedIsMade, vars
<1>2. SeenIsDone' BY DEF WaiterInv, SeenIsDone, AnsweredIsDone, vars
<1>3. ToldIsOnRecord' BY DEF WaiterInv, ToldIsOnRecord, Alone, vars, records
<1>4. ToldValidIsSound' BY DEF WaiterInv, ToldValidIsSound, Agrees, vars, indexes
<1> QED BY <1>1, <1>2, <1>3, <1>4 DEF WaiterInv

\* Telling a verdict, and every other step, keeps the invariant.
LEMMA WaiterKeeps ==
  ASSUME TypeOK, TypeOK', SoundInv, RecordInv, [SNext]_svars, WaiterInv PROVE WaiterInv'
<1> USE RequestAssumption
<1>1. CASE ExchangeStep \/ UNCHANGED svars
  <2>1. UNCHANGED waiters BY <1>1 DEF ExchangeStep, svars
  <2>2. WaitersTypeOK' BY <2>1 DEF WaiterInv, WaitersTypeOK, waiters
  <2> QED BY <2>1, <2>2, ExchangeRuns, ExchangeKeeps DEF WaiterInv, waiters
<1>2. CASE SRestart
  <2>1. WaitersTypeOK' BY <1>2 DEF SRestart, WaiterInv, WaitersTypeOK
  <2>2. \A r \in Requests : watcher'[r] # watcher[r] =>
          watcher'[r] \in {"off", "ended"} /\ watcher[r] # "off"
    BY <1>2 DEF SRestart
  <2> QED BY <1>2, <2>1, <2>2, ExchangeRuns, ExchangeKeeps DEF SRestart, WaiterInv
<1>3. ASSUME NEW r \in Requests, BeginWait(r) PROVE WaiterInv'
  <2>1. WaitersTypeOK' /\ UNCHANGED <<vars, replies>>
    BY <1>3 DEF BeginWait, WaiterInv, WaitersTypeOK
  <2>2. phase[r] # "new" /\ watcher' = [watcher EXCEPT ![r] = "ticking"]
    BY <1>3 DEF BeginWait
  <2> QED BY <2>1, <2>2, SilentKeeps DEF RecordInv, Told, WaiterInv, WaitersTypeOK
<1>4. ASSUME NEW r \in Requests, Announce(r) PROVE WaiterInv'
  <2>1. /\ UNCHANGED <<vars, watcher>>
        /\ \/ replies' = replies
           \/ replies' = [replies EXCEPT ![r] = @ \cup {"ProofReceived"}]
    BY <1>4 DEF Announce, WaiterInv, WaitersTypeOK
  <2>2. WaitersTypeOK' BY <1>4, <2>1 DEF Announce, WaiterInv, WaitersTypeOK, Replies
  <2>3. \A q \in Requests : Told(q)' = Told(q)
    BY <2>1 DEF Told, WaiterInv, WaitersTypeOK
  <2> QED BY <2>1, <2>2, <2>3, SilentKeeps DEF RecordInv
<1>5. ASSUME NEW r \in Requests, SeeAnswer(r) PROVE WaiterInv'
  <2>1. WaitersTypeOK' /\ UNCHANGED <<vars, replies>>
    BY <1>5 DEF SeeAnswer, WaiterInv, WaitersTypeOK
  <2>2. /\ watcher' = [watcher EXCEPT ![r] = "seen"]
        /\ watcher[r] # "off" /\ answered[SeedOf[r]]
    BY <1>5 DEF SeeAnswer
  <2> QED BY <2>1, <2>2, SilentKeeps DEF RecordInv, Told, WaiterInv, WaitersTypeOK
<1>6. ASSUME NEW r \in Requests, Return(r) PROVE WaiterInv'
  <2>1. UNCHANGED <<vars, watcher, announcer, done, replies>> /\ main' = [main EXCEPT ![r] = "closed"]
    BY <1>6 DEF Return, WaiterInv, WaitersTypeOK
  <2>2. WaitersTypeOK' BY <2>1 DEF WaiterInv, WaitersTypeOK
  <2> QED BY <2>1, <2>2, SilentKeeps DEF RecordInv, Told
<1>7. ASSUME NEW r \in Requests, Tell(r) PROVE WaiterInv'
  <2> DEFINE s == SeedOf[r]
  <2>1. /\ UNCHANGED <<vars, main, announcer>>
        /\ watcher[r] = "seen" /\ watcher' = [watcher EXCEPT ![r] = "ended"]
        /\ replies' = [replies EXCEPT ![r] = @ \cup {status[s]}]
        /\ done' = [done EXCEPT ![r] = TRUE]
    BY <1>7 DEF Tell
  <2>2. phase[r] # "new" BY <2>1 DEF WaiterInv, WatchedIsMade
  <2>3. status[s] \in {"Pending", "Valid", "Invalid"}
    BY <2>2 DEF RecordInv, CreatedIsOnRecord, TypeOK
  <2>4. WaitersTypeOK' BY <2>1, <2>3 DEF WaiterInv, WaitersTypeOK, Replies
  <2>5. /\ \A q \in Requests \ {r} : Told(q)' = Told(q)
        /\ Told(r)' = Told(r) \cup {status[s]}
    BY <2>1, <2>3 DEF Told, WaiterInv, WaitersTypeOK
  <2>6. PICK q \in Requests : SeedOf[q] = s /\ pc[q] = "done"
    BY <2>1 DEF WaiterInv, SeenIsDone
  <2>7. WatchedIsMade' BY <2>1 DEF WaiterInv, WatchedIsMade, WaitersTypeOK, vars
  <2>8. SeenIsDone'
    BY <2>1, <2>5, <2>6 DEF WaiterInv, SeenIsDone, WaitersTypeOK, vars
  <2>9. ToldIsOnRecord'
    <3>1. ASSUME Alone(r) PROVE status[s] # "Pending"
      <4>1. phase[q] # "new" BY <2>6 DEF RecordInv, AskedOnce
      <4>2. q = r BY <2>6, <3>1, <4>1 DEF Alone
      <4>3. OnlyUser(r) BY <3>1 DEF Alone, OnlyUser
      <4> QED BY <2>6, <4>2, <4>3 DEF RecordInv, WrittenIsJudged, Judged
    <3> QED BY <2>1, <2>5, <3>1 DEF WaiterInv, ToldIsOnRecord, Alone, vars, records
  <2>10. ToldValidIsSound'
    <3>1. status[s] = "Valid" => Agrees(s) /\ best[s] \in 1 .. ProofLimit
      BY DEF SoundInv, VerdictsSound, Good
    <3> QED BY <2>1, <2>5, <3>1 DEF WaiterInv, ToldValidIsSound, Agrees, vars, indexes
  <2> QED BY <2>4, <2>7, <2>8, <2>9, <2>10 DEF WaiterInv
<1> QED BY <1>1, <1>2, <1>3, <1>4, <1>5, <1>6, <1>7 DEF SNext, WaiterStep

\* What clients' goroutines have seen and said, between their steps:
\* handlers.go:150-218, validation.go:140-205.
THEOREM WaiterInvariant == SSpec => []WaiterInv
<1>1. ASSUME SInit PROVE WaiterInv
  <2>1. \A r \in Requests : replies[r] = {} /\ watcher[r] = "off" BY <1>1 DEF SInit
  <2>2. WaitersTypeOK BY <1>1 DEF SInit, WaitersTypeOK
  <2>3. \A r \in Requests : Told(r) = {} BY <2>1 DEF Told
  <2> QED BY <2>1, <2>2, <2>3
          DEF WaiterInv, WatchedIsMade, SeenIsDone, ToldIsOnRecord, ToldValidIsSound
<1>2. TypeOK /\ TypeOK' /\ SoundInv /\ RecordInv /\ WaiterInv /\ [SNext]_svars => WaiterInv'
  BY WaiterKeeps
<1> QED BY <1>1, <1>2, ExchangeHolds, TypeCorrect, SoundInvariant, RecordInvariant, PTL
        DEF SSpec

\* Every variable of the clients' goroutines keeps its type.
THEOREM WaiterTypeCorrect == SSpec => []STypeOK
<1>1. TypeOK /\ WaiterInv => STypeOK BY DEF WaiterInv, WaitersTypeOK, STypeOK, Replies
<1> QED BY <1>1, ExchangeHolds, TypeCorrect, WaiterInvariant, PTL

\* The only user of a seed is told the verdict on record, which stays it, for
\* any number of requests and restarts.
THEOREM ToldStaysOnRecord == SSpec => []ToldIsOnRecord
<1>1. WaiterInv => ToldIsOnRecord BY DEF WaiterInv
<1> QED BY <1>1, WaiterInvariant, PTL

\* Whoever else uses the seed, a client told Valid was told so of a file both
\* nodes have had lists of that can agree, and of an answer within the limit.
THEOREM ToldValidAlwaysSound == SSpec => []ToldValidIsSound
<1>1. WaiterInv => ToldValidIsSound BY DEF WaiterInv
<1> QED BY <1>1, WaiterInvariant, PTL

-----------------------------------------------------------------------------
(* No wake-up is lost.                                                     *)

\* An exchange that was handled to its end has set the flag, and keeps it set
\* for as long as the requester's goroutine lives.
DoneIsFlagged ==
  \A r \in Requests : phase[r] \in {"sent", "timed"} /\ pc[r] = "done" => answered[SeedOf[r]]

\* Whoever waits has a watcher that will see the flag, or one that saw it, or
\* has been told a status and woken; whoever stopped waiting has been told.
Waking ==
  \A r \in Requests :
    /\ main[r] = "waiting" =>
         phase[r] = "timed" /\ (watcher[r] \in {"ticking", "seen"} \/ done[r])
    /\ done[r] \/ main[r] = "closed" => Told(r) # {}

\* A client that waits although its answer was handled to the end is not left
\* to itself: its watcher will find the flag set, or has found it, or the
\* client has been told and its channel is closed.
NoWakeupLost ==
  \A r \in Requests :
    /\ main[r] = "waiting" =>
         \/ watcher[r] = "ticking" /\ (pc[r] = "done" => answered[SeedOf[r]])
         \/ watcher[r] = "seen"
         \/ done[r] /\ Told(r) # {}
    /\ main[r] = "closed" => Told(r) # {}

\* Every step of the exchange keeps the flags, a restart with the goroutines.
LEMMA FlagStep == ASSUME TypeOK, DoneIsFlagged, [Next]_vars PROVE DoneIsFlagged'
<1> USE RequestAssumption
<1>1. ASSUME NEW q \in Requests,
             CreateProofRequest(q) \/ SendProofRequest(q) \/ SendFails(q) \/ SaveTime(q)
      PROVE  DoneIsFlagged'
  BY <1>1 DEF DoneIsFlagged, TypeOK, CreateProofRequest, SendProofRequest, SendFails, SaveTime,
     exchange, flags
<1>2. ASSUME NEW q \in Requests, MarkAnswered(q) PROVE DoneIsFlagged'
  BY <1>2 DEF DoneIsFlagged, TypeOK, MarkAnswered
<1>3. ASSUME NEW q \in Requests,
             \/ HandleRequestProof(q) \/ ReceiveProof(q) \/ ReadFastest(q) \/ KeepFastest(q)
             \/ MarkReceived(q) \/ Judge(q) \/ WriteBase(q) \/ WriteNode(q)
      PROVE  DoneIsFlagged'
  <2>1. /\ UNCHANGED <<phase, answered>>
        /\ \A r \in Requests : pc'[r] = "done" => pc[r] = "done"
    BY <1>3 DEF TypeOK, HandleRequestProof, ReceiveProof, ReadFastest, KeepFastest,
       MarkReceived, Judge, WriteBase, WriteNode, flags
  <2> QED BY <2>1 DEF DoneIsFlagged
<1>4. ASSUME NEW n \in Nodes, NEW c \in Cids, IndexStep(n, c) PROVE DoneIsFlagged'
  BY <1>4 DEF DoneIsFlagged, IndexStep, BeginIndex, SaveRefs, AbandonIndex, exchange, flags
<1>5. CASE Tick BY <1>5 DEF DoneIsFlagged, Tick, exchange, flags
<1>6. CASE Restart
  <2>1. \A r \in Requests : phase'[r] \notin {"sent", "timed"} BY <1>6 DEF Restart
  <2> QED BY <2>1 DEF DoneIsFlagged
<1>7. CASE UNCHANGED vars BY <1>7 DEF DoneIsFlagged, vars, exchange, flags
<1> QED
  BY <1>1, <1>2, <1>3, <1>4, <1>5, <1>6, <1>7 DEF Next, RequesterStep, HandlerStep

\* A timed request stays so until a restart.
LEMMA TimedStays ==
  ASSUME TypeOK, ExchangeStep \/ UNCHANGED vars, NEW r \in Requests, phase[r] = "timed"
  PROVE  phase'[r] = "timed"
BY DEF TypeOK, ExchangeStep, RequesterStep, HandlerStep, IndexStep, vars, exchange,
       CreateProofRequest, SendProofRequest, SendFails, SaveTime, HandleRequestProof,
       ReceiveProof, ReadFastest, KeepFastest, MarkReceived, Judge, WriteBase, WriteNode,
       MarkAnswered, BeginIndex, SaveRefs, AbandonIndex, Tick

\* Every step keeps whoever waits from being left.
LEMMA WakingStep ==
  ASSUME TypeOK, TypeOK', RecordInv, WaiterInv, Waking, [SNext]_svars PROVE Waking'
<1> USE DEF WaiterInv, WaitersTypeOK
<1>1. CASE ExchangeStep \/ UNCHANGED svars
  <2>1. UNCHANGED waiters BY <1>1 DEF ExchangeStep, svars
  <2>2. \A r \in Requests : phase[r] = "timed" => phase'[r] = "timed"
    BY <1>1, TimedStays DEF svars
  <2> QED BY <2>1, <2>2 DEF Waking, waiters, Told
<1>2. ASSUME NEW q \in Requests, BeginWait(q) PROVE Waking'
  BY <1>2 DEF BeginWait, Waking, Told, vars, exchange
<1>3. ASSUME NEW q \in Requests, Announce(q) PROVE Waking'
  <2>1. \A r \in Requests : Told(r) # {} => Told(r)' # {}
    BY <1>3 DEF Announce, Told
  <2> QED BY <1>3, <2>1 DEF Announce, Waking, vars, exchange
<1>4. ASSUME NEW q \in Requests, SeeAnswer(q) PROVE Waking'
  BY <1>4 DEF SeeAnswer, Waking, Told, vars, exchange
<1>5. ASSUME NEW q \in Requests, Tell(q) PROVE Waking'
  <2>1. status[SeedOf[q]] \in {"Pending", "Valid", "Invalid"}
    <3>1. phase[q] # "new" BY <1>5 DEF Tell, WatchedIsMade
    <3> QED BY <3>1, RequestAssumption DEF RecordInv, CreatedIsOnRecord, TypeOK
  <2>2. /\ \A r \in Requests : Told(r) # {} => Told(r)' # {}
        /\ Told(q)' # {}
    BY <1>5, <2>1 DEF Tell, Told
  <2> QED BY <1>5, <2>2 DEF Tell, Waking, vars, exchange
<1>6. ASSUME NEW q \in Requests, Return(q) PROVE Waking'
  <2>1. /\ main[q] = "waiting" /\ done[q] /\ main' = [main EXCEPT ![q] = "closed"]
        /\ UNCHANGED <<vars, watcher, done>>
    BY <1>6 DEF Return
  <2>2. \A r \in Requests : Told(r) \subseteq Told(r)'
    BY <1>6 DEF Return, Told
  <2>3. Told(q) # {}
    BY <2>1 DEF Waking
  <2> QED BY <2>1, <2>2, <2>3 DEF Waking, vars, exchange
<1>7. CASE SRestart BY <1>7 DEF SRestart, Waking, Told
<1> QED BY <1>1, <1>2, <1>3, <1>4, <1>5, <1>6, <1>7 DEF SNext, WaiterStep

\* No wake-up of a client is lost, however its goroutines and the handlers of
\* all answers interleave, for any number of clients of one seed: what
\* AnsweredClientIsTold adds is that the goroutines run.
THEOREM WakeupNeverLost == SSpec => []NoWakeupLost
<1>1. Init => DoneIsFlagged BY DEF Init, DoneIsFlagged
<1>2. SInit => Waking BY DEF SInit, Waking
<1>3. TypeOK /\ DoneIsFlagged /\ [Next]_vars => DoneIsFlagged' BY FlagStep
<1>4. TypeOK /\ TypeOK' /\ RecordInv /\ WaiterInv /\ Waking /\ [SNext]_svars => Waking'
  BY WakingStep
<1>5. DoneIsFlagged /\ Waking => NoWakeupLost BY DEF DoneIsFlagged, Waking, NoWakeupLost
<1>6. Spec => []DoneIsFlagged BY <1>1, <1>3, TypeCorrect, PTL DEF Spec
<1> QED BY <1>2, <1>4, <1>5, <1>6, ExchangeHolds, TypeCorrect, RecordInvariant,
        WaiterInvariant, PTL DEF SSpec
=============================================================================
