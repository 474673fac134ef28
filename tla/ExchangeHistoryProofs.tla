------------------------ MODULE ExchangeHistoryProofs ------------------------
(***************************************************************************)
(* What the two statements of ExchangeHistory that the runs refute lack:   *)
(* each holds, for every number of requests, seeds, files, nodes and       *)
(* lists, of the behaviours without the circumstance it overlooks.         *)
(***************************************************************************)
EXTENDS ExchangeHistory, ProofExchangeProofs

HTypeOK ==
  /\ waited \in [Seeds -> 0 .. TooLong]
  /\ held \in [Requests -> Hashes]
  /\ why \in [Seeds -> [reason : Reasons, hash : Hashes]]

\* The history restricts no step and adds none.
LEMMA HistoryIsIdle == [HNext]_<<vars, history>> => [Next]_vars
<1> SUFFICES ASSUME [HNext]_<<vars, history>> PROVE [Next]_vars OBVIOUS
<1>1. ASSUME NEW r \in Requests, AskLeaves(r) \/ AnswerJudged(r) \/ VerdictWritten(r)
      PROVE  Next
  BY <1>1 DEF AskLeaves, AnswerJudged, VerdictWritten, RequesterStep, HandlerStep, Next
<1>2. CASE TimePasses BY <1>2 DEF TimePasses, Next
<1>3. CASE OtherStep BY <1>3 DEF OtherStep, RequesterStep, HandlerStep, Next
<1>4. CASE UNCHANGED <<vars, history>> BY <1>4
<1> QED BY <1>1, <1>2, <1>3, <1>4 DEF HNext

\* A behaviour with the history is one of the proof exchange.
LEMMA HistoryRefines == HSpec => Spec
<1>1. HInit => Init BY DEF HInit
<1> QED BY <1>1, HistoryIsIdle, PTL DEF HSpec, Spec

\* The steps one by one, in the words of ProofExchange.
LEMMA HistoryStepKinds ==
  ASSUME [HNext]_<<vars, history>>
  PROVE  \/ \E r \in Requests :
              \/ AskLeaves(r) \/ AnswerJudged(r) \/ VerdictWritten(r)
              \/ /\ \/ CreateProofRequest(r) \/ SendFails(r) \/ SaveTime(r)
                    \/ HandleRequestProof(r) \/ ReceiveProof(r) \/ ReadFastest(r)
                    \/ KeepFastest(r) \/ MarkReceived(r) \/ WriteNode(r) \/ MarkAnswered(r)
                 /\ UNCHANGED history
         \/ TimePasses
         \/ (\E n \in Nodes, c \in Cids : IndexStep(n, c)) /\ UNCHANGED history
         \/ Restart /\ UNCHANGED history
         \/ UNCHANGED <<vars, history>>
BY DEF HNext, OtherStep

\* The history keeps its type.
LEMMA HistoryTypeStep ==
  ASSUME TypeOK, TypeOK', HTypeOK, [HNext]_<<vars, history>> PROVE HTypeOK'
<1> USE RequestAssumption, LimitAssumption
<1>1. ASSUME NEW r \in Requests, AskLeaves(r) PROVE HTypeOK'
  <2>1. 1 \in 0 .. TooLong BY DEF TooLong
  <2> QED BY <1>1, <2>1 DEF AskLeaves, HTypeOK
<1>2. ASSUME NEW r \in Requests, AnswerJudged(r) PROVE HTypeOK'
  <2>1. job[r].hash \in Hashes BY DEF TypeOK
  <2> QED BY <1>2, <2>1 DEF AnswerJudged, HTypeOK
<1>3. ASSUME NEW r \in Requests, VerdictWritten(r) PROVE HTypeOK'
  <2>1. job[r].reason \in Reasons BY DEF TypeOK
  <2> QED BY <1>3, <2>1 DEF VerdictWritten, HTypeOK
<1>4. CASE TimePasses
  <2>1. \A t \in 1 .. TooLong : Ages(t) \in 0 .. TooLong BY DEF Ages, TooLong
  <2> QED BY <1>4, <2>1 DEF TimePasses, HTypeOK
<1>5. CASE UNCHANGED history BY <1>5 DEF history, HTypeOK
<1> QED BY <1>1, <1>2, <1>3, <1>4, <1>5, HistoryStepKinds

\* Every history variable has its type.
THEOREM HistoryTypeCorrect == HSpec => [](TypeOK /\ HTypeOK)
<1>1. HInit => HTypeOK BY LimitAssumption DEF HInit, HTypeOK, Hashes, Reasons, TooLong
<1>2. TypeOK /\ TypeOK' /\ HTypeOK /\ [HNext]_<<vars, history>> => HTypeOK'
  BY HistoryTypeStep
<1> QED BY <1>1, <1>2, HistoryRefines, TypeCorrect, PTL DEF HSpec
-----------------------------------------------------------------------------
(* A seed judged too slow.                                                 *)

\* A request's start time is on record before its answer is handled, and
\* before the process ends: what validation.go:117 and 137 leave to chance.
TimedFirst == \A r \in Requests : phase[r] = "sent" => ~ReceiveProof(r) /\ ~Restart

\* A start time on record is no older than the first ask, and so is every
\* time measured against it.
AskedWaits ==
  \A r \in Requests :
    /\ phase[r] \in {"sent", "timed"} => waited[SeedOf[r]] > 0
    /\ phase[r] = "timed" => age[SeedOf[r]] <= waited[SeedOf[r]]
    /\ pc[r] \in {"asked", "replied"} =>
         phase[r] = "sent" \/ age[SeedOf[r]] <= waited[SeedOf[r]]
TimesWaited ==
  /\ \A r \in Requests : /\ job[r].elapsed <= waited[SeedOf[r]]
                         /\ job[r].existing <= waited[SeedOf[r]]
  /\ \A s \in Seeds : fastest[s] <= waited[s]
SlowWaited ==
  /\ \A r \in Requests : job[r].reason = "slow" => waited[SeedOf[r]] > ProofLimit
  /\ \A s \in Seeds : why[s].reason = "slow" => waited[s] > ProofLimit

WaitInv == AskedWaits /\ TimesWaited /\ SlowWaited

\* What a step that is no tick, and leaves the history alone, may do to them.
LEMMA WaitStepOfRequest ==
  ASSUME TypeOK, HTypeOK, OrderInv, WaitInv, TimedFirst, NEW r \in Requests, UNCHANGED history,
         \/ CreateProofRequest(r) \/ SendFails(r) \/ SaveTime(r)
         \/ HandleRequestProof(r) \/ ReceiveProof(r) \/ ReadFastest(r)
         \/ KeepFastest(r) \/ MarkReceived(r) \/ WriteNode(r) \/ MarkAnswered(r)
  PROVE  WaitInv'
<1> USE RequestAssumption, LimitAssumption
<1> DEFINE w == waited[SeedOf[r]]
<1>1. /\ SeedOf[r] \in Seeds
      /\ \A s \in Seeds : waited[s] \in Nat /\ waited'[s] = waited[s] /\ why'[s] = why[s]
      /\ \A q \in Requests : SeedOf[q] \in Seeds
  BY DEF HTypeOK, history, TooLong
<1>2. /\ phase \in [Requests -> {"new", "created", "sent", "timed", "failed", "lost"}]
      /\ pc \in [Requests -> {"none", "asked", "replied", "done", "dropped"} \cup Handling]
      /\ job \in [Requests -> [hash : Hashes, elapsed : 0 .. TooLong,
                               existing : 0 .. TooLong, reason : Reasons]]
      /\ age \in [Seeds -> Times] /\ fastest \in [Seeds -> 0 .. TooLong]
  BY DEF TypeOK
<1>3. CASE CreateProofRequest(r)
  BY <1>1, <1>2, <1>3 DEF CreateProofRequest, exchange, WaitInv, AskedWaits, TimesWaited,
     SlowWaited, OrderInv
<1>4. CASE SendFails(r)
  BY <1>1, <1>2, <1>4 DEF SendFails, exchange, records, WaitInv, AskedWaits, TimesWaited,
     SlowWaited, OrderInv
<1>5. CASE SaveTime(r)
  <2>1. AskedWaits'
    <3>1. w > 0 BY <1>5 DEF SaveTime, WaitInv, AskedWaits
    <3>2. age'[SeedOf[r]] = 1 /\ \A s \in Seeds : s # SeedOf[r] => age'[s] = age[s]
      BY <1>1, <1>2, <1>5 DEF SaveTime
    <3>3. /\ phase' = [phase EXCEPT ![r] = "timed"] /\ phase[r] = "sent" /\ pc' = pc
      BY <1>5 DEF SaveTime, exchange
    <3>4. \A s \in Seeds : age[s] <= waited[s] => age'[s] <= waited'[s] BY <1>1, <3>1, <3>2
    <3> QED BY <1>1, <1>2, <3>1, <3>2, <3>3, <3>4 DEF WaitInv, AskedWaits
  <2>2. TimesWaited' /\ SlowWaited'
    BY <1>1, <1>5 DEF SaveTime, exchange, WaitInv, TimesWaited, SlowWaited
  <2> QED BY <2>1, <2>2 DEF WaitInv
<1>6. CASE HandleRequestProof(r)
  <2>1. \A q \in Requests : /\ job'[q].elapsed = job[q].elapsed
                            /\ job'[q].existing = job[q].existing
                            /\ job'[q].reason = job[q].reason
    BY <1>2, <1>6 DEF HandleRequestProof
  <2>2. pc' = [pc EXCEPT ![r] = "replied"] /\ pc[r] = "asked"
        /\ phase' = phase /\ age' = age /\ fastest' = fastest
    BY <1>6 DEF HandleRequestProof, records
  <2> QED BY <1>1, <1>2, <2>1, <2>2 DEF WaitInv, AskedWaits, TimesWaited, SlowWaited
<1>7. CASE ReceiveProof(r)
  <2>1. phase[r] # "sent" /\ pc[r] = "replied" BY <1>7 DEF TimedFirst, ReceiveProof
  <2>2. age[SeedOf[r]] <= w BY <2>1 DEF WaitInv, AskedWaits
  <2>3. /\ job' = [job EXCEPT ![r].elapsed = age[SeedOf[r]]]
        /\ pc' = [pc EXCEPT ![r] = "measured"]
        /\ phase' = phase /\ age' = age /\ fastest' = fastest
    BY <1>7 DEF ReceiveProof, records
  <2>4. /\ job'[r].elapsed = age[SeedOf[r]] /\ job'[r].existing = job[r].existing
        /\ job'[r].reason = job[r].reason
        /\ \A q \in Requests : q # r => job'[q] = job[q]
    BY <1>2, <2>3
  <2>5. AskedWaits' BY <1>1, <1>2, <2>3 DEF WaitInv, AskedWaits
  <2>6. TimesWaited' BY <1>1, <2>2, <2>3, <2>4 DEF WaitInv, TimesWaited
  <2>7. SlowWaited' BY <1>1, <2>4 DEF WaitInv, SlowWaited
  <2> QED BY <2>5, <2>6, <2>7 DEF WaitInv
<1>8. CASE ReadFastest(r)
  <2>1. /\ job' = [job EXCEPT ![r].existing = fastest[SeedOf[r]]]
        /\ pc' = [pc EXCEPT ![r] = "compared"]
        /\ phase' = phase /\ age' = age /\ fastest' = fastest
    BY <1>8 DEF ReadFastest, records
  <2>2. /\ job'[r].existing = fastest[SeedOf[r]] /\ job'[r].elapsed = job[r].elapsed
        /\ job'[r].reason = job[r].reason
        /\ \A q \in Requests : q # r => job'[q] = job[q]
    BY <1>2, <2>1
  <2>3. AskedWaits' BY <1>1, <1>2, <2>1 DEF WaitInv, AskedWaits
  <2>4. TimesWaited' BY <1>1, <2>1, <2>2 DEF WaitInv, TimesWaited
  <2>5. SlowWaited' BY <1>1, <2>2 DEF WaitInv, SlowWaited
  <2> QED BY <2>3, <2>4, <2>5 DEF WaitInv
<1>9. CASE KeepFastest(r)
  <2>1. /\ pc' = [pc EXCEPT ![r] = "kept"] /\ phase' = phase /\ age' = age
        /\ \/ fastest' = [fastest EXCEPT ![SeedOf[r]] = job[r].elapsed] /\ job' = job
           \/ job' = [job EXCEPT ![r].elapsed = job[r].existing] /\ fastest' = fastest
    BY <1>9 DEF KeepFastest
  <2>2. /\ job'[r].elapsed \in {job[r].elapsed, job[r].existing}
        /\ \A q \in Requests : /\ q # r => job'[q] = job[q]
                              /\ job'[q].existing = job[q].existing
                              /\ job'[q].reason = job[q].reason
    BY <1>2, <2>1
  <2>3. \A s \in Seeds : \/ fastest'[s] = fastest[s]
                         \/ s = SeedOf[r] /\ fastest'[s] = job[r].elapsed
    <3>1. CASE fastest' = fastest BY <3>1
    <3>2. CASE fastest' = [fastest EXCEPT ![SeedOf[r]] = job[r].elapsed] BY <1>2, <3>2
    <3> QED BY <2>1, <3>1, <3>2
  <2>4. AskedWaits' BY <1>1, <1>2, <2>1 DEF WaitInv, AskedWaits
  <2>5. TimesWaited'
    <3>1. job'[r].elapsed <= w /\ job[r].elapsed <= w
      BY <2>2 DEF WaitInv, TimesWaited
    <3>2. \A q \in Requests : /\ job'[q].elapsed <= waited'[SeedOf[q]]
                             /\ job'[q].existing <= waited'[SeedOf[q]]
      BY <1>1, <2>2, <3>1 DEF WaitInv, TimesWaited
    <3>3. \A s \in Seeds : fastest'[s] <= waited'[s]
      BY <1>1, <2>3, <3>1 DEF WaitInv, TimesWaited
    <3> QED BY <3>2, <3>3 DEF TimesWaited
  <2>6. SlowWaited' BY <1>1, <2>2 DEF WaitInv, SlowWaited
  <2> QED BY <2>4, <2>5, <2>6 DEF WaitInv
<1>10. CASE MarkReceived(r) \/ WriteNode(r)
  <2>1. /\ pc' \in {[pc EXCEPT ![r] = "marked"], [pc EXCEPT ![r] = "recorded"]}
        /\ phase' = phase /\ age' = age /\ fastest' = fastest /\ job' = job
    BY <1>10 DEF MarkReceived, WriteNode, records
  <2> QED BY <1>1, <1>2, <2>1 DEF WaitInv, AskedWaits, TimesWaited, SlowWaited
<1>11. CASE MarkAnswered(r)
  <2>1. /\ pc' = [pc EXCEPT ![r] = "done"] /\ job' = [job EXCEPT ![r] = NoJob]
        /\ phase' = phase /\ age' = age /\ fastest' = fastest
    BY <1>11 DEF MarkAnswered, records
  <2>2. /\ job'[r].elapsed = 0 /\ job'[r].existing = 0 /\ job'[r].reason = "noHash"
        /\ \A q \in Requests : q # r => job'[q] = job[q]
    BY <1>2, <2>1 DEF NoJob
  <2>3. AskedWaits' BY <1>1, <1>2, <2>1 DEF WaitInv, AskedWaits
  <2>4. TimesWaited' BY <1>1, <2>1, <2>2 DEF WaitInv, TimesWaited
  <2>5. SlowWaited' BY <1>1, <2>2 DEF WaitInv, SlowWaited
  <2> QED BY <2>3, <2>4, <2>5 DEF WaitInv
<1> QED BY <1>3, <1>4, <1>5, <1>6, <1>7, <1>8, <1>9, <1>10, <1>11

\* Every step keeps them.
LEMMA WaitStep ==
  ASSUME TypeOK, HTypeOK, OrderInv, WaitInv, TimedFirst, [HNext]_<<vars, history>>
  PROVE  WaitInv'
<1> USE RequestAssumption, LimitAssumption
<1>1. /\ \A s \in Seeds : waited[s] \in 0 .. TooLong /\ age[s] \in 1 .. TooLong
      /\ \A s \in Seeds : fastest[s] \in Nat
      /\ \A q \in Requests : /\ SeedOf[q] \in Seeds
                             /\ job[q].elapsed \in Nat /\ job[q].existing \in Nat
      /\ ProofLimit \in Nat /\ TooLong = ProofLimit + 1
  BY DEF HTypeOK, TypeOK, Times, TooLong
<1>2. ASSUME NEW r \in Requests, AskLeaves(r) PROVE WaitInv'
  <2>1. /\ phase' = [phase EXCEPT ![r] = "sent"] /\ pc' = [pc EXCEPT ![r] = "asked"]
        /\ job' = job /\ age' = age /\ fastest' = fastest /\ why' = why
        /\ waited' = [waited EXCEPT ![SeedOf[r]] = IF @ = 0 THEN 1 ELSE @]
    BY <1>2 DEF AskLeaves, SendProofRequest, records
  <2>2. \A s \in Seeds : waited[s] <= waited'[s] BY <1>1, <2>1 DEF HTypeOK
  <2>3. waited'[SeedOf[r]] > 0 BY <1>1, <2>1 DEF HTypeOK
  <2>4. \A s \in Seeds : waited'[s] \in Nat BY <1>1, <2>1 DEF HTypeOK
  <2>5. AskedWaits'
    BY <1>1, <2>1, <2>2, <2>3, <2>4 DEF WaitInv, AskedWaits, TypeOK
  <2>6. TimesWaited' BY <1>1, <2>1, <2>2, <2>4 DEF WaitInv, TimesWaited
  <2>7. SlowWaited' BY <1>1, <2>1, <2>2, <2>4 DEF WaitInv, SlowWaited
  <2> QED BY <2>5, <2>6, <2>7 DEF WaitInv
<1>3. ASSUME NEW r \in Requests, AnswerJudged(r) PROVE WaitInv'
  <2>1. PICK mine \in ProofHashes(Validator, SeedOf[r]) :
          job' = [job EXCEPT ![r] =
                    [NoJob EXCEPT !.reason = Reason(job[r].hash, mine, job[r].elapsed)]]
    BY <1>3 DEF AnswerJudged, Judge
  <2>2. /\ pc[r] = "marked" /\ pc' = [pc EXCEPT ![r] = "judged"]
        /\ phase' = phase /\ age' = age /\ fastest' = fastest
        /\ waited' = waited /\ why' = why
    BY <1>3 DEF AnswerJudged, Judge, records
  <2>3. job'[r].elapsed = 0 /\ job'[r].existing = 0
        /\ job'[r].reason = Reason(job[r].hash, mine, job[r].elapsed)
        /\ \A q \in Requests \ {r} : job'[q] = job[q]
    BY <2>1 DEF NoJob, TypeOK
  <2>4. Reason(job[r].hash, mine, job[r].elapsed) = "slow" => TooSlow(job[r].elapsed)
    BY DEF Reason
  <2>5. job'[r].reason = "slow" => waited[SeedOf[r]] > ProofLimit
    BY <1>1, <2>3, <2>4 DEF TooSlow, WaitInv, TimesWaited
  <2>6. AskedWaits' BY <1>1, <2>2 DEF WaitInv, AskedWaits, TypeOK
  <2>7. TimesWaited' BY <1>1, <2>2, <2>3 DEF WaitInv, TimesWaited
  <2>8. SlowWaited' BY <2>2, <2>3, <2>5 DEF WaitInv, SlowWaited
  <2> QED BY <2>6, <2>7, <2>8 DEF WaitInv
<1>4. ASSUME NEW r \in Requests, VerdictWritten(r) PROVE WaitInv'
  <2>1. /\ pc' = [pc EXCEPT ![r] = "written"]
        /\ phase' = phase /\ age' = age /\ fastest' = fastest /\ job' = job
        /\ waited' = waited
        /\ why' = [why EXCEPT ![SeedOf[r]] = [reason |-> job[r].reason, hash |-> held[r]]]
    BY <1>4 DEF VerdictWritten, WriteBase
  <2>2. AskedWaits' BY <1>1, <2>1 DEF WaitInv, AskedWaits, TypeOK
  <2>3. TimesWaited' BY <2>1 DEF WaitInv, TimesWaited
  <2>4. SlowWaited' BY <1>1, <2>1 DEF WaitInv, SlowWaited, HTypeOK
  <2> QED BY <2>2, <2>3, <2>4 DEF WaitInv
<1>5. CASE TimePasses
  <2>1. /\ phase' = phase /\ pc' = pc /\ job' = job /\ fastest' = fastest /\ why' = why
        /\ age' = [s \in Seeds |-> Ages(age[s])]
        /\ waited' = [s \in Seeds |-> IF waited[s] = 0 THEN 0 ELSE Ages(waited[s])]
    BY <1>5 DEF TimePasses, Tick, exchange
  <2>2. \A s \in Seeds : /\ waited[s] <= waited'[s] /\ waited'[s] \in Nat
                         /\ age[s] <= waited[s] => age'[s] <= waited'[s]
    BY <1>1, <2>1 DEF Ages
  <2>3. AskedWaits' BY <1>1, <2>1, <2>2 DEF WaitInv, AskedWaits
  <2>4. TimesWaited' BY <1>1, <2>1, <2>2 DEF WaitInv, TimesWaited
  <2>5. SlowWaited' BY <1>1, <2>1, <2>2 DEF WaitInv, SlowWaited
  <2> QED BY <2>3, <2>4, <2>5 DEF WaitInv
<1>6. ASSUME NEW n \in Nodes, NEW c \in Cids, IndexStep(n, c), UNCHANGED history PROVE WaitInv'
  BY <1>6 DEF IndexStep, BeginIndex, SaveRefs, AbandonIndex, exchange, records, history,
              WaitInv, AskedWaits, TimesWaited, SlowWaited
<1>7. CASE Restart /\ UNCHANGED history
  <2>1. \A q \in Requests : phase[q] # "sent" BY <1>7 DEF TimedFirst
  <2>2. \A q \in Requests : /\ phase'[q] \notin {"sent", "timed"}
                            /\ pc'[q] \in {"asked", "replied"} => pc'[q] = pc[q]
                            /\ job'[q] = job[q] \/ job'[q] = NoJob
    BY <1>7 DEF Restart, TypeOK
  <2>3. UNCHANGED <<age, fastest, waited, why>> BY <1>7 DEF Restart, records, history
  <2>4. AskedWaits' BY <2>1, <2>2, <2>3 DEF WaitInv, AskedWaits
  <2>5. TimesWaited' BY <1>1, <2>2, <2>3 DEF WaitInv, TimesWaited, NoJob
  <2>6. SlowWaited' BY <2>2, <2>3 DEF WaitInv, SlowWaited, NoJob
  <2> QED BY <2>4, <2>5, <2>6 DEF WaitInv
<1>8. CASE UNCHANGED <<vars, history>>
  BY <1>8 DEF vars, exchange, records, history, WaitInv, AskedWaits, TimesWaited, SlowWaited
<1> QED BY <1>2, <1>3, <1>4, <1>5, <1>6, <1>7, <1>8, WaitStepOfRequest, HistoryStepKinds

\* The words of proofs.go:85 are true as long as neither an answer nor the end
\* of the process comes between a request and the record of its start time:
\* that order (validation.go:117, 137) is all that the run "slow" rests on.
THEOREM SlowUnlessOvertaken ==
  HSpec /\ [][TimedFirst]_<<vars, history>> => []SlowMeansSlow
<1>1. HInit => WaitInv
  BY RequestAssumption, LimitAssumption
     DEF HInit, Init, NoJob, WaitInv, AskedWaits, TimesWaited, SlowWaited
<1>2. /\ TypeOK /\ HTypeOK /\ OrderInv /\ WaitInv
      /\ [HNext]_<<vars, history>> /\ [TimedFirst]_<<vars, history>>
      => WaitInv'
  <2>1. ASSUME TypeOK, HTypeOK, OrderInv, WaitInv, UNCHANGED <<vars, history>> PROVE WaitInv'
    BY <2>1 DEF vars, exchange, records, history, WaitInv, AskedWaits, TimesWaited, SlowWaited
  <2> QED BY <2>1, WaitStep
<1>3. WaitInv => SlowMeansSlow BY DEF WaitInv, SlowWaited, SlowMeansSlow
<1> QED BY <1>1, <1>2, <1>3, HistoryRefines, HistoryTypeCorrect, OrderInvariant, PTL DEF HSpec
-----------------------------------------------------------------------------
(* A seed judged valid.                                                    *)

\* Texts that cover a block, and texts that miss none: what validation.go:52-58,
\* which reads nothing of a list of one block or none, and validation.go:25,
\* which hashes a block it cannot read as text, leave to chance.
Covering == {h \in Hashes : h # <<>>}
Whole == {h \in Hashes : \A k \in DOMAIN h : h[k] # Unread}

\* Storage nodes answer with texts of G only, or with no hash.
AnswersFrom(G) == \A r \in Requests : HandleRequestProof(r) =>
                                       job'[r].hash \in G \cup {NoHash}

\* A node's text is the same from its answer to the verdict that rests on it.
AnswersIn(G) == \A r \in Requests : job[r].hash \in G \cup {NoHash}
MatchesIn(G) ==
  \A r \in Requests : pc[r] = "judged" /\ job[r].reason = "match" => held[r] \in G
ValidIn(G) == \A s \in Seeds : status[s] = "Valid" => why[s].hash \in G

ReadInv(G) == AnswersIn(G) /\ MatchesIn(G) /\ ValidIn(G)

\* An answer's hash is the node's own, until the validator has judged it.
LEMMA AnswersStay ==
  ASSUME NEW G, TypeOK, AnswersIn(G), AnswersFrom(G), [Next]_vars PROVE AnswersIn(G)'
<1> SUFFICES ASSUME NEW r \in Requests
             PROVE  job'[r].hash \in G \cup {NoHash}
  BY DEF AnswersIn
<1>1. job[r].hash \in G \cup {NoHash} BY DEF AnswersIn
<1>2. CASE HandleRequestProof(r) BY <1>2 DEF AnswersFrom
<1>3. CASE ReceiveProof(r) \/ ReadFastest(r) \/ KeepFastest(r)
  <2>1. job'[r].hash = job[r].hash
    BY <1>3 DEF ReceiveProof, ReadFastest, KeepFastest, TypeOK
  <2> QED BY <1>1, <2>1
<1>4. CASE Judge(r)
  <2>1. job'[r].hash = NoHash BY <1>4 DEF Judge, NoJob, TypeOK
  <2> QED BY <2>1
<1>5. CASE job'[r] = NoJob BY <1>5 DEF NoJob
<1>6. CASE job'[r] = job[r] BY <1>1, <1>6
<1> QED BY <1>2, <1>3, <1>4, <1>5, <1>6, JobStep

\* Every step keeps the three.
LEMMA ReadStep ==
  ASSUME NEW G, TypeOK, HTypeOK, ReadInv(G), AnswersFrom(G), [HNext]_<<vars, history>>
  PROVE  ReadInv(G)'
<1> USE RequestAssumption
<1>1. AnswersIn(G)' BY AnswersStay, HistoryIsIdle DEF ReadInv
<1>2. ASSUME NEW r \in Requests, AskLeaves(r) PROVE MatchesIn(G)' /\ ValidIn(G)'
  <2>1. /\ pc' = [pc EXCEPT ![r] = "asked"]
        /\ UNCHANGED <<job, status, held, why>>
    BY <1>2 DEF AskLeaves, SendProofRequest, records
  <2> QED BY <2>1 DEF ReadInv, MatchesIn, ValidIn, TypeOK
<1>3. ASSUME NEW r \in Requests, AnswerJudged(r) PROVE MatchesIn(G)' /\ ValidIn(G)'
  <2>1. PICK mine \in ProofHashes(Validator, SeedOf[r]) :
          job' = [job EXCEPT ![r] =
                    [NoJob EXCEPT !.reason = Reason(job[r].hash, mine, job[r].elapsed)]]
    BY <1>3 DEF AnswerJudged, Judge
  <2>2. /\ pc' = [pc EXCEPT ![r] = "judged"] /\ UNCHANGED <<status, why>>
        /\ held' = [held EXCEPT ![r] = job[r].hash]
    BY <1>3 DEF AnswerJudged, Judge, records
  <2>3. job'[r].reason = Reason(job[r].hash, mine, job[r].elapsed)
        /\ \A q \in Requests \ {r} : job'[q] = job[q]
    BY <2>1 DEF NoJob, TypeOK
  <2>4. Reason(job[r].hash, mine, job[r].elapsed) = "match" => job[r].hash # NoHash
    BY DEF Reason
  <2>5. job'[r].reason = "match" => held'[r] \in G
    BY <2>2, <2>3, <2>4 DEF ReadInv, AnswersIn, HTypeOK
  <2>6. MatchesIn(G)'
    BY <2>2, <2>3, <2>5 DEF ReadInv, MatchesIn, TypeOK, HTypeOK
  <2>7. ValidIn(G)' BY <2>2 DEF ReadInv, ValidIn
  <2> QED BY <2>6, <2>7
<1>4. ASSUME NEW r \in Requests, VerdictWritten(r) PROVE MatchesIn(G)' /\ ValidIn(G)'
  <2>1. /\ pc[r] = "judged" /\ pc' = [pc EXCEPT ![r] = "written"] /\ UNCHANGED <<job, held>>
        /\ status' = [status EXCEPT ![SeedOf[r]] = VerdictOf(job[r].reason)]
        /\ why' = [why EXCEPT ![SeedOf[r]] = [reason |-> job[r].reason, hash |-> held[r]]]
    BY <1>4 DEF VerdictWritten, WriteBase
  <2>2. status'[SeedOf[r]] = "Valid" => why'[SeedOf[r]].hash \in G
    BY <2>1 DEF VerdictOf, ReadInv, MatchesIn, TypeOK, HTypeOK
  <2>3. MatchesIn(G)' BY <2>1 DEF ReadInv, MatchesIn, TypeOK
  <2>4. ValidIn(G)' BY <2>1, <2>2 DEF ReadInv, ValidIn, TypeOK, HTypeOK
  <2> QED BY <2>3, <2>4
<1>5. ASSUME TimePasses \/ UNCHANGED <<vars, history>> PROVE MatchesIn(G)' /\ ValidIn(G)'
  <2>1. UNCHANGED <<pc, job, status, held, why>>
    BY <1>5 DEF TimePasses, Tick, exchange, records, history, vars
  <2>2. MatchesIn(G)' BY <2>1 DEF ReadInv, MatchesIn
  <2>3. ValidIn(G)' BY <2>1 DEF ReadInv, ValidIn
  <2> QED BY <2>2, <2>3
<1>6. ASSUME NEW n \in Nodes, NEW c \in Cids, IndexStep(n, c), UNCHANGED history
      PROVE  MatchesIn(G)' /\ ValidIn(G)'
  <2>1. UNCHANGED <<pc, job, status, held, why>>
    BY <1>6 DEF IndexStep, BeginIndex, SaveRefs, AbandonIndex, exchange, records, history
  <2>2. MatchesIn(G)' BY <2>1 DEF ReadInv, MatchesIn
  <2>3. ValidIn(G)' BY <2>1 DEF ReadInv, ValidIn
  <2> QED BY <2>2, <2>3
<1>7. ASSUME Restart, UNCHANGED history PROVE MatchesIn(G)' /\ ValidIn(G)'
  <2>1. \A q \in Requests : pc'[q] # "judged"
    BY <1>7 DEF Restart, Handling, TypeOK
  <2>2. UNCHANGED <<status, held, why>> BY <1>7 DEF Restart, records, history
  <2>3. MatchesIn(G)' BY <2>1 DEF MatchesIn
  <2>4. ValidIn(G)' BY <2>2 DEF ReadInv, ValidIn
  <2> QED BY <2>3, <2>4
<1>8. ASSUME NEW r \in Requests, UNCHANGED history,
             \/ CreateProofRequest(r) \/ SendFails(r) \/ SaveTime(r)
             \/ HandleRequestProof(r) \/ ReceiveProof(r) \/ ReadFastest(r)
             \/ KeepFastest(r) \/ MarkReceived(r) \/ WriteNode(r) \/ MarkAnswered(r)
      PROVE  MatchesIn(G)' /\ ValidIn(G)'
  <2>1. \A q \in Requests : pc'[q] = "judged" => pc[q] = "judged" /\ job'[q] = job[q]
    BY <1>8 DEF TypeOK, CreateProofRequest, SendFails, SaveTime, HandleRequestProof,
       ReceiveProof, ReadFastest, KeepFastest, MarkReceived, WriteNode, MarkAnswered, exchange
  <2>2. \A s \in Seeds : status'[s] = "Valid" => status[s] = "Valid"
    BY <1>8 DEF TypeOK, CreateProofRequest, SendFails, SaveTime, HandleRequestProof,
       ReceiveProof, ReadFastest, KeepFastest, MarkReceived, WriteNode, MarkAnswered, records
  <2>3. UNCHANGED <<held, why>> BY <1>8 DEF history
  <2>4. MatchesIn(G)' BY <2>1, <2>3 DEF ReadInv, MatchesIn
  <2>5. ValidIn(G)' BY <2>2, <2>3 DEF ReadInv, ValidIn
  <2> QED BY <2>4, <2>5
<1>9. MatchesIn(G)' /\ ValidIn(G)'
  BY <1>2, <1>3, <1>4, <1>5, <1>6, <1>7, <1>8, HistoryStepKinds
<1> QED BY <1>1, <1>9 DEF ReadInv

\* The three hold at the start, and a step that changes nothing keeps them too.
LEMMA ReadInductive ==
  ASSUME NEW G
  PROVE  /\ HInit => ReadInv(G)
         /\ TypeOK /\ HTypeOK /\ ReadInv(G) /\ [HNext]_<<vars, history>>
              /\ [AnswersFrom(G)]_<<vars, history>> => ReadInv(G)'
<1>1. HInit => ReadInv(G)
  BY DEF HInit, Init, NoJob, ReadInv, AnswersIn, MatchesIn, ValidIn
<1>2. ASSUME ReadInv(G), UNCHANGED <<vars, history>> PROVE ReadInv(G)'
  BY <1>2 DEF vars, exchange, records, history, ReadInv, AnswersIn, MatchesIn, ValidIn
<1> QED BY <1>1, <1>2, ReadStep

\* A valid verdict covers a block unless some storage node answered with a text
\* that covers none: the validator, whatever it reads and however handlers and
\* retries interleave, adds no other way to it.
THEOREM ValidUnlessShort ==
  HSpec /\ [][AnswersFrom(Covering)]_<<vars, history>> => []ValidCoversABlock
<1>1. HInit => ReadInv(Covering) BY ReadInductive
<1>2. TypeOK /\ HTypeOK /\ ReadInv(Covering) /\ [HNext]_<<vars, history>>
        /\ [AnswersFrom(Covering)]_<<vars, history>> => ReadInv(Covering)'
  BY ReadInductive
<1>3. ReadInv(Covering) => ValidCoversABlock
  BY DEF ReadInv, ValidIn, Covering, ValidCoversABlock
<1> QED BY <1>1, <1>2, <1>3, HistoryRefines, HistoryTypeCorrect, PTL DEF HSpec

\* A valid verdict misses no block it was to cover unless some storage node
\* answered although a download of its had failed.
THEOREM ValidUnlessUnread ==
  HSpec /\ [][AnswersFrom(Whole)]_<<vars, history>> => []ValidMissesNoBlock
<1>1. HInit => ReadInv(Whole) BY ReadInductive
<1>2. TypeOK /\ HTypeOK /\ ReadInv(Whole) /\ [HNext]_<<vars, history>>
        /\ [AnswersFrom(Whole)]_<<vars, history>> => ReadInv(Whole)'
  BY ReadInductive
<1>3. ReadInv(Whole) => ValidMissesNoBlock
  BY DEF ReadInv, ValidIn, Whole, ValidMissesNoBlock
<1> QED BY <1>1, <1>2, <1>3, HistoryRefines, HistoryTypeCorrect, PTL DEF HSpec

\* So a valid verdict does mean what README.md:2 says, that the node has read
\* the file, if nodes answer only with texts that cover a block and miss none.
THEOREM ValidUnlessSkipped ==
  /\ HSpec
  /\ [][AnswersFrom(Covering)]_<<vars, history>>
  /\ [][AnswersFrom(Whole)]_<<vars, history>>
  => []ValidMeansRead
<1>1. ValidCoversABlock /\ ValidMissesNoBlock => ValidMeansRead BY DEF ValidMeansRead
<1> QED BY <1>1, ValidUnlessShort, ValidUnlessUnread, PTL
=============================================================================
