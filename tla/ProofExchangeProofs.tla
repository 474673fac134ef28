------------------------- MODULE ProofExchangeProofs -------------------------
(***************************************************************************)
(* Proofs about ProofExchange, for every number of requests, seeds, files, *)
(* nodes and lists.                                                        *)
(***************************************************************************)
EXTENDS ProofExchange, TLAPS

\* Whatever CreatProofHash of a node yields is a hash: the empty answer without
\* a list, and else what a walk over the list on record leaves.
LEMMA HashIsHash ==
  ASSUME NEW n \in Nodes, NEW s \in Seeds, NEW h \in ProofHashes(n, s),
         refs \in [Nodes -> [Cids -> Lists \cup {NoList}]]
  PROVE  /\ h \in Hashes
         /\ h # NoHash => /\ refs[n][CidOf[s]] \in Lists
                          /\ h \in Texts[s][refs[n][CidOf[s]]]
<1>1. CidOf[s] \in Cids BY NodeAssumption
<1>2. CASE refs[n][CidOf[s]] = NoList
  <2>1. h = NoHash BY <1>2 DEF ProofHashes
  <2> QED BY <2>1 DEF Hashes
<1>3. CASE refs[n][CidOf[s]] # NoList
  <2>1. refs[n][CidOf[s]] \in Lists BY <1>1, <1>3
  <2>2. h \in Texts[s][refs[n][CidOf[s]]] BY <1>3 DEF ProofHashes
  <2> QED BY <2>1, <2>2 DEF Hashes
<1> QED BY <1>2, <1>3

\* What a handler holds before its answer comes has the type of what it holds.
LEMMA NoJobType == NoJob \in [hash : Hashes, elapsed : 0 .. TooLong,
                             existing : 0 .. TooLong, reason : Reasons]
BY LimitAssumption DEF NoJob, Hashes, TooLong, Reasons

\* Time passing keeps a measured time within the times there are.
LEMMA AgesType == ASSUME NEW t \in Times PROVE Ages(t) \in Times
BY LimitAssumption DEF Times, Ages, TooLong

\* The state a validator starts in has the type of every state.
LEMMA InitType == Init => TypeOK
<1> SUFFICES ASSUME Init PROVE TypeOK
  OBVIOUS
<1>1. job \in [Requests -> [hash : Hashes, elapsed : 0 .. TooLong,
                            existing : 0 .. TooLong, reason : Reasons]]
  BY NoJobType DEF Init
<1> QED
  BY <1>1, LimitAssumption DEF Init, TypeOK, Times, TooLong

-----------------------------------------------------------------------------
JobType == [hash : Hashes, elapsed : 0 .. TooLong,
            existing : 0 .. TooLong, reason : Reasons]

\* Every step keeps every variable within its type.
LEMMA TypeStep == TypeOK /\ [Next]_vars => TypeOK'
<1> SUFFICES ASSUME TypeOK, [Next]_vars PROVE TypeOK'
  OBVIOUS
<1> USE RequestAssumption, NodeAssumption, LimitAssumption
<1>1. ASSUME NEW r \in Requests, CreateProofRequest(r) PROVE TypeOK'
  BY <1>1 DEF TypeOK, CreateProofRequest, exchange, indexes, flags
<1>2. ASSUME NEW r \in Requests, SendProofRequest(r) PROVE TypeOK'
  BY <1>2 DEF TypeOK, SendProofRequest, indexes, records, flags
<1>3. ASSUME NEW r \in Requests, SendFails(r) PROVE TypeOK'
  BY <1>3 DEF TypeOK, SendFails, exchange, indexes, records, flags
<1>4. ASSUME NEW r \in Requests, SaveTime(r) PROVE TypeOK'
  BY <1>4 DEF TypeOK, SaveTime, exchange, indexes, flags, Times, TooLong
<1>5. ASSUME NEW r \in Requests, HandleRequestProof(r) PROVE TypeOK'
  <2>1. PICK h \in ProofHashes(PeerOf[SeedOf[r]], SeedOf[r]) :
          job' = [job EXCEPT ![r].hash = h]
    BY <1>5 DEF HandleRequestProof
  <2>2. h \in Hashes BY <2>1, HashIsHash DEF TypeOK
  <2>3. job[r] \in JobType BY DEF TypeOK, JobType
  <2>4. [job[r] EXCEPT !.hash = h] \in JobType BY <2>2, <2>3 DEF JobType
  <2>5. job' \in [Requests -> JobType] BY <2>1, <2>4 DEF TypeOK, JobType
  <2> QED BY <1>5, <2>5 DEF TypeOK, HandleRequestProof, indexes, records, flags, JobType
<1>6. ASSUME NEW r \in Requests, ReceiveProof(r) PROVE TypeOK'
  <2>1. age[SeedOf[r]] \in 0 .. TooLong BY DEF TypeOK, Times, TooLong
  <2> QED BY <1>6, <2>1 DEF TypeOK, ReceiveProof, indexes, records, flags, Handling
<1>7. ASSUME NEW r \in Requests, ReadFastest(r) PROVE TypeOK'
  BY <1>7 DEF TypeOK, ReadFastest, indexes, records, flags, Handling
<1>8. ASSUME NEW r \in Requests, KeepFastest(r) PROVE TypeOK'
  <2>1. job \in [Requests -> JobType] /\ job[r] \in JobType BY DEF TypeOK, JobType
  <2>2. fastest' \in [Seeds -> 0 .. TooLong]
    <3>1. job[r].elapsed \in 0 .. TooLong BY <2>1 DEF JobType
    <3> QED BY <3>1, <1>8 DEF TypeOK, KeepFastest
  <2>3. job' \in [Requests -> JobType]
    <3>1. [job[r] EXCEPT !.elapsed = job[r].existing] \in JobType BY <2>1 DEF JobType
    <3> QED BY <3>1, <2>1, <1>8 DEF KeepFastest
  <2> QED BY <1>8, <2>2, <2>3 DEF TypeOK, KeepFastest, indexes, flags, Handling, JobType
<1>9. ASSUME NEW r \in Requests, MarkReceived(r) PROVE TypeOK'
  BY <1>9 DEF TypeOK, MarkReceived, indexes, records, Handling
<1>10. ASSUME NEW r \in Requests, Judge(r) PROVE TypeOK'
  <2>1. PICK mine \in ProofHashes(Validator, SeedOf[r]) :
          job' = [job EXCEPT ![r] =
                    [NoJob EXCEPT !.reason = Reason(job[r].hash, mine, job[r].elapsed)]]
    BY <1>10 DEF Judge
  <2>2. Reason(job[r].hash, mine, job[r].elapsed) \in Reasons
    BY DEF Reason, Reasons
  <2>3. [NoJob EXCEPT !.reason = Reason(job[r].hash, mine, job[r].elapsed)] \in JobType
    BY <2>2, NoJobType DEF JobType
  <2>4. job' \in [Requests -> JobType] BY <2>1, <2>3 DEF TypeOK, JobType
  <2> QED BY <1>10, <2>4 DEF TypeOK, Judge, indexes, records, flags, Handling, JobType
<1>11. ASSUME NEW r \in Requests, WriteBase(r) PROVE TypeOK'
  BY <1>11 DEF TypeOK, WriteBase, VerdictOf, indexes, flags, Handling
<1>12. ASSUME NEW r \in Requests, WriteNode(r) PROVE TypeOK'
  BY <1>12 DEF TypeOK, WriteNode, VerdictOf, indexes, flags, Handling
<1>13. ASSUME NEW r \in Requests, MarkAnswered(r) PROVE TypeOK'
  <2>1. job' \in [Requests -> JobType] BY <1>13, NoJobType DEF TypeOK, MarkAnswered, JobType
  <2> QED BY <1>13, <2>1 DEF TypeOK, MarkAnswered, indexes, records, Handling, JobType
<1>14. ASSUME NEW n \in Nodes, NEW c \in Cids, IndexStep(n, c) PROVE TypeOK'
  <2>1. CASE BeginIndex(n, c)
    BY <2>1, IndexerAssumption DEF TypeOK, BeginIndex, exchange, records, flags
  <2>2. CASE SaveRefs(n, c)
    BY <2>2 DEF TypeOK, SaveRefs, exchange, records, flags
  <2>3. CASE AbandonIndex(n, c)
    BY <2>3 DEF TypeOK, AbandonIndex, exchange, records, flags
  <2> QED BY <1>14, <2>1, <2>2, <2>3 DEF IndexStep
<1>15. CASE Tick
  <2>1. age' \in [Seeds -> Times] BY <1>15, AgesType DEF TypeOK, Tick
  <2> QED BY <1>15, <2>1 DEF TypeOK, Tick, exchange, indexes, flags
<1>16. CASE Restart
  <2>1. job' \in [Requests -> JobType] BY <1>16, NoJobType DEF TypeOK, Restart, JobType
  <2>2. pc' \in [Requests -> {"none", "asked", "replied", "done", "dropped"} \cup Handling]
    BY <1>16 DEF TypeOK, Restart
  <2>3. phase' \in [Requests -> {"new", "created", "sent", "timed", "failed", "lost"}]
    BY <1>16 DEF TypeOK, Restart
  <2>4. indexing' \in [Nodes -> [Cids -> Nat]] BY <1>16 DEF TypeOK, Restart
  <2> QED BY <1>16, <2>1, <2>2, <2>3, <2>4 DEF TypeOK, Restart, records, JobType
<1>17. CASE UNCHANGED vars
  BY <1>17 DEF TypeOK, vars, indexes, records, flags
<1> QED
  BY <1>1, <1>2, <1>3, <1>4, <1>5, <1>6, <1>7, <1>8, <1>9, <1>10, <1>11, <1>12,
     <1>13, <1>14, <1>15, <1>16, <1>17 DEF Next, RequesterStep, HandlerStep

\* Every variable always has its type.
THEOREM TypeCorrect == Spec => []TypeOK
BY InitType, TypeStep, PTL DEF Spec

-----------------------------------------------------------------------------
(* The inductive invariant behind ValidMeansSameText and ValidWithinLimit:   *)
(* a list on record, a hash in a message and a reason of "match" each come   *)
(* with the lists and the times that justify them.                           *)

Good(s) == best[s] \in 1 .. ProofLimit
Measured(s, t) == best[s] # 0 /\ best[s] <= t

ListsRemembered ==
  \A n \in Nodes, c \in Cids : refs[n][c] # NoList => refs[n][c] \in listed[n][c]
HashesListed ==
  \A r \in Requests : job[r].hash # NoHash =>
    \E l \in listed[PeerOf[SeedOf[r]]][CidOf[SeedOf[r]]] : job[r].hash \in Texts[SeedOf[r]][l]
RecordsMeasured ==
  \A s \in Seeds : fastest[s] # 0 => Measured(s, fastest[s])
JobsMeasured ==
  \A r \in Requests :
    /\ job[r].elapsed # 0 => Measured(SeedOf[r], job[r].elapsed)
    /\ job[r].existing # 0 => Measured(SeedOf[r], job[r].existing)
    /\ pc[r] \in {"measured", "compared", "kept", "marked"} => job[r].elapsed # 0
MatchesSound ==
  \A r \in Requests : job[r].reason = "match" => Agrees(SeedOf[r]) /\ Good(SeedOf[r])
VerdictsSound ==
  \A s \in Seeds : "Valid" \in {status[s], nodeStatus[s]} => Agrees(s) /\ Good(s)

SoundInv == /\ ListsRemembered /\ HashesListed
            /\ RecordsMeasured /\ JobsMeasured
            /\ MatchesSound /\ VerdictsSound

\* The invariant holds at the start, when no handler runs and nothing is valid.
LEMMA SoundInit == Init => SoundInv
<1> SUFFICES ASSUME Init PROVE SoundInv
  OBVIOUS
<1>1. \A r \in Requests : job[r] = NoJob /\ pc[r] = "none" BY DEF Init
<1>2. ListsRemembered BY DEF Init, ListsRemembered
<1>3. HashesListed BY <1>1 DEF HashesListed, NoJob
<1>4. RecordsMeasured BY DEF Init, RecordsMeasured
<1>5. JobsMeasured BY <1>1 DEF JobsMeasured, NoJob
<1>6. MatchesSound BY <1>1 DEF MatchesSound, NoJob
<1>7. VerdictsSound BY DEF Init, VerdictsSound
<1> QED BY <1>2, <1>3, <1>4, <1>5, <1>6, <1>7 DEF SoundInv

\* What a step does to the history: the lists only grow in number, and the
\* shortest time only shrinks once there is one.
LEMMA HistoryStep ==
  ASSUME TypeOK, [Next]_vars
  PROVE  /\ \A n \in Nodes, c \in Cids : listed[n][c] \subseteq listed'[n][c]
         /\ \A s \in Seeds : best[s] # 0 => best'[s] # 0 /\ best'[s] <= best[s]
<1> USE RequestAssumption, NodeAssumption, LimitAssumption
<1>1. ASSUME NEW r \in Requests, ReceiveProof(r)
      PROVE  /\ \A n \in Nodes, c \in Cids : listed[n][c] \subseteq listed'[n][c]
             /\ \A s \in Seeds : best[s] # 0 => best'[s] # 0 /\ best'[s] <= best[s]
  BY <1>1 DEF TypeOK, ReceiveProof, indexes, Times, TooLong
<1>2. ASSUME NEW n \in Nodes, NEW c \in Cids, SaveRefs(n, c)
      PROVE  /\ \A m \in Nodes, d \in Cids : listed[m][d] \subseteq listed'[m][d]
             /\ \A s \in Seeds : best[s] # 0 => best'[s] # 0 /\ best'[s] <= best[s]
  BY <1>2 DEF TypeOK, SaveRefs
<1>3. \/ \E r \in Requests : ReceiveProof(r)
      \/ \E n \in Nodes, c \in Cids : SaveRefs(n, c)
      \/ UNCHANGED <<listed, best>>
  BY DEF Next, RequesterStep, HandlerStep, IndexStep, vars, indexes,
         CreateProofRequest, SendProofRequest, SendFails, SaveTime, HandleRequestProof,
         ReadFastest, KeepFastest, MarkReceived, Judge, WriteBase, WriteNode, MarkAnswered,
         BeginIndex, AbandonIndex, Tick, Restart
<1> QED
  BY <1>1, <1>2, <1>3 DEF TypeOK

\* So what once justified a verdict goes on justifying it.
LEMMA JustifiedStep ==
  ASSUME TypeOK, TypeOK', [Next]_vars, NEW s \in Seeds
  PROVE  /\ Agrees(s) => Agrees(s)'
         /\ Good(s) => Good(s)'
         /\ \A t \in Nat : Measured(s, t) => Measured(s, t)'
<1>1. Agrees(s) => Agrees(s)'
  BY HistoryStep, NodeAssumption DEF Agrees
<1>2. best[s] \in Nat /\ best'[s] \in Nat BY LimitAssumption DEF TypeOK, TooLong
<1>3. best[s] # 0 => best'[s] # 0 /\ best'[s] <= best[s] BY HistoryStep
<1>4. Good(s) => Good(s)' BY <1>2, <1>3, LimitAssumption DEF Good
<1>5. \A t \in Nat : Measured(s, t) => Measured(s, t)' BY <1>2, <1>3 DEF Measured
<1> QED BY <1>1, <1>4, <1>5

\* What a step does to the handler of one request.
LEMMA JobStep ==
  ASSUME TypeOK, [Next]_vars, NEW r \in Requests
  PROVE  \/ HandleRequestProof(r) \/ ReceiveProof(r) \/ ReadFastest(r)
         \/ KeepFastest(r) \/ Judge(r)
         \/ job'[r] = NoJob /\ pc'[r] \in {"done", "dropped"}
         \/ /\ job'[r] = job[r]
            /\ \/ pc'[r] = pc[r]
               \/ pc[r] = "kept" /\ pc'[r] = "marked"
               \/ pc'[r] \in {"asked", "written", "recorded"}
<1> DEFINE Goal == \/ HandleRequestProof(r) \/ ReceiveProof(r) \/ ReadFastest(r)
                   \/ KeepFastest(r) \/ Judge(r)
                   \/ job'[r] = NoJob /\ pc'[r] \in {"done", "dropped"}
                   \/ /\ job'[r] = job[r]
                      /\ \/ pc'[r] = pc[r]
                         \/ pc[r] = "kept" /\ pc'[r] = "marked"
                         \/ pc'[r] \in {"asked", "written", "recorded"}
<1>1. ASSUME NEW q \in Requests, RequesterStep(q) PROVE Goal
  BY <1>1 DEF TypeOK, RequesterStep, CreateProofRequest, SendProofRequest, SendFails,
              SaveTime, exchange
<1>2. ASSUME NEW q \in Requests, q # r,
             HandleRequestProof(q) \/ ReceiveProof(q) \/ HandlerStep(q)
      PROVE  Goal
  BY <1>2 DEF TypeOK, HandlerStep, HandleRequestProof, ReceiveProof, ReadFastest,
              KeepFastest, MarkReceived, Judge, WriteBase, WriteNode, MarkAnswered
<1>3. ASSUME HandlerStep(r) PROVE Goal
  BY <1>3 DEF TypeOK, HandlerStep, MarkReceived, WriteBase, WriteNode, MarkAnswered
<1>4. ASSUME NEW n \in Nodes, NEW c \in Cids, IndexStep(n, c) PROVE Goal
  BY <1>4 DEF IndexStep, BeginIndex, SaveRefs, AbandonIndex, exchange
<1>5. CASE Tick BY <1>5 DEF Tick, exchange
<1>6. CASE Restart BY <1>6 DEF Restart, TypeOK
<1>7. CASE UNCHANGED vars BY <1>7 DEF vars
<1> QED
  BY <1>1, <1>2, <1>3, <1>4, <1>5, <1>6, <1>7 DEF Next

\* Every step of a requester, node, indexer or handler, the passing of time and
\* a restart keep the invariant.
LEMMA SoundStep ==
  ASSUME TypeOK, TypeOK', SoundInv, [Next]_vars
  PROVE  SoundInv'
<1> USE RequestAssumption, NodeAssumption, LimitAssumption
<1>1. ListsRemembered'
  <2>1. ASSUME NEW n \in Nodes, NEW c \in Cids, SaveRefs(n, c) PROVE ListsRemembered'
    BY <2>1 DEF SoundInv, ListsRemembered, SaveRefs, TypeOK
  <2>2. \/ \E n \in Nodes, c \in Cids : SaveRefs(n, c)
        \/ UNCHANGED <<refs, listed>>
    BY DEF Next, RequesterStep, HandlerStep, IndexStep, vars, indexes,
           CreateProofRequest, SendProofRequest, SendFails, SaveTime, HandleRequestProof,
           ReceiveProof, ReadFastest, KeepFastest, MarkReceived, Judge, WriteBase,
           WriteNode, MarkAnswered, BeginIndex, AbandonIndex, Tick, Restart
  <2> QED BY <2>1, <2>2 DEF SoundInv, ListsRemembered
<1>2. HashesListed'
  <2> SUFFICES ASSUME NEW r \in Requests, job'[r].hash # NoHash
               PROVE  \E l \in listed'[PeerOf[SeedOf[r]]][CidOf[SeedOf[r]]] :
                        job'[r].hash \in Texts[SeedOf[r]][l]
    BY DEF HashesListed
  <2>1. CASE HandleRequestProof(r)
    <3> DEFINE n == PeerOf[SeedOf[r]]
               c == CidOf[SeedOf[r]]
    <3>1. PICK h \in ProofHashes(n, SeedOf[r]) : job' = [job EXCEPT ![r].hash = h]
      BY <2>1 DEF HandleRequestProof
    <3>2. h = job'[r].hash BY <3>1 DEF TypeOK
    <3>3. n \in Nodes /\ c \in Cids /\ SeedOf[r] \in Seeds OBVIOUS
    <3>4. refs[n][c] \in Lists /\ h \in Texts[SeedOf[r]][refs[n][c]]
      BY <3>2, <3>3, HashIsHash DEF TypeOK
    <3>5. refs[n][c] \in listed'[n][c]
      BY <3>3, <3>4, ListAssumption, HistoryStep DEF SoundInv, ListsRemembered
    <3> QED BY <3>2, <3>4, <3>5
  <2>2. CASE job'[r].hash = job[r].hash
    BY <2>2, HistoryStep DEF SoundInv, HashesListed
  <2>3. CASE ReceiveProof(r) \/ ReadFastest(r) \/ KeepFastest(r)
    BY <2>2, <2>3 DEF ReceiveProof, ReadFastest, KeepFastest, TypeOK
  <2>4. CASE Judge(r) BY <2>4 DEF Judge, NoJob, TypeOK
  <2> QED BY <2>1, <2>2, <2>3, <2>4, JobStep DEF NoJob
<1>3. RecordsMeasured'
  <2> SUFFICES ASSUME NEW s \in Seeds, fastest'[s] # 0 PROVE Measured(s, fastest[s])'
    BY DEF RecordsMeasured
  <2>1. fastest[s] \in Nat BY DEF TypeOK, TooLong
  <2>2. CASE fastest'[s] = fastest[s]
    BY <2>1, <2>2, JustifiedStep DEF SoundInv, RecordsMeasured, Measured
  <2>3. ASSUME NEW r \in Requests, KeepFastest(r), s = SeedOf[r],
               fastest'[s] = job[r].elapsed
        PROVE  Measured(s, fastest[s])'
    <3>1. Measured(s, job[r].elapsed) BY <2>3 DEF SoundInv, JobsMeasured
    <3>2. job[r].elapsed \in Nat BY DEF TypeOK, TooLong
    <3> QED BY <2>3, <3>1, <3>2, JustifiedStep DEF Measured
  <2>4. (\E r \in Requests : KeepFastest(r)) \/ UNCHANGED fastest
    BY DEF Next, RequesterStep, HandlerStep, IndexStep, vars, records,
           CreateProofRequest, SendProofRequest, SendFails, SaveTime, HandleRequestProof,
           ReceiveProof, ReadFastest, MarkReceived, Judge, WriteBase, WriteNode,
           MarkAnswered, BeginIndex, SaveRefs, AbandonIndex, Tick, Restart
  <2> QED BY <2>2, <2>3, <2>4 DEF KeepFastest, TypeOK
<1>4. JobsMeasured'
  <2> SUFFICES ASSUME NEW r \in Requests
               PROVE  /\ job'[r].elapsed # 0 => Measured(SeedOf[r], job[r].elapsed)'
                      /\ job'[r].existing # 0 => Measured(SeedOf[r], job[r].existing)'
                      /\ pc'[r] \in {"measured", "compared", "kept", "marked"}
                           => job'[r].elapsed # 0
    BY DEF JobsMeasured, Measured
  <2> DEFINE s == SeedOf[r]
  <2>1. s \in Seeds /\ job[r].elapsed \in Nat /\ job[r].existing \in Nat
        /\ age[s] \in Nat \ {0} /\ fastest[s] \in Nat
    BY DEF TypeOK, TooLong, Times
  <2>2. \A t \in Nat : Measured(s, t) => Measured(s, t)' BY <2>1, JustifiedStep
  <2>3. /\ job[r].elapsed # 0 => Measured(s, job[r].elapsed)
        /\ job[r].existing # 0 => Measured(s, job[r].existing)
        /\ pc[r] \in {"measured", "compared", "kept", "marked"} => job[r].elapsed # 0
    BY DEF SoundInv, JobsMeasured
  <2>4. fastest[s] # 0 => Measured(s, fastest[s])
    BY <2>1 DEF SoundInv, RecordsMeasured
  <2>5. CASE HandleRequestProof(r)
    <3>1. job'[r].elapsed = job[r].elapsed /\ job'[r].existing = job[r].existing
          /\ pc'[r] = "replied"
      BY <2>5 DEF HandleRequestProof, TypeOK
    <3> QED BY <3>1, <2>1, <2>2, <2>3 DEF Measured
  <2>6. CASE ReceiveProof(r)
    <3>1. job'[r].elapsed = age[s] /\ job'[r].existing = job[r].existing
      BY <2>6 DEF ReceiveProof, TypeOK
    <3>2. best'[s] # 0 /\ best'[s] <= age[s]
      BY <2>6, <2>1 DEF ReceiveProof, TypeOK, TooLong
    <3> QED BY <3>1, <3>2, <2>1, <2>2, <2>3 DEF Measured
  <2>7. CASE ReadFastest(r)
    <3>1. job'[r].elapsed = job[r].elapsed /\ job'[r].existing = fastest[s]
          /\ pc[r] = "measured"
      BY <2>7 DEF ReadFastest, TypeOK
    <3> QED BY <3>1, <2>1, <2>2, <2>3, <2>4 DEF Measured
  <2>8. CASE KeepFastest(r)
    <3>1. /\ pc[r] = "compared"
          /\ job'[r].existing = job[r].existing
          /\ \/ job'[r].elapsed = job[r].elapsed
             \/ job'[r].elapsed = job[r].existing /\ job[r].existing # 0
      BY <2>8 DEF KeepFastest, TypeOK
    <3> QED BY <3>1, <2>1, <2>2, <2>3 DEF Measured
  <2>9. CASE Judge(r)
    <3>1. job'[r].elapsed = 0 /\ job'[r].existing = 0 /\ pc'[r] = "judged"
      BY <2>9 DEF Judge, NoJob, TypeOK
    <3> QED BY <3>1
  <2>10. CASE job'[r] = NoJob /\ pc'[r] \in {"done", "dropped"}
    BY <2>10 DEF NoJob
  <2>11. CASE /\ job'[r] = job[r]
              /\ \/ pc'[r] = pc[r]
                 \/ pc[r] = "kept" /\ pc'[r] = "marked"
                 \/ pc'[r] \in {"asked", "written", "recorded"}
    BY <2>11, <2>1, <2>2, <2>3 DEF Measured
  <2> QED BY <2>5, <2>6, <2>7, <2>8, <2>9, <2>10, <2>11, JobStep
<1>5. MatchesSound'
  <2> SUFFICES ASSUME NEW r \in Requests, job'[r].reason = "match"
               PROVE  Agrees(SeedOf[r])' /\ Good(SeedOf[r])'
    BY DEF MatchesSound
  <2> DEFINE s == SeedOf[r]
  <2>1. s \in Seeds OBVIOUS
  <2>2. CASE job'[r].reason = job[r].reason
    BY <2>1, <2>2, JustifiedStep DEF SoundInv, MatchesSound
  <2>3. CASE Judge(r)
    <3>1. PICK mine \in ProofHashes(Validator, s) :
            job' = [job EXCEPT ![r] =
                      [NoJob EXCEPT !.reason = Reason(job[r].hash, mine, job[r].elapsed)]]
      BY <2>3 DEF Judge
    <3>2. Reason(job[r].hash, mine, job[r].elapsed) = "match"
      BY <3>1 DEF TypeOK, NoJob
    <3>3. job[r].hash # NoHash /\ mine = job[r].hash /\ ~TooSlow(job[r].elapsed)
      BY <3>2 DEF Reason
    <3>4. refs[Validator][CidOf[s]] \in Lists /\ mine \in Texts[s][refs[Validator][CidOf[s]]]
      BY <2>1, <3>3, HashIsHash DEF TypeOK
    <3>5. Agrees(s)
      <4>1. refs[Validator][CidOf[s]] \in listed[Validator][CidOf[s]]
        BY <2>1, <3>4, ListAssumption DEF SoundInv, ListsRemembered
      <4>2. PICK l \in listed[PeerOf[s]][CidOf[s]] : job[r].hash \in Texts[s][l]
        BY <3>3 DEF SoundInv, HashesListed
      <4> QED BY <3>3, <3>4, <4>1, <4>2 DEF Agrees
    <3>6. pc[r] = "marked" BY <2>3 DEF Judge
    <3>7. Measured(s, job[r].elapsed) BY <3>6 DEF SoundInv, JobsMeasured
    <3>8. Good(s)
      BY <3>3, <3>7 DEF Measured, Good, TooSlow, TypeOK, TooLong
    <3> QED BY <2>1, <3>5, <3>8, JustifiedStep
  <2>4. CASE HandleRequestProof(r) \/ ReceiveProof(r) \/ ReadFastest(r) \/ KeepFastest(r)
    BY <2>2, <2>4 DEF HandleRequestProof, ReceiveProof, ReadFastest, KeepFastest, TypeOK
  <2> QED BY <2>2, <2>3, <2>4, JobStep DEF NoJob
<1>6. VerdictsSound'
  <2> SUFFICES ASSUME NEW s \in Seeds, "Valid" \in {status'[s], nodeStatus'[s]}
               PROVE  Agrees(s)' /\ Good(s)'
    BY DEF VerdictsSound
  <2>1. CASE "Valid" \in {status[s], nodeStatus[s]}
    BY <2>1, JustifiedStep DEF SoundInv, VerdictsSound
  <2>2. ASSUME NEW r \in Requests, s = SeedOf[r], job[r].reason = "match"
        PROVE  Agrees(s)' /\ Good(s)'
    BY <2>2, JustifiedStep DEF SoundInv, MatchesSound
  <2>3. \/ \E r \in Requests : CreateProofRequest(r) \/ WriteBase(r) \/ WriteNode(r)
        \/ UNCHANGED <<status, nodeStatus>>
    BY DEF Next, RequesterStep, HandlerStep, IndexStep, vars, records,
           SendProofRequest, SendFails, SaveTime, HandleRequestProof, ReceiveProof,
           ReadFastest, KeepFastest, MarkReceived, Judge, MarkAnswered, BeginIndex,
           SaveRefs, AbandonIndex, Tick, Restart
  <2>4. ASSUME NEW r \in Requests, CreateProofRequest(r) PROVE "Valid" \in {status[s], nodeStatus[s]}
    BY <2>4 DEF CreateProofRequest, TypeOK
  <2>5. ASSUME NEW r \in Requests, WriteBase(r) \/ WriteNode(r)
        PROVE  \/ "Valid" \in {status[s], nodeStatus[s]}
               \/ s = SeedOf[r] /\ job[r].reason = "match"
    BY <2>5 DEF WriteBase, WriteNode, VerdictOf, TypeOK
  <2> QED BY <2>1, <2>2, <2>3, <2>4, <2>5
<1> QED BY <1>1, <1>2, <1>3, <1>4, <1>5, <1>6 DEF SoundInv

\* The inductive invariant holds, and with it the two properties of a valid
\* verdict, whatever the interleaving of handlers, indexers and restarts.
THEOREM SoundInvariant == Spec => []SoundInv
<1>1. Init => SoundInv BY SoundInit
<1>2. TypeOK /\ TypeOK' /\ SoundInv /\ [Next]_vars => SoundInv' BY SoundStep
<1> QED BY <1>1, <1>2, TypeCorrect, PTL DEF Spec

\* A verdict of Valid in either record means that the two nodes have had lists
\* of the file over which the seed's walks can leave the same text.
THEOREM ValidHasSameText == Spec => []ValidMeansSameText
<1>1. SoundInv => ValidMeansSameText
  BY DEF SoundInv, VerdictsSound, ValidMeansSameText
<1> QED BY <1>1, SoundInvariant, PTL

\* A verdict of Valid in either record means that an answer was measured
\* within the limit.
THEOREM ValidIsWithinLimit == Spec => []ValidWithinLimit
<1>1. SoundInv => ValidWithinLimit
  BY DEF SoundInv, VerdictsSound, ValidWithinLimit, Good
<1> QED BY <1>1, SoundInvariant, PTL

-----------------------------------------------------------------------------
(* What the modules of the two APIs rest on: how a request's place in the   *)
(* exchange, the record of its seed and the flag of its answer go together. *)

\* No other request has used the seed.
OnlyUser(r) == \A q \in Requests \ {r} : SeedOf[q] = SeedOf[r] => phase[q] = "new"

Judged == {"Valid", "Invalid"}

AskedOnce == \A r \in Requests : pc[r] # "none" => phase[r] \notin {"new", "created"}
WrittenIsJudged ==
  \A r \in Requests : OnlyUser(r) /\ pc[r] \in {"written", "recorded", "done"} =>
    status[SeedOf[r]] \in Judged
JudgedIsWritten ==
  \A r \in Requests : OnlyUser(r) /\ status[SeedOf[r]] \in Judged =>
    pc[r] \in {"written", "recorded", "done", "dropped"}
AnsweredIsDone ==
  \A s \in Seeds : answered[s] => \E r \in Requests : SeedOf[r] = s /\ pc[r] = "done"

CreatedIsOnRecord == \A r \in Requests : phase[r] # "new" => status[SeedOf[r]] # "none"

RecordInv == /\ AskedOnce /\ WrittenIsJudged /\ JudgedIsWritten /\ AnsweredIsDone
             /\ CreatedIsOnRecord

\* A request never becomes new again, so a seed that had one user had none
\* more before.
LEMMA PhaseStep ==
  ASSUME TypeOK, [Next]_vars
  PROVE  /\ \A r \in Requests : phase'[r] = "new" => phase[r] = "new"
         /\ \A r \in Requests : OnlyUser(r)' => OnlyUser(r)
<1>1. \A r \in Requests : phase'[r] = "new" => phase[r] = "new"
  BY DEF TypeOK, Next, RequesterStep, HandlerStep, IndexStep, vars, exchange, indexes,
         CreateProofRequest, SendProofRequest, SendFails, SaveTime, HandleRequestProof,
         ReceiveProof, ReadFastest, KeepFastest, MarkReceived, Judge, WriteBase, WriteNode,
         MarkAnswered, BeginIndex, SaveRefs, AbandonIndex, Tick, Restart
<1> QED BY <1>1 DEF OnlyUser

\* How the place of one request in the exchange changes.
LEMMA PlaceStep ==
  ASSUME TypeOK, [Next]_vars, NEW r \in Requests
  PROVE  \/ pc'[r] = pc[r] /\ (phase'[r] = phase[r] \/ phase[r] = "new"
                               \/ phase'[r] \notin {"new", "created"})
         \/ SendProofRequest(r) /\ pc'[r] = "asked" /\ phase'[r] = "sent"
         \/ /\ phase'[r] = phase[r]
            /\ \/ pc[r] \in Unjudged \ {"judged"} /\ pc'[r] \in Unjudged
               \/ WriteBase(r) /\ pc[r] = "judged" /\ pc'[r] = "written"
               \/ pc[r] = "written" /\ pc'[r] = "recorded" /\ status' = status
               \/ pc[r] = "recorded" /\ pc'[r] = "done" /\ status' = status
         \/ /\ pc[r] \in Handling /\ pc'[r] = "dropped" /\ status' = status
            /\ phase'[r] = phase[r] \/ phase'[r] \notin {"new", "created"}
<1> DEFINE Goal ==
         \/ pc'[r] = pc[r] /\ (phase'[r] = phase[r] \/ phase[r] = "new"
                               \/ phase'[r] \notin {"new", "created"})
         \/ SendProofRequest(r) /\ pc'[r] = "asked" /\ phase'[r] = "sent"
         \/ /\ phase'[r] = phase[r]
            /\ \/ pc[r] \in Unjudged \ {"judged"} /\ pc'[r] \in Unjudged
               \/ WriteBase(r) /\ pc[r] = "judged" /\ pc'[r] = "written"
               \/ pc[r] = "written" /\ pc'[r] = "recorded" /\ status' = status
               \/ pc[r] = "recorded" /\ pc'[r] = "done" /\ status' = status
         \/ /\ pc[r] \in Handling /\ pc'[r] = "dropped" /\ status' = status
            /\ phase'[r] = phase[r] \/ phase'[r] \notin {"new", "created"}
<1>1. ASSUME NEW q \in Requests, RequesterStep(q) PROVE Goal
  BY <1>1 DEF TypeOK, RequesterStep, CreateProofRequest, SendProofRequest, SendFails,
              SaveTime, exchange
<1>2. ASSUME NEW q \in Requests, HandleRequestProof(q) \/ ReceiveProof(q) PROVE Goal
  BY <1>2 DEF TypeOK, HandleRequestProof, ReceiveProof, Unjudged
<1>3. ASSUME NEW q \in Requests, HandlerStep(q) PROVE Goal
  BY <1>3 DEF TypeOK, HandlerStep, ReadFastest, KeepFastest, MarkReceived, Judge, WriteBase,
              WriteNode, MarkAnswered, records, Unjudged
<1>4. ASSUME NEW n \in Nodes, NEW c \in Cids, IndexStep(n, c) PROVE Goal
  BY <1>4 DEF IndexStep, BeginIndex, SaveRefs, AbandonIndex, exchange
<1>5. CASE Tick BY <1>5 DEF Tick, exchange
<1>6. CASE Restart BY <1>6 DEF Restart, TypeOK, records
<1>7. CASE UNCHANGED vars BY <1>7 DEF vars
<1> QED BY <1>1, <1>2, <1>3, <1>4, <1>5, <1>6, <1>7 DEF Next

\* A verdict stays on record as long as no second request uses its seed.
LEMMA VerdictStands ==
  ASSUME TypeOK, RecordInv, [Next]_vars, NEW r \in Requests, OnlyUser(r)',
         status[SeedOf[r]] \in Judged
  PROVE  status'[SeedOf[r]] = status[SeedOf[r]]
<1> USE RequestAssumption
<1>1. OnlyUser(r) BY PhaseStep
<1>2. pc[r] \in {"written", "recorded", "done", "dropped"}
  BY <1>1 DEF RecordInv, JudgedIsWritten
<1>3. phase[r] \notin {"new", "created"} BY <1>2 DEF RecordInv, AskedOnce
<1>4. ASSUME NEW q \in Requests, CreateProofRequest(q)
      PROVE  status'[SeedOf[r]] = status[SeedOf[r]]
  <2>1. phase[q] = "new" /\ phase'[q] = "created" BY <1>4 DEF CreateProofRequest, TypeOK
  <2>2. q # r BY <1>3, <2>1
  <2>3. SeedOf[q] # SeedOf[r] BY <2>1, <2>2 DEF OnlyUser
  <2> QED BY <1>4, <2>3 DEF CreateProofRequest, TypeOK
<1>5. ASSUME NEW q \in Requests, WriteBase(q) PROVE status'[SeedOf[r]] = status[SeedOf[r]]
  <2>1. pc[q] = "judged" BY <1>5 DEF WriteBase
  <2>2. phase[q] # "new" BY <2>1 DEF RecordInv, AskedOnce
  <2>3. q # r BY <1>2, <2>1
  <2>4. SeedOf[q] # SeedOf[r] BY <1>1, <2>2, <2>3 DEF OnlyUser
  <2> QED BY <1>5, <2>4 DEF WriteBase, TypeOK
<1>6. (\E q \in Requests : CreateProofRequest(q) \/ WriteBase(q)) \/ status' = status
  BY DEF Next, RequesterStep, HandlerStep, IndexStep, vars, records, SendProofRequest,
         SendFails, SaveTime, HandleRequestProof, ReceiveProof, ReadFastest, KeepFastest,
         MarkReceived, Judge, WriteNode, MarkAnswered, BeginIndex, SaveRefs, AbandonIndex,
         Tick, Restart
<1> QED BY <1>4, <1>5, <1>6

\* Every step keeps the invariant.
LEMMA RecordStep == ASSUME TypeOK, RecordInv, [Next]_vars PROVE RecordInv'
<1> USE RequestAssumption
<1>1. AskedOnce'
  <2> SUFFICES ASSUME NEW r \in Requests, pc'[r] # "none"
               PROVE  phase'[r] \notin {"new", "created"}
    BY DEF AskedOnce
  <2> QED BY PlaceStep DEF RecordInv, AskedOnce, Unjudged, Handling
<1>2. WrittenIsJudged'
  <2> SUFFICES ASSUME NEW r \in Requests, OnlyUser(r)', pc'[r] \in {"written", "recorded", "done"}
               PROVE  status'[SeedOf[r]] \in Judged
    BY DEF WrittenIsJudged
  <2>1. OnlyUser(r) BY PhaseStep
  <2>2. CASE WriteBase(r) BY <2>2 DEF WriteBase, TypeOK, VerdictOf, Judged
  <2>3. CASE pc[r] \in {"written", "recorded", "done"}
    <3>1. status[SeedOf[r]] \in Judged BY <2>1, <2>3 DEF RecordInv, WrittenIsJudged
    <3> QED BY <3>1, VerdictStands
  <2> QED BY <2>2, <2>3, PlaceStep DEF Unjudged
<1>3. JudgedIsWritten'
  <2> SUFFICES ASSUME NEW r \in Requests, OnlyUser(r)', status'[SeedOf[r]] \in Judged
               PROVE  pc'[r] \in {"written", "recorded", "done", "dropped"}
    BY DEF JudgedIsWritten
  <2>1. OnlyUser(r) BY PhaseStep
  <2>2. CASE status[SeedOf[r]] \in Judged
    <3>1. pc[r] \in {"written", "recorded", "done", "dropped"}
      BY <2>1, <2>2 DEF RecordInv, JudgedIsWritten
    <3>2. phase[r] # "created" BY <3>1 DEF RecordInv, AskedOnce
    <3> QED BY <3>1, <3>2, PlaceStep DEF Unjudged, SendProofRequest
  <2>3. CASE status[SeedOf[r]] \notin Judged
    <3>1. PICK q \in Requests : CreateProofRequest(q) \/ WriteBase(q)
      BY <2>3 DEF Next, RequesterStep, HandlerStep, IndexStep, vars, records,
             SendProofRequest, SendFails, SaveTime, HandleRequestProof, ReceiveProof,
             ReadFastest, KeepFastest, MarkReceived, Judge, WriteNode, MarkAnswered,
             BeginIndex, SaveRefs, AbandonIndex, Tick, Restart
    <3>2. WriteBase(q) /\ SeedOf[q] = SeedOf[r]
      BY <2>3, <3>1 DEF CreateProofRequest, WriteBase, TypeOK, Judged
    <3>3. pc[q] = "judged" BY <3>2 DEF WriteBase
    <3>4. phase[q] # "new" BY <3>3 DEF RecordInv, AskedOnce
    <3>5. q = r BY <2>1, <3>2, <3>4 DEF OnlyUser
    <3> QED BY <3>2, <3>5 DEF WriteBase, TypeOK
  <2> QED BY <2>2, <2>3
<1>4. AnsweredIsDone'
  <2> SUFFICES ASSUME NEW s \in Seeds, answered'[s]
               PROVE  \E r \in Requests : SeedOf[r] = s /\ pc'[r] = "done"
    BY DEF AnsweredIsDone
  <2>1. CASE answered[s]
    <3>1. PICK r \in Requests : SeedOf[r] = s /\ pc[r] = "done"
      BY <2>1 DEF RecordInv, AnsweredIsDone
    <3>2. phase[r] # "created" BY <3>1 DEF RecordInv, AskedOnce
    <3>3. pc'[r] = "done" BY <3>1, <3>2, PlaceStep DEF Unjudged, Handling, SendProofRequest
    <3> QED BY <3>1, <3>3
  <2>2. CASE ~answered[s]
    <3>1. PICK q \in Requests : MarkAnswered(q)
      BY <2>2 DEF Next, RequesterStep, HandlerStep, IndexStep, vars, flags, TypeOK,
             CreateProofRequest, SendProofRequest, SendFails, SaveTime, HandleRequestProof,
             ReceiveProof, ReadFastest, KeepFastest, MarkReceived, Judge, WriteBase, WriteNode,
             BeginIndex, SaveRefs, AbandonIndex, Tick, Restart
    <3> QED BY <2>2, <3>1 DEF MarkAnswered, TypeOK
  <2> QED BY <2>1, <2>2
<1>5. CreatedIsOnRecord'
  <2> SUFFICES ASSUME NEW r \in Requests, phase'[r] # "new" PROVE status'[SeedOf[r]] # "none"
    BY DEF CreatedIsOnRecord
  <2>1. \A s \in Seeds : status[s] # "none" => status'[s] # "none"
    <3>1. (\E q \in Requests : CreateProofRequest(q) \/ WriteBase(q)) \/ status' = status
      BY DEF Next, RequesterStep, HandlerStep, IndexStep, vars, records, SendProofRequest,
             SendFails, SaveTime, HandleRequestProof, ReceiveProof, ReadFastest, KeepFastest,
             MarkReceived, Judge, WriteNode, MarkAnswered, BeginIndex, SaveRefs, AbandonIndex,
             Tick, Restart
    <3> QED BY <3>1 DEF CreateProofRequest, WriteBase, VerdictOf, TypeOK
  <2>2. CASE phase[r] # "new" BY <2>1, <2>2 DEF RecordInv, CreatedIsOnRecord
  <2>3. CASE phase[r] = "new"
    <3>1. (\E q \in Requests : RequesterStep(q)) \/ Restart \/ phase' = phase
      BY DEF Next, HandlerStep, IndexStep, vars, HandleRequestProof, ReceiveProof,
             ReadFastest, KeepFastest, MarkReceived, Judge, WriteBase, WriteNode,
             MarkAnswered, BeginIndex, SaveRefs, AbandonIndex, Tick
    <3>2. ~Restart BY <2>3 DEF Restart
    <3>3. PICK q \in Requests : RequesterStep(q) BY <2>3, <3>1, <3>2
    <3>4. CreateProofRequest(r)
      BY <2>3, <3>3 DEF RequesterStep, CreateProofRequest, SendProofRequest, SendFails,
                        SaveTime, TypeOK
    <3> QED BY <3>4 DEF CreateProofRequest, TypeOK
  <2> QED BY <2>2, <2>3
<1> QED BY <1>1, <1>2, <1>3, <1>4, <1>5 DEF RecordInv

\* A seed's record, as long as one request uses it, goes with where that
\* request stands: proofs.go:68-96.
THEOREM RecordInvariant == Spec => []RecordInv
<1>1. ASSUME Init PROVE RecordInv
  <2>1. /\ \A r \in Requests : pc[r] = "none" /\ phase[r] = "new"
        /\ \A s \in Seeds : status[s] = "none" /\ ~answered[s]
    BY <1>1 DEF Init
  <2> QED BY <2>1, RequestAssumption
          DEF RecordInv, AskedOnce, WrittenIsJudged, JudgedIsWritten, AnsweredIsDone, Judged,
              CreatedIsOnRecord
<1>2. TypeOK /\ RecordInv /\ [Next]_vars => RecordInv' BY RecordStep
<1> QED BY <1>1, <1>2, TypeCorrect, PTL DEF Spec

-----------------------------------------------------------------------------
(* No judgement is left unseen by the pollers, and the exchange implements *)
(* ProofVerdict.                                                           *)

\* An exchange does not begin before its request is sent.
OrderInv ==
  \A r \in Requests : phase[r] \in {"new", "created"} => pc[r] = "none"

\* Every step keeps the order of a request and its exchange.
LEMMA OrderStep ==
  ASSUME TypeOK, OrderInv, [Next]_vars
  PROVE  OrderInv'
<1> USE DEF OrderInv, TypeOK
<1>1. ASSUME NEW r \in Requests, RequesterStep(r) PROVE OrderInv'
  BY <1>1 DEF RequesterStep, CreateProofRequest, SendProofRequest, SendFails, SaveTime, exchange
<1>2. ASSUME NEW r \in Requests, HandleRequestProof(r) \/ ReceiveProof(r) \/ HandlerStep(r)
      PROVE  OrderInv'
  BY <1>2 DEF HandlerStep, HandleRequestProof, ReceiveProof, ReadFastest, KeepFastest,
              MarkReceived, Judge, WriteBase, WriteNode, MarkAnswered
<1>3. ASSUME NEW n \in Nodes, NEW c \in Cids, IndexStep(n, c) PROVE OrderInv'
  BY <1>3 DEF IndexStep, BeginIndex, SaveRefs, AbandonIndex, exchange
<1>4. CASE Tick BY <1>4 DEF Tick, exchange
<1>5. CASE Restart BY <1>5 DEF Restart, Handling
<1>6. CASE UNCHANGED vars BY <1>6 DEF vars
<1> QED BY <1>1, <1>2, <1>3, <1>4, <1>5, <1>6 DEF Next

\* A request that has not been sent (validation.go:117) has no answer in the
\* hands of any node or handler.
THEOREM OrderInvariant == Spec => []OrderInv
<1>1. Init => OrderInv BY DEF Init, OrderInv
<1>2. TypeOK /\ OrderInv /\ [Next]_vars => OrderInv' BY OrderStep
<1> QED BY <1>1, <1>2, TypeCorrect, PTL DEF Spec

-----------------------------------------------------------------------------
\* Every step keeps PendingIsOwed: what makes a seed pending is a request, and
\* what ends the last open request of a seed records a verdict.
LEMMA PendingStep ==
  ASSUME TypeOK, OrderInv, PendingIsOwed, [Next]_vars
  PROVE  PendingIsOwed'
<1> USE RequestAssumption
<1> DEFINE Open(r) == /\ phase[r] # "new"
                      /\ pc[r] \in Unjudged \cup {"none", "dropped"}
<1>1. ASSUME NEW s \in Seeds, status'[s] = "Pending"
      PROVE  \E r \in Requests : SeedOf[r] = s /\ Open(r)'
  <2>1. ASSUME NEW r \in Requests, CreateProofRequest(r)
        PROVE  \E q \in Requests : SeedOf[q] = s /\ Open(q)'
    <3>1. CASE SeedOf[r] = s
      BY <2>1, <3>1 DEF CreateProofRequest, OrderInv, TypeOK, exchange
    <3>2. CASE SeedOf[r] # s
      <4>1. status[s] = "Pending" BY <1>1, <2>1, <3>2 DEF CreateProofRequest, TypeOK
      <4> QED BY <4>1, <2>1 DEF PendingIsOwed, CreateProofRequest, TypeOK, exchange
    <3> QED BY <3>1, <3>2
  <2>2. ASSUME NEW r \in Requests, WriteBase(r)
        PROVE  \E q \in Requests : SeedOf[q] = s /\ Open(q)'
    <3>1. SeedOf[r] # s /\ status[s] = "Pending"
      BY <1>1, <2>2 DEF WriteBase, VerdictOf, TypeOK
    <3> QED BY <3>1, <2>2 DEF PendingIsOwed, WriteBase, TypeOK
  <2>3. ASSUME NEW r \in Requests,
               \/ SendProofRequest(r) \/ SendFails(r) \/ SaveTime(r)
               \/ HandleRequestProof(r) \/ ReceiveProof(r) \/ ReadFastest(r)
               \/ KeepFastest(r) \/ MarkReceived(r) \/ Judge(r)
        PROVE  \E q \in Requests : SeedOf[q] = s /\ Open(q)'
    <3>1. UNCHANGED status
      BY <2>3 DEF SendProofRequest, SendFails, SaveTime, HandleRequestProof, ReceiveProof,
                  ReadFastest, KeepFastest, MarkReceived, Judge, records
    <3>2. ASSUME NEW q \in Requests, Open(q) PROVE Open(q)'
      BY <2>3, <3>2 DEF SendProofRequest, SendFails, SaveTime, HandleRequestProof,
                  ReceiveProof, ReadFastest, KeepFastest, MarkReceived, Judge, TypeOK,
                  Unjudged, exchange
    <3> QED BY <1>1, <3>1, <3>2 DEF PendingIsOwed
  <2>4. ASSUME NEW r \in Requests, WriteNode(r) \/ MarkAnswered(r)
        PROVE  \E q \in Requests : SeedOf[q] = s /\ Open(q)'
    <3>1. UNCHANGED <<status, phase>> /\ pc[r] \in {"written", "recorded"}
          /\ \A q \in Requests \ {r} : pc'[q] = pc[q]
      BY <2>4 DEF WriteNode, MarkAnswered, records, TypeOK
    <3> QED BY <1>1, <3>1 DEF PendingIsOwed, Unjudged
  <2>5. CASE Restart
    <3>1. ASSUME NEW q \in Requests, Open(q) PROVE Open(q)'
      BY <2>5, <3>1 DEF Restart, Unjudged, TypeOK
    <3> QED BY <1>1, <2>5, <3>1 DEF PendingIsOwed, Restart, records
  <2>6. CASE UNCHANGED <<status, phase, pc>>
    BY <1>1, <2>6 DEF PendingIsOwed
  <2>7. \/ UNCHANGED <<status, phase, pc>>
        \/ Restart
        \/ \E r \in Requests : RequesterStep(r) \/ HandleRequestProof(r) \/ ReceiveProof(r)
                               \/ HandlerStep(r)
    BY DEF Next, IndexStep, BeginIndex, SaveRefs, AbandonIndex, Tick, vars, exchange, records
  <2> QED BY <2>1, <2>2, <2>3, <2>4, <2>5, <2>6, <2>7 DEF RequesterStep, HandlerStep
<1> QED BY <1>1 DEF PendingIsOwed

\* Whoever polls a record for something else than Pending is never left
\* behind a judgement that was made.
THEOREM PendingAlwaysOwed == Spec => []PendingIsOwed
<1>1. Init => PendingIsOwed BY DEF Init, PendingIsOwed
<1>2. TypeOK /\ OrderInv /\ PendingIsOwed /\ [Next]_vars => PendingIsOwed' BY PendingStep
<1> QED BY <1>1, <1>2, TypeCorrect, OrderInvariant, PTL DEF Spec

-----------------------------------------------------------------------------
(* The refinement, with the mapping of ProofExchange: status is the        *)
(* verdict, and the other abstract variables are Owed, Made and Agreed.    *)

Agreed == {s \in Seeds : Agrees(s)}

\* At the start nothing is made, owed or agreed.
LEMMA InitRefines == Init => Verdicts!Init
<1> SUFFICES ASSUME Init PROVE Verdicts!Init
  OBVIOUS
<1>1. Owed = {} /\ Made = {} BY DEF Init, Owed, Made, Unjudged
<1>2. \A s \in Seeds : ~Agrees(s) BY NodeAssumption DEF Init, Agrees
<1> QED BY <1>1, <1>2 DEF Init, Verdicts!Init

\* The steps before a judgement, and after it, that change no abstract variable.
LEMMA QuietStep ==
  ASSUME TypeOK, OrderInv, NEW r \in Requests,
         \/ SendProofRequest(r) \/ SaveTime(r) \/ HandleRequestProof(r) \/ ReceiveProof(r)
         \/ ReadFastest(r) \/ KeepFastest(r) \/ MarkReceived(r) \/ Judge(r)
         \/ WriteNode(r) \/ MarkAnswered(r)
  PROVE  UNCHANGED Verdicts!vars
<1>1. UNCHANGED <<status, listed>>
  BY DEF SendProofRequest, SaveTime, HandleRequestProof, ReceiveProof, ReadFastest,
         KeepFastest, MarkReceived, Judge, WriteNode, MarkAnswered, records, indexes
<1>2. UNCHANGED Owed
  <2> SUFFICES ASSUME NEW q \in Requests
               PROVE  (phase'[q] = "created" \/ pc'[q] \in Unjudged)
                        <=> (phase[q] = "created" \/ pc[q] \in Unjudged)
    BY DEF Owed
  <2> QED
    BY DEF SendProofRequest, SaveTime, HandleRequestProof, ReceiveProof, ReadFastest,
           KeepFastest, MarkReceived, Judge, WriteNode, MarkAnswered, exchange,
           TypeOK, Unjudged, OrderInv
<1>3. UNCHANGED Made
  <2> SUFFICES ASSUME NEW q \in Requests PROVE phase'[q] # "new" <=> phase[q] # "new"
    BY DEF Made
  <2> QED
    BY DEF SendProofRequest, SaveTime, HandleRequestProof, ReceiveProof, ReadFastest,
           KeepFastest, MarkReceived, Judge, WriteNode, MarkAnswered, TypeOK
<1> QED BY <1>1, <1>2, <1>3 DEF Verdicts!vars, Agrees

\* Every step of the exchange is a step of ProofVerdict or leaves its variables
\* alone: the one that records the verdict (WriteBase) is the judgement.
LEMMA StepRefines ==
  ASSUME TypeOK, SoundInv, OrderInv, [Next]_vars
  PROVE  [Verdicts!Next]_(Verdicts!vars)
<1> USE RequestAssumption, NodeAssumption
<1>1. ASSUME NEW r \in Requests, CreateProofRequest(r) PROVE Verdicts!Request(r)
  <2>1. Made' = Made \cup {r} /\ r \notin Made
    BY <1>1 DEF CreateProofRequest, Made, TypeOK
  <2>2. Owed' = Owed \cup {r}
    BY <1>1 DEF CreateProofRequest, Owed, TypeOK, exchange
  <2> QED BY <1>1, <2>1, <2>2 DEF CreateProofRequest, Verdicts!Request, indexes, Agrees
<1>2. ASSUME NEW r \in Requests, SendFails(r) PROVE Verdicts!Drop({r})
  <2>1. pc[r] = "none" BY <1>2 DEF SendFails, OrderInv
  <2>2. Owed' = Owed \ {r} /\ r \in Owed
    BY <1>2, <2>1 DEF SendFails, Owed, TypeOK, exchange, Unjudged
  <2>3. UNCHANGED Made BY <1>2 DEF SendFails, Made, TypeOK
  <2> QED BY <1>2, <2>2, <2>3 DEF SendFails, Verdicts!Drop, indexes, records, Agrees
<1>3. ASSUME NEW r \in Requests, WriteBase(r) PROVE Verdicts!Judge(r)
  <2>1. pc[r] = "judged" /\ phase[r] # "created" BY <1>3 DEF WriteBase, OrderInv
  <2>2. r \in Owed /\ Owed' = Owed \ {r}
    BY <1>3, <2>1 DEF WriteBase, Owed, TypeOK, Unjudged
  <2>3. UNCHANGED <<Made, {s \in Seeds : Agrees(s)}>>
    BY <1>3 DEF WriteBase, Made, Agrees, indexes
  <2> DEFINE v == VerdictOf(job[r].reason)
  <2>4. v \in {"Valid", "Invalid"} /\ status' = [status EXCEPT ![SeedOf[r]] = v]
    BY <1>3 DEF WriteBase, VerdictOf
  <2>5. v = "Valid" => SeedOf[r] \in {s \in Seeds : Agrees(s)}
    BY DEF VerdictOf, SoundInv, MatchesSound
  <2> QED BY <2>2, <2>3, <2>4, <2>5 DEF Verdicts!Judge
<1>4. ASSUME NEW n \in Nodes, NEW c \in Cids, IndexStep(n, c)
      PROVE  [Verdicts!Next]_(Verdicts!vars)
  <2>1. UNCHANGED <<status, phase, pc>>
    BY <1>4 DEF IndexStep, BeginIndex, SaveRefs, AbandonIndex, records, exchange
  <2>2. UNCHANGED <<status, Owed, Made>> BY <2>1 DEF Owed, Made
  <2>3. \A m \in Nodes, d \in Cids : listed[m][d] \subseteq listed'[m][d]
    BY HistoryStep
  <2>4. Agreed \subseteq Agreed' BY <2>3 DEF Agreed, Agrees
  <2>5. CASE Agreed' = Agreed
    BY <2>2, <2>5 DEF Verdicts!vars, Agreed
  <2>6. CASE Agreed' # Agreed
    <3>1. Verdicts!Agree(Agreed' \ Agreed)
      <4>1. Agreed' \ Agreed # {} /\ Agreed' \ Agreed \subseteq Seeds
            /\ Agreed' = Agreed \cup (Agreed' \ Agreed)
        BY <2>4, <2>6 DEF Agreed
      <4> QED BY <2>2, <4>1 DEF Verdicts!Agree, Agreed
    <3>2. Agreed' \ Agreed \in SUBSET Seeds BY DEF Agreed
    <3> QED BY <3>1, <3>2 DEF Verdicts!Next
  <2> QED BY <2>5, <2>6
<1>5. CASE Tick
  BY <1>5 DEF Tick, exchange, indexes, Verdicts!vars, Owed, Made, Agrees
<1>6. CASE Restart
  <2>1. UNCHANGED <<status, listed>> BY <1>6 DEF Restart, records
  <2>2. UNCHANGED Made
    <3>1. \A q \in Requests : phase'[q] # "new" <=> phase[q] # "new"
      BY <1>6 DEF Restart, TypeOK
    <3> QED BY <3>1 DEF Made
  <2>3. Owed' \subseteq Owed
    BY <1>6 DEF Restart, Owed, TypeOK, Unjudged, Handling
  <2>4. CASE Owed' = Owed
    BY <2>1, <2>2, <2>4 DEF Verdicts!vars, Agrees
  <2>5. CASE Owed' # Owed
    <3>1. Verdicts!Drop(Owed \ Owed')
      BY <2>1, <2>2, <2>3, <2>5 DEF Verdicts!Drop, Agrees
    <3>2. Owed \ Owed' \in SUBSET Owed OBVIOUS
    <3> QED BY <3>1, <3>2 DEF Verdicts!Next
  <2> QED BY <2>4, <2>5
<1>7. CASE UNCHANGED vars
  BY <1>7 DEF vars, indexes, records, Verdicts!vars, Owed, Made, Agrees
<1>8. ASSUME NEW r \in Requests, SendFails(r) PROVE Verdicts!Next
  <2>1. {r} \in SUBSET Owed BY <1>2, <1>8 DEF Verdicts!Drop
  <2> QED BY <1>2, <1>8, <2>1 DEF Verdicts!Next
<1>9. ASSUME NEW r \in Requests, CreateProofRequest(r) \/ WriteBase(r) PROVE Verdicts!Next
  BY <1>1, <1>3, <1>9 DEF Verdicts!Next
<1> QED
  BY <1>4, <1>5, <1>6, <1>7, <1>8, <1>9, QuietStep DEF Next, RequesterStep, HandlerStep

\* The exchange implements the abstract specification of a verdict: every
\* request is judged at most once, and valid only when the two walks can come out the same.
THEOREM ExchangeImplementsVerdict == Spec => ImplementsVerdict
<1>1. TypeOK /\ SoundInv /\ OrderInv /\ [Next]_vars => [Verdicts!Next]_(Verdicts!vars)
  BY StepRefines
<1> QED
  BY <1>1, InitRefines, TypeCorrect, SoundInvariant, OrderInvariant, PTL
     DEF Spec, ImplementsVerdict, Verdicts!Spec
-----------------------------------------------------------------------------
(* The block lists, which BlockLists shows the code to index as BlockIndex  *)
(* lets it.                                                                 *)

Index(n) == INSTANCE BlockIndex WITH
              refs <- refs[n], indexing <- indexing[n], Indexers <- Indexers[n]

IndexOf(n, c) ==
  Index(n)!BeginIndex(c) \/ Index(n)!SaveRefs(c) \/ Index(n)!AbandonIndex(c)

\* Nothing else happens, and what is on record of the file is remembered.
OnlyIndexes(n, c) ==
  /\ refs' = [refs EXCEPT ![n] = refs'[n]]
  /\ indexing' = [indexing EXCEPT ![n] = indexing'[n]]
  /\ listed' = [listed EXCEPT ![n][c] = @ \cup ({refs'[n][c]} \ {NoList})]
  /\ UNCHANGED <<phase, exchange, records, flags, best>>

\* The index steps of the exchange are those of BlockIndex, neither fewer nor
\* more: what the theorems about the exchange say holds with any node that
\* indexes its files as BlockIndex does.
THEOREM IndexStepIsBlockIndex ==
  ASSUME TypeOK, ListsRemembered, NEW n \in Nodes, NEW c \in Cids
  PROVE  IndexStep(n, c) <=> IndexOf(n, c) /\ OnlyIndexes(n, c)
<1>1. /\ refs \in [Nodes -> [Cids -> Lists \cup {NoList}]]
      /\ indexing \in [Nodes -> [Cids -> Nat]]
      /\ listed \in [Nodes -> [Cids -> SUBSET Lists]]
  BY DEF TypeOK
<1>2. listed[n][c] \cup ({refs[n][c]} \ {NoList}) = listed[n][c]
  BY DEF ListsRemembered
<1>3. [listed EXCEPT ![n][c] = @ \cup ({refs[n][c]} \ {NoList})] = listed
  BY <1>1, <1>2
<1>4. ASSUME refs'[n] = refs[n], OnlyIndexes(n, c) PROVE refs' = refs /\ listed' = listed
  <2>1. refs' = refs BY <1>1, <1>4 DEF OnlyIndexes
  <2>2. listed' = [listed EXCEPT ![n][c] = @ \cup ({refs[n][c]} \ {NoList})]
    BY <1>4, <2>1 DEF OnlyIndexes
  <2> QED BY <1>3, <2>1, <2>2
<1>5. ASSUME refs' = refs, listed' = listed
      PROVE  /\ refs' = [refs EXCEPT ![n] = refs'[n]]
             /\ listed' = [listed EXCEPT ![n][c] = @ \cup ({refs'[n][c]} \ {NoList})]
  BY <1>1, <1>3, <1>5
<1>6. ASSUME NEW k
      PROVE  indexing' = [indexing EXCEPT ![n][c] = k]
               <=> /\ indexing' = [indexing EXCEPT ![n] = indexing'[n]]
                   /\ indexing'[n] = [indexing[n] EXCEPT ![c] = k]
  <2>1. CASE indexing' = [indexing EXCEPT ![n][c] = k] BY <1>1, <2>1
  <2>2. ASSUME indexing' = [indexing EXCEPT ![n] = indexing'[n]],
               indexing'[n] = [indexing[n] EXCEPT ![c] = k]
        PROVE  indexing' = [indexing EXCEPT ![n][c] = k]
    BY <2>2
  <2> QED BY <2>1, <2>2
<1>7. BeginIndex(n, c) <=> Index(n)!BeginIndex(c) /\ OnlyIndexes(n, c)
  <2>1. ASSUME BeginIndex(n, c) PROVE Index(n)!BeginIndex(c) /\ OnlyIndexes(n, c)
    <3>1. refs' = refs /\ listed' = listed BY <2>1 DEF BeginIndex, records
    <3> QED BY <1>5, <1>6, <2>1, <3>1 DEF BeginIndex, Index!BeginIndex, OnlyIndexes
  <2>2. ASSUME Index(n)!BeginIndex(c), OnlyIndexes(n, c) PROVE BeginIndex(n, c)
    <3>1. refs' = refs /\ listed' = listed BY <1>4, <2>2 DEF Index!BeginIndex
    <3>2. indexing' = [indexing EXCEPT ![n][c] = @ + 1]
      BY <1>6, <2>2 DEF Index!BeginIndex, OnlyIndexes
    <3> QED BY <2>2, <3>1, <3>2 DEF BeginIndex, Index!BeginIndex, OnlyIndexes
  <2> QED BY <2>1, <2>2
<1>8. AbandonIndex(n, c) <=> Index(n)!AbandonIndex(c) /\ OnlyIndexes(n, c)
  <2>1. ASSUME AbandonIndex(n, c) PROVE Index(n)!AbandonIndex(c) /\ OnlyIndexes(n, c)
    <3>1. refs' = refs /\ listed' = listed BY <2>1 DEF AbandonIndex, records
    <3> QED BY <1>5, <1>6, <2>1, <3>1 DEF AbandonIndex, Index!AbandonIndex, OnlyIndexes
  <2>2. ASSUME Index(n)!AbandonIndex(c), OnlyIndexes(n, c) PROVE AbandonIndex(n, c)
    <3>1. refs' = refs /\ listed' = listed BY <1>4, <2>2 DEF Index!AbandonIndex
    <3>2. indexing' = [indexing EXCEPT ![n][c] = @ - 1]
      BY <1>6, <2>2 DEF Index!AbandonIndex, OnlyIndexes
    <3> QED BY <2>2, <3>1, <3>2 DEF AbandonIndex, Index!AbandonIndex, OnlyIndexes
  <2> QED BY <2>1, <2>2
<1>9. ASSUME NEW l \in Lists
      PROVE  /\ refs' = [refs EXCEPT ![n][c] = l]
             /\ listed' = [listed EXCEPT ![n][c] = @ \cup {l}]
             <=> /\ refs'[n] = [refs[n] EXCEPT ![c] = l]
                 /\ refs' = [refs EXCEPT ![n] = refs'[n]]
                 /\ listed' = [listed EXCEPT ![n][c] = @ \cup ({refs'[n][c]} \ {NoList})]
  <2>1. {l} \ {NoList} = {l} BY ListAssumption
  <2>2. ASSUME refs' = [refs EXCEPT ![n][c] = l]
        PROVE  /\ refs'[n] = [refs[n] EXCEPT ![c] = l] /\ refs'[n][c] = l
               /\ refs' = [refs EXCEPT ![n] = refs'[n]]
    BY <1>1, <2>2
  <2>3. ASSUME refs'[n] = [refs[n] EXCEPT ![c] = l], refs' = [refs EXCEPT ![n] = refs'[n]]
        PROVE  refs' = [refs EXCEPT ![n][c] = l] /\ refs'[n][c] = l
    <3>1. refs' = [refs EXCEPT ![n][c] = l] BY <2>3
    <3> QED BY <1>1, <3>1
  <2>4. ASSUME refs'[n][c] = l
        PROVE  listed[n][c] \cup ({refs'[n][c]} \ {NoList}) = listed[n][c] \cup {l}
    BY <2>1, <2>4
  <2> QED BY <2>2, <2>3, <2>4
<1>10. SaveRefs(n, c) <=> Index(n)!SaveRefs(c) /\ OnlyIndexes(n, c)
  <2>1. ASSUME SaveRefs(n, c) PROVE Index(n)!SaveRefs(c) /\ OnlyIndexes(n, c)
    <3>1. PICK l \in Lists : /\ refs' = [refs EXCEPT ![n][c] = l]
                             /\ listed' = [listed EXCEPT ![n][c] = @ \cup {l}]
      BY <2>1 DEF SaveRefs
    <3> QED BY <1>6, <1>9, <2>1, <3>1 DEF SaveRefs, Index!SaveRefs, OnlyIndexes
  <2>2. ASSUME Index(n)!SaveRefs(c), OnlyIndexes(n, c) PROVE SaveRefs(n, c)
    <3>1. PICK l \in Lists : refs'[n] = [refs[n] EXCEPT ![c] = l]
      BY <2>2 DEF Index!SaveRefs
    <3>2. /\ refs' = [refs EXCEPT ![n][c] = l]
          /\ listed' = [listed EXCEPT ![n][c] = @ \cup {l}]
      BY <1>9, <2>2, <3>1 DEF OnlyIndexes
    <3>3. indexing' = [indexing EXCEPT ![n][c] = @ - 1]
      BY <1>6, <2>2 DEF Index!SaveRefs, OnlyIndexes
    <3> QED BY <2>2, <3>2, <3>3 DEF SaveRefs, Index!SaveRefs, OnlyIndexes
  <2> QED BY <2>1, <2>2
<1> QED BY <1>7, <1>8, <1>10 DEF IndexStep, IndexOf

\* Each node's lists, as the exchange has them, are those of a node that indexes
\* as BlockIndex does, whatever handlers and requesters do meanwhile; the restart
\* of the validator is one for it alone.
THEOREM ExchangeIndexesAsBlockIndex == \A n \in Nodes : Spec => Index(n)!Spec
<1> SUFFICES ASSUME NEW n \in Nodes PROVE Spec => Index(n)!Spec OBVIOUS
<1>1. Init => Index(n)!Init BY DEF Init, Index!Init
<1>2. TypeOK /\ ListsRemembered /\ [Next]_vars => [Index(n)!Next]_(Index(n)!vars)
  <2> SUFFICES ASSUME TypeOK, ListsRemembered, [Next]_vars
               PROVE  Index(n)!Next \/ UNCHANGED <<refs[n], indexing[n]>>
    BY DEF Index!vars
  <2>1. ASSUME NEW m \in Nodes, NEW c \in Cids, IndexStep(m, c)
        PROVE  Index(n)!Next \/ UNCHANGED <<refs[n], indexing[n]>>
    <3>1. IndexOf(m, c) /\ OnlyIndexes(m, c) BY <2>1, IndexStepIsBlockIndex
    <3>2. CASE m = n BY <3>1, <3>2 DEF IndexOf, Index!Next
    <3>3. CASE m # n BY <3>1, <3>3 DEF OnlyIndexes, TypeOK
    <3> QED BY <3>2, <3>3
  <2>2. CASE Restart
    <3>1. refs' = refs /\ indexing' = [indexing EXCEPT ![Validator] = [c \in Cids |-> 0]]
      BY <2>2 DEF Restart
    <3>2. CASE n = Validator
      <4>1. Index(n)!Restart BY <3>1, <3>2 DEF Index!Restart, TypeOK
      <4> QED BY <4>1 DEF Index!Next
    <3>3. CASE n # Validator BY <3>1, <3>3 DEF TypeOK
    <3> QED BY <3>2, <3>3
  <2>3. CASE UNCHANGED indexes BY <2>3 DEF indexes
  <2>4. \/ \E m \in Nodes, c \in Cids : IndexStep(m, c)
        \/ Restart
        \/ UNCHANGED indexes
    BY DEF Next, vars, RequesterStep, HandlerStep, CreateProofRequest, SendProofRequest,
           SendFails, SaveTime, HandleRequestProof, ReceiveProof, ReadFastest, KeepFastest,
           MarkReceived, Judge, WriteBase, WriteNode, MarkAnswered, Tick
  <2> QED BY <2>1, <2>2, <2>3, <2>4
<1>3. SoundInv => ListsRemembered BY DEF SoundInv
<1> QED BY <1>1, <1>2, <1>3, TypeCorrect, SoundInvariant, PTL DEF Spec, Index!Spec

-----------------------------------------------------------------------------
(* The fastest time.                                                       *)

\* No two handlers of a seed are between their read of the fastest time and
\* their write of it: what proofs.go:44-47, two database calls, leave to chance.
OneAtATime ==
  \A r, q \in Requests :
    ReadFastest(r) /\ q # r /\ SeedOf[q] = SeedOf[r] => pc[q] # "compared"

\* What a handler compares with is still on record, and it is alone.
ReadIsFresh ==
  \A r \in Requests : pc[r] = "compared" =>
    /\ job[r].existing = fastest[SeedOf[r]]
    /\ \A q \in Requests : q # r /\ SeedOf[q] = SeedOf[r] => pc[q] # "compared"

\* The shortest time is on record, or with a handler that has yet to enter it,
\* unless a restart took the handler of an answer.
Entering(r) == pc[r] \in {"measured", "compared"}
Held(s) ==
  \/ fastest[s] = best[s]
  \/ \E r \in Requests : SeedOf[r] = s /\ Entering(r) /\ job[r].elapsed = best[s]
  \/ \E r \in Requests : SeedOf[r] = s /\ pc[r] = "dropped"
BestIsHeld == \A s \in Seeds : Held(s)

\* A step that neither measures, reads nor keeps a time changes none, and takes
\* handlers only away.
LEMMA TimeStep ==
  ASSUME TypeOK, OrderInv, [Next]_vars,
         \A r \in Requests : ~ReceiveProof(r) /\ ~ReadFastest(r) /\ ~KeepFastest(r)
  PROVE  /\ UNCHANGED <<fastest, best>>
         /\ \A q \in Requests :
              /\ \/ pc'[q] = pc[q] /\ (Entering(q) => job'[q] = job[q])
                 \/ pc'[q] = "dropped"
                 \/ ~Entering(q) /\ ~Entering(q)' /\ pc[q] # "dropped"
<1> DEFINE Goal(q) == \/ pc'[q] = pc[q] /\ (Entering(q) => job'[q] = job[q])
                      \/ pc'[q] = "dropped"
                      \/ ~Entering(q) /\ ~Entering(q)' /\ pc[q] # "dropped"
<1>0. UNCHANGED <<fastest, best>>
  BY DEF Next, vars, records, RequesterStep, HandlerStep, IndexStep, CreateProofRequest,
         SendProofRequest, SendFails, SaveTime, HandleRequestProof, MarkReceived, Judge,
         WriteBase, WriteNode, MarkAnswered, BeginIndex, SaveRefs, AbandonIndex, Tick, Restart
<1> SUFFICES ASSUME NEW q \in Requests PROVE Goal(q)
  BY <1>0
<1>1. ASSUME NEW r \in Requests, CreateProofRequest(r) \/ SendFails(r) \/ SaveTime(r)
      PROVE  Goal(q)
  BY <1>1 DEF CreateProofRequest, SendFails, SaveTime, exchange
<1>2. ASSUME NEW r \in Requests, SendProofRequest(r)
      PROVE  Goal(q)
  <2>1. /\ phase[r] = "created" /\ pc' = [pc EXCEPT ![r] = "asked"]
        /\ job' = job
    BY <1>2 DEF SendProofRequest
  <2>2. pc[r] = "none" BY <2>1 DEF OrderInv
  <2> QED BY <2>1, <2>2 DEF TypeOK, Entering
<1>3. ASSUME NEW r \in Requests,
             \/ HandleRequestProof(r) \/ MarkReceived(r) \/ Judge(r)
             \/ WriteBase(r) \/ WriteNode(r) \/ MarkAnswered(r)
      PROVE  Goal(q)
  <2>1. /\ pc[r] \in {"asked", "kept", "marked", "judged", "written", "recorded"}
        /\ pc'[r] \in {"replied", "marked", "judged", "written", "recorded", "done"}
        /\ q # r => pc'[q] = pc[q] /\ job'[q] = job[q]
    BY <1>3 DEF TypeOK, HandleRequestProof, MarkReceived, Judge, WriteBase, WriteNode,
       MarkAnswered
  <2> QED BY <2>1 DEF Entering
<1>4. ASSUME NEW n \in Nodes, NEW c \in Cids, IndexStep(n, c)
      PROVE  Goal(q)
  BY <1>4 DEF IndexStep, BeginIndex, SaveRefs, AbandonIndex, exchange
<1>5. CASE Tick BY <1>5 DEF Tick, exchange
<1>6. CASE Restart BY <1>6 DEF Restart, TypeOK, Entering, Handling
<1>7. CASE UNCHANGED vars BY <1>7 DEF vars
<1> QED
  BY <1>1, <1>2, <1>3, <1>4, <1>5, <1>6, <1>7 DEF Next, RequesterStep, HandlerStep

\* Every step keeps the two, if handlers read and write one at a time.
LEMMA FastestStep ==
  ASSUME TypeOK, SoundInv, OrderInv, ReadIsFresh, BestIsHeld, OneAtATime, [Next]_vars
  PROVE  (ReadIsFresh /\ BestIsHeld)'
<1> USE RequestAssumption
<1>1. /\ \A s \in Seeds : fastest[s] \in Nat /\ best[s] \in Nat /\ age[s] \in Nat
      /\ \A r \in Requests : /\ SeedOf[r] \in Seeds
                             /\ job[r].elapsed \in Nat /\ job[r].existing \in Nat
  BY LimitAssumption DEF TypeOK, Times, TooLong
<1>2. ASSUME NEW r \in Requests, ReceiveProof(r) PROVE (ReadIsFresh /\ BestIsHeld)'
  <2>1. /\ pc[r] = "replied" /\ pc'[r] = "measured" /\ fastest' = fastest
        /\ job'[r].elapsed = age[SeedOf[r]]
        /\ best'[SeedOf[r]] \in {best[SeedOf[r]], age[SeedOf[r]]}
        /\ \A s \in Seeds : s # SeedOf[r] => best'[s] = best[s]
        /\ \A q \in Requests : q # r => pc'[q] = pc[q] /\ job'[q] = job[q]
    BY <1>1, <1>2 DEF ReceiveProof, TypeOK, records
  <2>2. ReadIsFresh' BY <2>1 DEF ReadIsFresh
  <2>3. ASSUME NEW s \in Seeds PROVE Held(s)'
    <3>1. CASE s = SeedOf[r] /\ best'[s] = age[s] BY <2>1, <3>1 DEF Held, Entering
    <3>2. CASE best'[s] = best[s]
      <4>1. Held(s) BY DEF BestIsHeld
      <4> QED BY <2>1, <3>2, <4>1 DEF Held, Entering
    <3> QED BY <2>1, <3>1, <3>2
  <2> QED BY <2>2, <2>3 DEF BestIsHeld
<1>3. ASSUME NEW r \in Requests, ReadFastest(r) PROVE (ReadIsFresh /\ BestIsHeld)'
  <2>1. /\ pc[r] = "measured" /\ pc'[r] = "compared" /\ fastest' = fastest /\ best' = best
        /\ job'[r].elapsed = job[r].elapsed /\ job'[r].existing = fastest[SeedOf[r]]
        /\ \A q \in Requests : q # r => pc'[q] = pc[q] /\ job'[q] = job[q]
    BY <1>3 DEF ReadFastest, TypeOK, records
  <2>2. ReadIsFresh' BY <1>3, <2>1 DEF ReadIsFresh, OneAtATime
  <2>3. ASSUME NEW s \in Seeds PROVE Held(s)'
    <3>1. Held(s) BY DEF BestIsHeld
    <3> QED BY <2>1, <3>1 DEF Held, Entering
  <2> QED BY <2>2, <2>3 DEF BestIsHeld
<1>4. ASSUME NEW r \in Requests, KeepFastest(r) PROVE (ReadIsFresh /\ BestIsHeld)'
  <2> DEFINE s == SeedOf[r]
  <2>1. /\ pc[r] = "compared" /\ pc'[r] = "kept" /\ best' = best
        /\ \A q \in Requests : q # r => pc'[q] = pc[q] /\ job'[q] = job[q]
        /\ \A u \in Seeds : u # s => fastest'[u] = fastest[u]
        /\ \/ /\ job[r].existing = 0 \/ job[r].elapsed < job[r].existing
              /\ fastest'[s] = job[r].elapsed
           \/ /\ job[r].existing # 0 /\ job[r].elapsed >= job[r].existing
              /\ fastest'[s] = fastest[s]
    BY <1>4 DEF KeepFastest, TypeOK
  <2>2. /\ job[r].existing = fastest[s]
        /\ \A q \in Requests : q # r /\ SeedOf[q] = s => pc[q] # "compared"
    BY <2>1 DEF ReadIsFresh
  <2>3. ReadIsFresh' BY <1>1, <2>1, <2>2 DEF ReadIsFresh
  <2>4. /\ fastest[s] # 0 => best[s] # 0 /\ best[s] <= fastest[s]
        /\ job[r].elapsed # 0 /\ best[s] # 0 /\ best[s] <= job[r].elapsed
    BY <2>1 DEF SoundInv, RecordsMeasured, JobsMeasured, Measured
  <2>5. best[s] \in {fastest[s], job[r].elapsed} => fastest'[s] = best[s]
    BY <1>1, <2>1, <2>2, <2>4
  <2>6. ASSUME NEW u \in Seeds PROVE Held(u)'
    <3>1. Held(u) BY DEF BestIsHeld
    <3>2. CASE \E q \in Requests : SeedOf[q] = u /\ pc[q] = "dropped"
      BY <2>1, <3>2 DEF Held
    <3>3. CASE \E q \in Requests : SeedOf[q] = u /\ q # r /\ Entering(q) /\ job[q].elapsed = best[u]
      BY <2>1, <3>3 DEF Held, Entering
    <3>4. CASE u = s /\ best[s] \in {fastest[s], job[r].elapsed}
      BY <2>1, <2>5, <3>4 DEF Held
    <3>5. CASE u # s /\ fastest[u] = best[u] BY <2>1, <3>5 DEF Held
    <3> QED BY <3>1, <3>2, <3>3, <3>4, <3>5 DEF Held
  <2> QED BY <2>3, <2>6 DEF BestIsHeld
<1>5. ASSUME \A r \in Requests : ~ReceiveProof(r) /\ ~ReadFastest(r) /\ ~KeepFastest(r)
      PROVE  (ReadIsFresh /\ BestIsHeld)'
  <2>1. /\ UNCHANGED <<fastest, best>>
        /\ \A q \in Requests : \/ pc'[q] = pc[q] /\ (Entering(q) => job'[q] = job[q])
                               \/ pc'[q] = "dropped"
                               \/ ~Entering(q) /\ ~Entering(q)' /\ pc[q] # "dropped"
    BY <1>5, TimeStep
  <2>2. ReadIsFresh' BY <2>1 DEF ReadIsFresh, Entering
  <2>3. ASSUME NEW s \in Seeds PROVE Held(s)'
    <3>1. Held(s) BY DEF BestIsHeld
    <3>2. CASE fastest[s] = best[s] BY <2>1, <3>2 DEF Held
    <3>3. ASSUME NEW q \in Requests, SeedOf[q] = s, Entering(q), job[q].elapsed = best[s]
          PROVE  Held(s)'
      BY <2>1, <3>3 DEF Held, Entering
    <3>4. ASSUME NEW q \in Requests, SeedOf[q] = s, pc[q] = "dropped" PROVE Held(s)'
      BY <2>1, <3>4 DEF Held
    <3> QED BY <3>1, <3>2, <3>3, <3>4 DEF Held
  <2> QED BY <2>2, <2>3 DEF BestIsHeld
<1> QED BY <1>2, <1>3, <1>4, <1>5

\* The fastest time is kept, as proofs.go:42 has it, as long as no two handlers
\* of a seed come between each other's read and write of it: that is all the run
\* "fastest" rests on, whatever else interleaves, and restarts included.
THEOREM FastestUnlessInterleaved ==
  Spec /\ [][OneAtATime]_vars => []FastestTimeKept
<1>1. Init => ReadIsFresh /\ BestIsHeld
  <2> SUFFICES ASSUME Init PROVE ReadIsFresh /\ BestIsHeld OBVIOUS
  <2>1. ReadIsFresh BY DEF Init, ReadIsFresh
  <2>2. BestIsHeld BY DEF Init, BestIsHeld, Held
  <2> QED BY <2>1, <2>2
<1>2. /\ TypeOK /\ SoundInv /\ OrderInv /\ ReadIsFresh /\ BestIsHeld
      /\ [Next]_vars /\ [OneAtATime]_vars
      => (ReadIsFresh /\ BestIsHeld)'
  <2>1. ASSUME ReadIsFresh, BestIsHeld, UNCHANGED vars PROVE (ReadIsFresh /\ BestIsHeld)'
    BY <2>1 DEF vars, exchange, records, ReadIsFresh, BestIsHeld, Held, Entering
  <2> QED BY <2>1, FastestStep
<1>3. BestIsHeld => FastestTimeKept
  <2> SUFFICES ASSUME BestIsHeld, NEW s \in Seeds,
                      \A r \in Requests : SeedOf[r] = s =>
                        pc[r] \notin {"measured", "compared", "dropped"}
               PROVE  fastest[s] = best[s]
    BY DEF FastestTimeKept
  <2>1. Held(s) BY DEF BestIsHeld
  <2> QED BY <2>1 DEF Held, Entering
<1> QED BY <1>1, <1>2, <1>3, TypeCorrect, SoundInvariant, OrderInvariant, PTL DEF Spec
=============================================================================
