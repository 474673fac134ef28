--------------------------- MODULE ExchangeHistory ---------------------------
(***************************************************************************)
(* The proof exchange with a record of what really happened: how long ago  *)
(* each seed's first ask left, and what each verdict rests on.  Nothing in *)
(* the program reads these, so no step of it depends on them.              *)
(***************************************************************************)
EXTENDS ProofExchange

CONSTANT Unread     \* a block's place in a text when its download failed

VARIABLES
  waited,       \* seed -> units since its first ask left, 0 if none did
  held,         \* request -> the hash its answer was judged by
  why           \* seed -> the reason and the hash behind its last verdict

history == <<waited, held, why>>

HInit == /\ Init
         /\ waited = [s \in Seeds |-> 0]
         /\ held = [r \in Requests |-> NoHash]
         /\ why = [s \in Seeds |-> [reason |-> "noHash", hash |-> NoHash]]

AskLeaves(r) ==
  /\ SendProofRequest(r)
  /\ waited' = [waited EXCEPT ![SeedOf[r]] = IF @ = 0 THEN 1 ELSE @]
  /\ UNCHANGED <<held, why>>

AnswerJudged(r) ==
  /\ Judge(r)
  /\ held' = [held EXCEPT ![r] = job[r].hash]
  /\ UNCHANGED <<waited, why>>

VerdictWritten(r) ==
  /\ WriteBase(r)
  /\ why' = [why EXCEPT ![SeedOf[r]] = [reason |-> job[r].reason, hash |-> held[r]]]
  /\ UNCHANGED <<waited, held>>

TimePasses ==
  /\ Tick
  /\ waited' = [s \in Seeds |-> IF waited[s] = 0 THEN 0 ELSE Ages(waited[s])]
  /\ UNCHANGED <<held, why>>

OtherStep ==
  /\ \/ \E r \in Requests :
          \/ CreateProofRequest(r) \/ SendFails(r) \/ SaveTime(r)
          \/ HandleRequestProof(r) \/ ReceiveProof(r) \/ ReadFastest(r)
          \/ KeepFastest(r) \/ MarkReceived(r) \/ WriteNode(r) \/ MarkAnswered(r)
     \/ \E n \in Nodes, c \in Cids : IndexStep(n, c)
     \/ Restart
  /\ UNCHANGED history

HNext ==
  \/ \E r \in Requests : AskLeaves(r) \/ AnswerJudged(r) \/ VerdictWritten(r)
  \/ TimePasses
  \/ OtherStep

HSpec == HInit /\ [][HNext]_<<vars, history>>

-----------------------------------------------------------------------------
\* "Proof of access took too long (>25s)" (proofs.go:85): a seed judged
\* invalid for that reason has had its first ask out for longer than the
\* limit.
SlowMeansSlow ==
  \A s \in Seeds :
    status[s] = "Invalid" /\ why[s].reason = "slow" => waited[s] > ProofLimit

\* A text that covers a block, and one that misses none it was to cover.
ValidCoversABlock == \A s \in Seeds : status[s] = "Valid" => why[s].hash # <<>>
ValidMissesNoBlock ==
  \A s \in Seeds : status[s] = "Valid" =>
    \A k \in DOMAIN why[s].hash : why[s].hash[k] # Unread

\* "a mechanism used to validate that a storage node is storing a file"
\* (README.md:2): a node judged valid has read at least one block, and every
\* block its proof was to cover.
ValidMeansRead == ValidCoversABlock /\ ValidMissesNoBlock
=============================================================================
