---------------------------- MODULE ProofExchange ----------------------------
(***************************************************************************)
(* One proof of access, end to end.  A validator records a request as      *)
(* pending, sends the storage node a RequestProof message, records the     *)
(* start time (src/api/validation.go); the node answers with a hash over   *)
(* the blocks its database lists for the file, and the validator's handler *)
(* goroutine measures the time, hashes the blocks its own database lists,  *)
(* compares, and records a verdict (src/messaging/proofs.go).              *)
(*                                                                         *)
(* Each answer is handled by a goroutine of its own (messaging.go:73), so  *)
(* the steps of several handlers interleave freely.  Two requests share a  *)
(* seed when a client retries with the SALT it used before: the seed is    *)
(* SALT + CID + Name (handlers.go:194), so it determines the file and the  *)
(* storage node.                                                           *)
(*                                                                         *)
(* A message is delivered at most once, at any later time or never.  Time  *)
(* is counted in units; ProofLimit of them make the 25 seconds of          *)
(* proofs.go:82.                                                           *)
(***************************************************************************)
EXTENDS Integers, FiniteSets

CONSTANTS
  Requests,     \* validation requests, one per handleValidate message
  Seeds,        \* seeds (salts)
  Cids,         \* files
  Nodes,        \* the validator and the storage nodes
  Validator,    \* the validating node
  SeedOf,       \* the seed of each request
  CidOf,        \* the file of each seed
  PeerOf,       \* the storage node each seed is sent to
  Lists,        \* the block lists Shell.Refs may yield, the empty one included
  NoList,       \* stands for "no record in the database"
  Texts,        \* seed -> list -> what a walk over the list may leave to hash
  NoHash,       \* the empty answer of a node without a list
  Indexers,     \* BOUND: goroutines of a node that may index one file at once
  ProofLimit    \* the time limit of an answer, in units

ASSUME NodeAssumption == /\ Validator \in Nodes
                         /\ PeerOf \in [Seeds -> Nodes]
                         /\ CidOf \in [Seeds -> Cids]
ASSUME RequestAssumption == SeedOf \in [Requests -> Seeds]
ASSUME ListAssumption == NoList \notin Lists
ASSUME TextAssumption ==
  \A s \in Seeds, l \in Lists : Texts[s][l] # {} /\ NoHash \notin Texts[s][l]
ASSUME LimitAssumption == ProofLimit \in Nat \ {0}
ASSUME IndexerAssumption == Indexers \in [Nodes -> Nat]

VARIABLES
  phase,        \* the requester of each request (an API goroutine)
  pc,           \* how far the exchange of each request has come
  job,          \* the locals of the handler of each request's answer
  refs,         \* node -> file -> the list under "refs"+CID in its database
  indexing,     \* node -> file -> goroutines between their check and save
  age,          \* seed -> units since its start time record
  fastest,      \* seed -> its elapsed-time record, 0 when there is none
  status,       \* seed -> the status of the record "Stats"+seed
  nodeStatus,   \* seed -> the status of the record "Stats"+seed+":"+name
  received,     \* seed -> messaging.ProofRequest
  answered,     \* seed -> messaging.ProofRequestStatus
  \* History, read by properties only.
  best,         \* seed -> the shortest time any handler measured, 0 if none
  listed        \* node -> file -> every list its database ever held

exchange == <<pc, job>>
indexes == <<refs, indexing, listed>>
records == <<age, fastest, status, nodeStatus>>
flags == <<received, answered>>
vars == <<phase, pc, job, indexes, records, flags, best>>

-----------------------------------------------------------------------------
TooLong == ProofLimit + 1           \* every elapsed time of 25s and more
Times == 1 .. TooLong

\* A wrong TooSlow, which lets one unit too many pass.
LenientTooSlow(elapsed) == elapsed > ProofLimit + 1

TooSlow(elapsed) == elapsed > ProofLimit

\* A proof hash, by the text that is hashed (validation.go:50-68): what was
\* read of the blocks the seed chooses, and nothing else of the list.  A block
\* that cannot be downloaded enters as the text of a nil buffer
\* (validation.go:25).  Two lists, or two outcomes of the downloads, may leave
\* the same text, and then the hashes are equal; SHA-256 itself does not
\* collide.
Hashes == {NoHash} \cup UNION {Texts[s][l] : s \in Seeds, l \in Lists}

\* CreatProofHash of a node for a seed, whichever blocks it manages to read.
ProofHashes(n, s) ==
  IF refs[n][CidOf[s]] = NoList THEN {NoHash} ELSE Texts[s][refs[n][CidOf[s]]]

Reasons == {"noHash", "noRefs", "mismatch", "slow", "match"}
NoJob == [hash |-> NoHash, elapsed |-> 0, existing |-> 0, reason |-> "noHash"]

Ages(t) == IF t < TooLong THEN t + 1 ELSE TooLong

Init ==
  /\ phase = [r \in Requests |-> "new"]
  /\ pc = [r \in Requests |-> "none"]
  /\ job = [r \in Requests |-> NoJob]
  /\ refs = [n \in Nodes |-> [c \in Cids |-> NoList]]
  /\ indexing = [n \in Nodes |-> [c \in Cids |-> 0]]
  /\ listed = [n \in Nodes |-> [c \in Cids |-> {}]]
  /\ age = [s \in Seeds |-> TooLong]       \* no record reads as year 1
  /\ fastest = [s \in Seeds |-> 0]
  /\ status = [s \in Seeds |-> "none"]
  /\ nodeStatus = [s \in Seeds |-> "none"]
  /\ received = [s \in Seeds |-> FALSE]
  /\ answered = [s \in Seeds |-> FALSE]
  /\ best = [s \in Seeds |-> 0]

-----------------------------------------------------------------------------
(* The requester: processSingleValidation and handleBatchValidation.       *)

CreateProofRequest(r) ==
  /\ phase[r] = "new"
  /\ phase' = [phase EXCEPT ![r] = "created"]
  /\ status' = [status EXCEPT ![SeedOf[r]] = "Pending"]
  /\ UNCHANGED <<exchange, indexes, age, fastest, nodeStatus, flags, best>>

SendProofRequest(r) ==
  /\ phase[r] = "created"
  /\ phase' = [phase EXCEPT ![r] = "sent"]
  /\ pc' = [pc EXCEPT ![r] = "asked"]
  /\ UNCHANGED <<job, indexes, records, flags, best>>

\* The publish fails, or there is no connection to write to.
SendFails(r) ==
  /\ phase[r] = "created"
  /\ phase' = [phase EXCEPT ![r] = "failed"]
  /\ UNCHANGED <<exchange, indexes, records, flags, best>>

\* localdata.SaveTime, which the code calls after the message has left.
SaveTime(r) ==
  /\ phase[r] = "sent"
  /\ phase' = [phase EXCEPT ![r] = "timed"]
  /\ age' = [age EXCEPT ![SeedOf[r]] = 1]
  /\ UNCHANGED <<exchange, indexes, fastest, status, nodeStatus, flags, best>>

-----------------------------------------------------------------------------
(* The storage node: HandleRequestProof, and the block lists of any node.  *)

HandleRequestProof(r) ==
  /\ pc[r] = "asked"
  /\ pc' = [pc EXCEPT ![r] = "replied"]
  /\ \E h \in ProofHashes(PeerOf[SeedOf[r]], SeedOf[r]) :
       job' = [job EXCEPT ![r].hash = h]
  /\ UNCHANGED <<phase, indexes, records, flags, best>>

\* An indexing goroutine (ipfs.SaveRefs or, on a storage node, FetchPins)
\* finds no record of the file and asks IPFS for its blocks ...
BeginIndex(n, c) ==
  /\ refs[n][c] = NoList
  /\ indexing[n][c] < Indexers[n]
  /\ indexing' = [indexing EXCEPT ![n][c] = @ + 1]
  /\ UNCHANGED <<phase, exchange, refs, listed, records, flags, best>>

\* ... and later saves what it got, without looking again, ...
SaveRefs(n, c) ==
  /\ indexing[n][c] > 0
  /\ indexing' = [indexing EXCEPT ![n][c] = @ - 1]
  /\ \E l \in Lists :
       /\ refs' = [refs EXCEPT ![n][c] = l]
       /\ listed' = [listed EXCEPT ![n][c] = @ \cup {l}]
  /\ UNCHANGED <<phase, exchange, records, flags, best>>

\* ... or gives up on an error of IPFS.
AbandonIndex(n, c) ==
  /\ indexing[n][c] > 0
  /\ indexing' = [indexing EXCEPT ![n][c] = @ - 1]
  /\ UNCHANGED <<phase, exchange, refs, listed, records, flags, best>>

-----------------------------------------------------------------------------
(* HandleProofOfAccess, one goroutine per answer, cut where it reads or     *)
(* writes something another goroutine writes.                               *)

\* A wrong ReceiveProof: an answer delivered again is handled again.
ReceiveProofAgain(r) ==
  LET s == SeedOf[r] IN
  /\ pc[r] \in {"replied", "done"}
  /\ pc' = [pc EXCEPT ![r] = "measured"]
  /\ job' = [job EXCEPT ![r].elapsed = age[s]]
  /\ best' = [best EXCEPT ![s] = IF @ = 0 \/ age[s] < @ THEN age[s] ELSE @]
  /\ UNCHANGED <<phase, indexes, records, flags>>

\* Lines 36-39: the start time record is read and the time measured.
ReceiveProof(r) ==
  LET s == SeedOf[r] IN
  /\ pc[r] = "replied"
  /\ pc' = [pc EXCEPT ![r] = "measured"]
  /\ job' = [job EXCEPT ![r].elapsed = age[s]]
  /\ best' = [best EXCEPT ![s] = IF @ = 0 \/ age[s] < @ THEN age[s] ELSE @]
  /\ UNCHANGED <<phase, indexes, records, flags>>

\* Line 44.
ReadFastest(r) ==
  /\ pc[r] = "measured"
  /\ pc' = [pc EXCEPT ![r] = "compared"]
  /\ job' = [job EXCEPT ![r].existing = fastest[SeedOf[r]]]
  /\ UNCHANGED <<phase, indexes, records, flags, best>>

\* Lines 45-51.
KeepFastest(r) ==
  /\ pc[r] = "compared"
  /\ pc' = [pc EXCEPT ![r] = "kept"]
  /\ \/ /\ job[r].existing = 0 \/ job[r].elapsed < job[r].existing
        /\ fastest' = [fastest EXCEPT ![SeedOf[r]] = job[r].elapsed]
        /\ UNCHANGED job
     \/ /\ job[r].existing # 0 /\ job[r].elapsed >= job[r].existing
        /\ job' = [job EXCEPT ![r].elapsed = job[r].existing]
        /\ UNCHANGED fastest
  /\ UNCHANGED <<phase, indexes, age, status, nodeStatus, flags, best>>

\* Lines 54-64.  The request record is always there, and names this seed.
MarkReceived(r) ==
  /\ pc[r] = "kept"
  /\ pc' = [pc EXCEPT ![r] = "marked"]
  /\ received' = [received EXCEPT ![SeedOf[r]] = TRUE]
  /\ UNCHANGED <<phase, job, indexes, records, answered, best>>

\* A wrong Reason, which lets two nodes without a list agree.
ReasonWithoutNoHash(theirs, mine, elapsed) ==
  CASE mine # theirs -> "mismatch"
    [] mine = theirs /\ TooSlow(elapsed) -> "slow"
    [] mine = theirs /\ ~TooSlow(elapsed) -> "match"

\* Lines 68-94, the order of the checks.
Reason(theirs, mine, elapsed) ==
  CASE theirs = NoHash -> "noHash"
    [] theirs # NoHash /\ mine = NoHash -> "noRefs"
    [] theirs # NoHash /\ mine # NoHash /\ mine # theirs -> "mismatch"
    [] theirs # NoHash /\ mine = theirs /\ TooSlow(elapsed) -> "slow"
    [] theirs # NoHash /\ mine = theirs /\ ~TooSlow(elapsed) -> "match"

\* Lines 68-94: the validator hashes the file itself and decides.
Judge(r) ==
  /\ pc[r] = "marked"
  /\ pc' = [pc EXCEPT ![r] = "judged"]
  /\ \E mine \in ProofHashes(Validator, SeedOf[r]) :
       job' = [job EXCEPT ![r] =
                 [NoJob EXCEPT !.reason = Reason(job[r].hash, mine, job[r].elapsed)]]
  /\ UNCHANGED <<phase, indexes, records, flags, best>>

\* A wrong VerdictOf: the reason is recorded in place of the verdict.
ReasonAsVerdict(reason) == IF reason = "match" THEN "Valid" ELSE reason

VerdictOf(reason) == IF reason = "match" THEN "Valid" ELSE "Invalid"

\* A wrong WriteBase, which leaves the seed's record to the node's.
WriteBaseSkipped(r) ==
  /\ pc[r] = "judged"
  /\ pc' = [pc EXCEPT ![r] = "written"]
  /\ UNCHANGED <<phase, job, indexes, records, flags, best>>

\* localdata.SetStatus writes the seed's record (localdata.go:177) ...
WriteBase(r) ==
  LET s == SeedOf[r] IN
  /\ pc[r] = "judged"
  /\ pc' = [pc EXCEPT ![r] = "written"]
  /\ status' = [status EXCEPT ![s] = VerdictOf(job[r].reason)]
  /\ UNCHANGED <<phase, job, indexes, age, fastest, nodeStatus, flags, best>>

\* ... and then, separately, the node's (localdata.go:181).
WriteNode(r) ==
  /\ pc[r] = "written"
  /\ pc' = [pc EXCEPT ![r] = "recorded"]
  /\ nodeStatus' = [nodeStatus EXCEPT ![SeedOf[r]] = VerdictOf(job[r].reason)]
  /\ UNCHANGED <<phase, job, indexes, age, fastest, status, flags, best>>

\* A wrong MarkAnswered, skipped by an early return on every failed check.
MarkAnsweredIfValid(r) ==
  /\ pc[r] = "recorded"
  /\ pc' = [pc EXCEPT ![r] = "done"]
  /\ job' = [job EXCEPT ![r] = NoJob]
  /\ answered' = [answered EXCEPT ![SeedOf[r]] = @ \/ job[r].reason = "match"]
  /\ UNCHANGED <<phase, indexes, records, received, best>>

\* Line 96; the flag is never taken back.
MarkAnswered(r) ==
  /\ pc[r] = "recorded"
  /\ pc' = [pc EXCEPT ![r] = "done"]
  /\ job' = [job EXCEPT ![r] = NoJob]
  /\ answered' = [answered EXCEPT ![SeedOf[r]] = TRUE]
  /\ UNCHANGED <<phase, indexes, records, received, best>>

HandlerStep(r) ==
  \/ ReadFastest(r) \/ KeepFastest(r) \/ MarkReceived(r) \/ Judge(r)
  \/ WriteBase(r) \/ WriteNode(r) \/ MarkAnswered(r)

-----------------------------------------------------------------------------
Tick ==
  /\ age' = [s \in Seeds |-> Ages(age[s])]
  /\ UNCHANGED <<phase, exchange, indexes, fastest, status, nodeStatus, flags, best>>

Handling == {"measured", "compared", "kept", "marked", "judged", "written", "recorded"}

\* The validator process stops and starts again: its database stays, its
\* goroutines and the two flag maps are gone.
Restart ==
  /\ phase' = [r \in Requests |->
                 IF phase[r] \in {"created", "sent", "timed"} THEN "lost" ELSE phase[r]]
  /\ pc' = [r \in Requests |-> IF pc[r] \in Handling THEN "dropped" ELSE pc[r]]
  /\ job' = [r \in Requests |-> IF pc[r] \in Handling THEN NoJob ELSE job[r]]
  /\ received' = [s \in Seeds |-> FALSE]
  /\ answered' = [s \in Seeds |-> FALSE]
  /\ indexing' = [indexing EXCEPT ![Validator] = [c \in Cids |-> 0]]
  /\ UNCHANGED <<refs, listed, records, best>>

RequesterStep(r) == CreateProofRequest(r) \/ SendProofRequest(r) \/ SendFails(r) \/ SaveTime(r)
IndexStep(n, c) == BeginIndex(n, c) \/ SaveRefs(n, c) \/ AbandonIndex(n, c)

Next ==
  \/ \E r \in Requests :
       RequesterStep(r) \/ HandleRequestProof(r) \/ ReceiveProof(r) \/ HandlerStep(r)
  \/ \E n \in Nodes, c \in Cids : IndexStep(n, c)
  \/ Tick
  \/ Restart

Spec == Init /\ [][Next]_vars

\* A goroutine that can run is run in the end.  Messages, clients, indexers
\* and restarts are owed nothing.
Fairness == \A r \in Requests : WF_vars(HandlerStep(r))
FairSpec == Spec /\ Fairness

-----------------------------------------------------------------------------
(* Properties.                                                             *)

\* Every variable has its type.
TypeOK ==
  /\ phase \in [Requests -> {"new", "created", "sent", "timed", "failed", "lost"}]
  /\ pc \in [Requests -> {"none", "asked", "replied", "done", "dropped"} \cup Handling]
  /\ job \in [Requests -> [hash : Hashes, elapsed : 0 .. TooLong,
                            existing : 0 .. TooLong, reason : Reasons]]
  /\ refs \in [Nodes -> [Cids -> Lists \cup {NoList}]]
  /\ indexing \in [Nodes -> [Cids -> Nat]]
  /\ listed \in [Nodes -> [Cids -> SUBSET Lists]]
  /\ age \in [Seeds -> Times]
  /\ fastest \in [Seeds -> 0 .. TooLong]
  /\ status \in [Seeds -> {"none", "Pending", "Valid", "Invalid"}]
  /\ nodeStatus \in [Seeds -> {"none", "Valid", "Invalid"}]
  /\ received \in [Seeds -> BOOLEAN]
  /\ answered \in [Seeds -> BOOLEAN]
  /\ best \in [Seeds -> 0 .. TooLong]

\* The node asked and the validator have each had a list of the file's
\* blocks over which the seed's walks can leave one and the same text.
Agrees(s) ==
  \E l1 \in listed[PeerOf[s]][CidOf[s]], l2 \in listed[Validator][CidOf[s]] :
    Texts[s][l1] \cap Texts[s][l2] # {}

\* A seed is recorded valid, in either record, only when the node asked and
\* the validator have each had a list of the file and their walks over the two
\* can come out the same: a node without a list answers NA, and another text
\* hashes differently (proofs.go:68-81), whatever the indexers and other
\* handlers do meanwhile.
ValidMeansSameText ==
  \A s \in Seeds : "Valid" \in {status[s], nodeStatus[s]} => Agrees(s)

\* A seed is recorded valid only when some answer of its node was measured
\* within the limit, although a handler may judge by a time that another
\* handler measured (proofs.go:44-51 and 82).
ValidWithinLimit ==
  \A s \in Seeds :
    "Valid" \in {status[s], nodeStatus[s]} => best[s] \in 1 .. ProofLimit

\* Where a request stands before the record of its seed has its verdict.
Unjudged == {"asked", "replied", "measured", "compared", "kept", "marked", "judged"}

\* A seed still recorded as pending has a request whose answer never came,
\* or has not been judged yet: the pollers of handlers.go:331 and
\* validation.go:201, who wait for anything but Pending, are never left
\* behind a judgement that was made.
PendingIsOwed ==
  \A s \in Seeds : status[s] = "Pending" =>
    \E r \in Requests : /\ SeedOf[r] = s
                        /\ phase[r] # "new"
                        /\ pc[r] \in Unjudged \cup {"none", "dropped"}

\* A client told that its proof was received (ProofRequest, proofs.go:63) is
\* in the end told it was judged (ProofRequestStatus, proofs.go:96), unless
\* the validator restarts and forgets both.
AnnouncedAnswerIsJudged ==
  \A s \in Seeds : received[s] ~> (answered[s] \/ ~received[s])

\* The exchange implements ProofVerdict: each request is judged at most once
\* and never valid when the two nodes' walks cannot come out the same.
Owed == {r \in Requests : phase[r] = "created" \/ pc[r] \in Unjudged}
Made == {r \in Requests : phase[r] # "new"}
Verdicts == INSTANCE ProofVerdict WITH
              verdict <- status, owed <- Owed, made <- Made,
              agree <- {s \in Seeds : Agrees(s)}
ImplementsVerdict == Verdicts!Spec

\* "Check if this node has already responded and keep the fastest time"
\* (proofs.go:42): once every answer measured has been entered, the time on
\* record is the shortest one measured.
FastestTimeKept ==
  \A s \in Seeds :
    (\A r \in Requests : SeedOf[r] = s => pc[r] \notin {"measured", "compared", "dropped"})
      => fastest[s] = best[s]
=============================================================================
