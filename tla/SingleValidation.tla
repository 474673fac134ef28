-------------------------- MODULE SingleValidation --------------------------
(***************************************************************************)
(* The API side of single validations (processSingleValidation,            *)
(* src/api/handlers.go, and waitForProofStatus, src/api/validation.go):    *)
(* for each request the goroutine that serves the client's WebSocket, and  *)
(* the two it starts, one that announces the answer and one that looks for *)
(* the verdict every ten seconds.  They see the exchange through the flags *)
(* ProofRequest and ProofRequestStatus, which are kept by seed and never   *)
(* taken back.                                                             *)
(***************************************************************************)
EXTENDS ProofExchange

VARIABLES
  main,         \* the goroutine serving each request's client
  announcer,    \* validation.go:149, whether it runs
  watcher,      \* validation.go:167
  done,         \* whether the channel proofDone is closed
  replies       \* the replies each client has been sent, after "Waiting Proof"

waiters == <<main, announcer, watcher, done, replies>>
svars == <<vars, waiters>>

SInit == /\ Init
         /\ main = [r \in Requests |-> "off"]
         /\ announcer = [r \in Requests |-> FALSE]
         /\ watcher = [r \in Requests |-> "off"]
         /\ done = [r \in Requests |-> FALSE]
         /\ replies = [r \in Requests |-> {}]

\* waitForProofStatus starts its two goroutines and waits for the channel.
BeginWait(r) ==
  /\ phase[r] = "timed"
  /\ main[r] = "off"
  /\ main' = [main EXCEPT ![r] = "waiting"]
  /\ announcer' = [announcer EXCEPT ![r] = TRUE]
  /\ watcher' = [watcher EXCEPT ![r] = "ticking"]
  /\ UNCHANGED <<vars, done, replies>>

\* "ProofReceived" and "Validating"; a write after the connection is closed
\* reaches nobody.
Announce(r) ==
  /\ announcer[r]
  /\ received[SeedOf[r]]
  /\ announcer' = [announcer EXCEPT ![r] = FALSE]
  /\ replies' = [replies EXCEPT ![r] =
                   IF main[r] = "waiting" THEN @ \cup {"ProofReceived"} ELSE @]
  /\ UNCHANGED <<vars, main, watcher, done>>

\* A wrong SeeAnswer, which looks at the flag of the answer's arrival.
SeeAnswerReceived(r) ==
  /\ watcher[r] = "ticking"
  /\ received[SeedOf[r]]
  /\ watcher' = [watcher EXCEPT ![r] = "seen"]
  /\ UNCHANGED <<vars, main, announcer, done, replies>>

\* A tick finds the flag set (lines 169-174) ...
SeeAnswer(r) ==
  /\ watcher[r] = "ticking"
  /\ answered[SeedOf[r]]
  /\ watcher' = [watcher EXCEPT ![r] = "seen"]
  /\ UNCHANGED <<vars, main, announcer, done, replies>>

\* A wrong Tell, which leaves the channel open.
TellWithoutClose(r) ==
  /\ watcher[r] = "seen"
  /\ watcher' = [watcher EXCEPT ![r] = "ended"]
  /\ replies' = [replies EXCEPT ![r] = @ \cup {status[SeedOf[r]]}]
  /\ UNCHANGED <<vars, main, announcer, done>>

\* ... then the record is read again and sent, and the channel closed.
Tell(r) ==
  /\ watcher[r] = "seen"
  /\ watcher' = [watcher EXCEPT ![r] = "ended"]
  /\ replies' = [replies EXCEPT ![r] = @ \cup {status[SeedOf[r]]}]
  /\ done' = [done EXCEPT ![r] = TRUE]
  /\ UNCHANGED <<vars, main, announcer>>

\* waitForProofStatus wakes and returns, and its deferred close(proofDone)
\* runs: closing a closed channel panics, the reply with context is skipped,
\* and the server closes the connection (handlers.go:150, 207-218).
Return(r) ==
  /\ main[r] = "waiting"
  /\ done[r]
  /\ main' = [main EXCEPT ![r] = "closed"]
  /\ LET panics == done[r]
         failed == status[SeedOf[r]] = "Pending"      \* validation.go:200
     IN  replies' = [replies EXCEPT ![r] =
                       IF panics \/ failed THEN @ ELSE @ \cup {"context"}]
  /\ UNCHANGED <<vars, announcer, watcher, done>>

\* A restart of the validator ends every goroutine and every connection.
SRestart ==
  /\ Restart
  /\ main' = [r \in Requests |-> IF main[r] = "waiting" THEN "gone" ELSE main[r]]
  /\ announcer' = [r \in Requests |-> FALSE]
  /\ watcher' = [r \in Requests |-> IF watcher[r] = "off" THEN "off" ELSE "ended"]
  /\ UNCHANGED <<done, replies>>

ExchangeStep ==
  /\ \/ \E r \in Requests :
          RequesterStep(r) \/ HandleRequestProof(r) \/ ReceiveProof(r) \/ HandlerStep(r)
     \/ \E n \in Nodes, c \in Cids : IndexStep(n, c)
     \/ Tick
  /\ UNCHANGED waiters

WaiterStep(r) == Announce(r) \/ SeeAnswer(r) \/ Tell(r) \/ Return(r)

SNext == \/ ExchangeStep
         \/ \E r \in Requests : BeginWait(r) \/ WaiterStep(r)
         \/ SRestart

\* Runnable goroutines run: the answer's handler and the client's three.
SFairness == \A r \in Requests :
  /\ WF_svars(HandlerStep(r) /\ UNCHANGED waiters)
  /\ WF_svars(Announce(r))
  /\ WF_svars(SeeAnswer(r) \/ Tell(r))
  /\ WF_svars(Return(r))

SSpec == SInit /\ [][SNext]_svars /\ SFairness

-----------------------------------------------------------------------------
STypeOK ==
  /\ TypeOK
  /\ main \in [Requests -> {"off", "waiting", "closed", "gone"}]
  /\ announcer \in [Requests -> BOOLEAN]
  /\ watcher \in [Requests -> {"off", "ticking", "seen", "ended"}]
  /\ done \in [Requests -> BOOLEAN]
  /\ replies \in [Requests -> SUBSET {"ProofReceived", "Pending", "Valid",
                                      "Invalid", "context"}]

Told(r) == replies[r] \cap {"Pending", "Valid", "Invalid"}
Alone(r) == \A q \in Requests \ {r} : SeedOf[q] = SeedOf[r] => phase[q] = "new"

\* The verdict a client is told, as long as no other request has used its
\* seed, is the one on record, and stays it: the watcher reads the record
\* only after the flag (validation.go:171-175), and the flag is set only after
\* the record (proofs.go:68-96).  After a retry the flag may be left over from
\* the first answer, and a client may be told "Pending".
ToldIsOnRecord ==
  \A r \in Requests : Alone(r) => Told(r) \subseteq {status[SeedOf[r]]} \ {"Pending"}

\* A client is told Valid only for a file both nodes had a list of, over which
\* their walks can come out the same, and in time, whoever else uses the seed.
ToldValidIsSound ==
  \A r \in Requests : "Valid" \in Told(r) =>
    Agrees(SeedOf[r]) /\ best[SeedOf[r]] \in 1 .. ProofLimit

\* A client whose node's answer is being handled is told a status in the
\* end, and its connection is closed, unless the validator restarts first.
AnsweredClientIsTold ==
  \A r \in Requests :
    (main[r] = "waiting" /\ pc[r] \in Handling)
      ~> (main[r] = "gone" \/ (main[r] = "closed" /\ Told(r) # {}))

\* "If successful, it sends a WebSocket message containing the validation
\* status, name, and elapsed time to the client" (API.md:20): a connection
\* closed after the verdict was told has had the reply that carries the name
\* (handlers.go:213-215).
ContextReplySent ==
  \A r \in Requests :
    main[r] = "closed" /\ Told(r) \cap {"Valid", "Invalid"} # {}
      => "context" \in replies[r]
=============================================================================
