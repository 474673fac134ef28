--------------------------- MODULE BatchValidation ---------------------------
(***************************************************************************)
(* One batch of validations (handleBatchValidation, src/api/handlers.go):  *)
(* the items are asked one after the other, each waited for by polling its *)
(* record until it has a verdict or ten seconds are over, and one reply    *)
(* carries all results.  The answer to an item given up may still arrive   *)
(* while a later item is waited for.  The requests are those of the batch. *)
(***************************************************************************)
EXTENDS ProofExchange, Sequences

CONSTANTS Batch,        \* the items of the batch, a sequence of requests
          PollLimit     \* units until an item is given up (validationTimeout)

ASSUME BatchAssumption ==
  Batch \in Seq(Requests) /\ Requests = {Batch[i] : i \in DOMAIN Batch}
ASSUME PollAssumption == PollLimit \in Nat \ {0}

VARIABLES
  conn,         \* "working", "replied" or "gone"
  item,         \* the item in hand
  polling,      \* whether it is being waited for
  timer,        \* units waited for it
  results       \* the results so far

batch == <<conn, item, polling, timer, results>>
bvars == <<vars, batch>>

BInit == /\ Init
         /\ conn = "working"
         /\ item = 1
         /\ polling = FALSE
         /\ timer = 0
         /\ results = <<>>

InHand(r) == conn = "working" /\ item <= Len(Batch) /\ Batch[item] = r

\* A wrong Enter, which stays with the item.
EnterAndStay(result) == /\ results' = Append(results, result)
                        /\ polling' = FALSE
                        /\ timer' = 0
                        /\ UNCHANGED <<conn, item>>

\* The result of the item in hand is entered and the next item taken.
Enter(result) == /\ results' = Append(results, result)
                 /\ item' = item + 1
                 /\ polling' = FALSE
                 /\ timer' = 0
                 /\ UNCHANGED conn

AskItem(r) == /\ InHand(r)
              /\ CreateProofRequest(r) \/ SendProofRequest(r)
              /\ UNCHANGED batch

\* Lines 294-305.
ItemNotSent(r) == InHand(r) /\ SendFails(r) /\ Enter("Invalid")

\* Lines 307-312.
BeginPoll(r) == /\ InHand(r)
                /\ SaveTime(r)
                /\ polling' = TRUE
                /\ UNCHANGED <<conn, item, timer, results>>

\* A wrong PollItem, which takes whatever is not invalid for valid.
PollItemEager ==
  /\ conn = "working" /\ polling
  /\ Enter(IF status[SeedOf[Batch[item]]] = "Invalid" THEN "Invalid" ELSE "Valid")
  /\ UNCHANGED vars

\* Lines 330-363: whatever is neither pending nor valid counts as invalid.
\* The record may be read after the time is over, when the select was before.
PollItem == /\ conn = "working" /\ polling
            /\ status[SeedOf[Batch[item]]] # "Pending"
            /\ Enter(IF status[SeedOf[Batch[item]]] = "Valid" THEN "Valid" ELSE "Invalid")
            /\ UNCHANGED vars

\* A wrong GiveUpItem, which leaves the select and not the loop.
GiveUpItemAndPoll == /\ conn = "working" /\ polling
                     /\ timer >= PollLimit
                     /\ timer' = 0
                     /\ UNCHANGED <<vars, conn, item, polling, results>>

\* Lines 318-329.
GiveUpItem == /\ conn = "working" /\ polling
              /\ timer >= PollLimit
              /\ Enter("Invalid")
              /\ UNCHANGED vars

\* Lines 372-378.
SendBatch == /\ conn = "working"
             /\ item > Len(Batch)
             /\ conn' = "replied"
             /\ UNCHANGED <<vars, item, polling, timer, results>>

BTick == /\ Tick
         /\ timer' = IF polling /\ timer < PollLimit THEN timer + 1 ELSE timer
         /\ UNCHANGED <<conn, item, polling, results>>

BRestart == /\ Restart
            /\ conn' = IF conn = "working" THEN "gone" ELSE conn
            /\ UNCHANGED <<item, polling, timer, results>>

OtherSteps == /\ \/ \E r \in Requests :
                      HandleRequestProof(r) \/ ReceiveProof(r) \/ HandlerStep(r)
                 \/ \E n \in Nodes, c \in Cids : IndexStep(n, c)
              /\ UNCHANGED batch

BatchStep == \/ \E r \in Requests : AskItem(r) \/ ItemNotSent(r) \/ BeginPoll(r)
             \/ PollItem \/ GiveUpItem \/ SendBatch

BNext == BatchStep \/ BTick \/ BRestart \/ OtherSteps

\* The goroutine of the connection runs, and time passes.
BSpec == BInit /\ [][BNext]_bvars /\ WF_bvars(BatchStep) /\ WF_bvars(BTick)

-----------------------------------------------------------------------------
BTypeOK ==
  /\ TypeOK
  /\ conn \in {"working", "replied", "gone"}
  /\ item \in 1 .. Len(Batch) + 1
  /\ polling \in BOOLEAN
  /\ timer \in 0 .. PollLimit
  /\ results \in [1 .. item - 1 -> {"Valid", "Invalid"}]

SeedOfItem(i) == SeedOf[Batch[i]]

\* An item is reported valid only for a file both nodes had a list of, over
\* which their walks can come out the same, and in time, whatever late answers
\* to earlier items arrive meanwhile.
ValidResultIsSound ==
  \A i \in DOMAIN results : results[i] = "Valid" =>
    Agrees(SeedOfItem(i)) /\ best[SeedOfItem(i)] \in 1 .. ProofLimit

\* A result of Valid is never contradicted by the record later, as long as no
\* other request uses the item's seed: the reply of a batch, sent after all
\* its items are done, is still true of the first one.
ValidResultStands ==
  \A i \in DOMAIN results :
    /\ results[i] = "Valid"
    /\ \A q \in Requests \ {Batch[i]} : SeedOf[q] = SeedOfItem(i) => phase[q] = "new"
    => status[SeedOfItem(i)] = "Valid"

\* A batch is answered in the end, although none of its nodes need answer
\* and any of its requests may fail to be sent, unless the validator stops.
BatchEnds == conn = "working" ~> conn \in {"replied", "gone"}
=============================================================================
