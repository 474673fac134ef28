---------------------------- MODULE ValidatorLinks ----------------------------
(***************************************************************************)
(* The storage node's side of its connections to validators: the goroutine *)
(* per validator that dials and says hello (StartWsClient and              *)
(* connectAndListen, src/connection/connection.go), and a request that a   *)
(* client of the storage node sends to a validator (sendProofRequest,      *)
(* src/api/validation.go).  A name that WsValidators does not have reads   *)
(* as a nil connection; writing to it panics under localdata.Lock, and gin *)
(* recovers the handler but not the lock.                                  *)
(***************************************************************************)
EXTENDS LocalNode

CONSTANTS
  Validators,   \* the validators there are
  Names         \* the names a client may ask for

ASSUME ValidatorAssumption == Validators \subseteq Names

VARIABLES
  dialled,      \* validator -> the position of its goroutine
  WsValidators  \* the names with a connection, open or closed since

linkVars == <<dialled, WsValidators, stuck>>

LinkInit == /\ dialled = [v \in Validators |-> "off"]
            /\ WsValidators = {}

StartLinks(names) ==
  /\ dialled' = [v \in Validators |-> IF v \in names THEN "dialling" ELSE "off"]
  /\ UNCHANGED <<WsValidators, stuck>>

DialValidator(v) ==
  /\ dialled[v] = "dialling"
  /\ dialled' = [dialled EXCEPT ![v] = "open"]
  /\ UNCHANGED <<WsValidators, stuck>>

\* The connection is entered under the lock; hello is said on it after that.
Greet(v) ==
  /\ dialled[v] = "open"
  /\ ~stuck
  /\ dialled' = [dialled EXCEPT ![v] = "greeted"]
  /\ WsValidators' = WsValidators \cup {v}
  /\ UNCHANGED stuck

\* The connection ends.  It is noticed while listening, after the hello; the
\* goroutine dials again, and the closed connection stays entered.
LinkBreaks(v) ==
  /\ dialled[v] = "greeted"
  /\ dialled' = [dialled EXCEPT ![v] = "dialling"]
  /\ UNCHANGED <<WsValidators, stuck>>

\* sendProofRequest; an error of the write is ignored.
AskValidator(name) ==
  /\ ~stuck
  /\ stuck' = (name \notin WsValidators)
  /\ UNCHANGED <<dialled, WsValidators>>

LinkStep(v) == DialValidator(v) \/ Greet(v) \/ LinkBreaks(v)

LinkReset == /\ dialled' = [v \in Validators |-> "off"]
             /\ WsValidators' = {}
             /\ stuck' = FALSE

-----------------------------------------------------------------------------
LinkTypeOK == /\ dialled \in [Validators -> {"off", "dialling", "open", "greeted"}]
              /\ WsValidators \subseteq Validators
=============================================================================
