---------------------------- MODULE ProofVerdict ----------------------------
(***************************************************************************)
(* What the proof exchange promises the validator's clients, with no       *)
(* messages, no clock and no storage: a request opens its seed, at most    *)
(* one judgement is made for it, and a seed is judged valid only when the  *)
(* storage node and the validator have each recorded a list of the file's  *)
(* blocks, and the seed's walks over the two can leave the same text       *)
(* (messaging/proofs.go compares the hashes of what the walks read).       *)
(***************************************************************************)
EXTENDS FiniteSets

CONSTANTS Requests,     \* the validation requests clients make
          Seeds,        \* the seeds (salts) they are made under
          SeedOf        \* the seed of each request; a retry shares a seed

VARIABLES verdict,      \* seed -> "none", "Pending", "Valid" or "Invalid"
          owed,         \* the requests that may still be judged
          made,         \* the requests made so far
          agree         \* the seeds whose two nodes can come to the same proof

vars == <<verdict, owed, made, agree>>

Init == /\ verdict = [s \in Seeds |-> "none"]
        /\ owed = {}
        /\ made = {}
        /\ agree = {}

\* A request is made: whatever the seed's verdict was, it is pending again.
Request(r) == /\ r \notin made
              /\ made' = made \cup {r}
              /\ owed' = owed \cup {r}
              /\ verdict' = [verdict EXCEPT ![SeedOf[r]] = "Pending"]
              /\ UNCHANGED agree

\* The one judgement a request is owed.
Judge(r) == /\ r \in owed
            /\ owed' = owed \ {r}
            /\ \E v \in {"Valid", "Invalid"} :
                 /\ v = "Valid" => SeedOf[r] \in agree
                 /\ verdict' = [verdict EXCEPT ![SeedOf[r]] = v]
            /\ UNCHANGED <<made, agree>>

\* Requests that will never be judged: they could not be sent, or the
\* validator restarted.
Drop(R) == /\ R \subseteq owed
           /\ R # {}
           /\ owed' = owed \ R
           /\ UNCHANGED <<verdict, made, agree>>

\* The two nodes come to have lists that can agree; that is never undone.
Agree(S) == /\ S # {}
            /\ S \subseteq Seeds
            /\ agree' = agree \cup S
            /\ UNCHANGED <<verdict, owed, made>>

Next == \/ \E r \in Requests : Request(r) \/ Judge(r)
        \/ \E R \in SUBSET owed : Drop(R)
        \/ \E S \in SUBSET Seeds : Agree(S)

Spec == Init /\ [][Next]_vars
=============================================================================
