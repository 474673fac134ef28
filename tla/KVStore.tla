------------------------------- MODULE KVStore -------------------------------
(***************************************************************************)
(* What the callers of src/database/database.go rely on: a map in which    *)
(* every operation takes effect at one moment between its call and its     *)
(* return, or, when a write fails, never.                                  *)
(***************************************************************************)
CONSTANTS Callers,      \* the goroutines that use the store
          Keys, Values,
          Missing       \* stands for "no record"

VARIABLES store,        \* key -> value or Missing
          stage,        \* caller -> "idle", "called" or "done"
          task          \* caller -> its operation; a read's value is its result

vars == <<store, stage, task>>

Tasks == [op : {"read", "write"}, key : Keys, value : Values \cup {Missing}]

Init == /\ store = [k \in Keys |-> Missing]
        /\ stage = [p \in Callers |-> "idle"]
        /\ task \in [Callers -> Tasks]

Call(p) == /\ stage[p] = "idle"
           /\ stage' = [stage EXCEPT ![p] = "called"]
           /\ \E t \in Tasks : task' = [task EXCEPT ![p] = t]
           /\ UNCHANGED store

\* The one moment.
TakeEffect(p) ==
  /\ stage[p] = "called"
  /\ stage' = [stage EXCEPT ![p] = "done"]
  /\ \/ /\ task[p].op = "read"
        /\ task' = [task EXCEPT ![p].value = store[task[p].key]]
        /\ UNCHANGED store
     \/ /\ task[p].op = "write"
        /\ store' = [store EXCEPT ![task[p].key] = task[p].value]
        /\ UNCHANGED task

GiveUp(p) == /\ stage[p] = "called"
             /\ task[p].op = "write"
             /\ stage' = [stage EXCEPT ![p] = "done"]
             /\ UNCHANGED <<store, task>>

Return(p) == /\ stage[p] = "done"
             /\ stage' = [stage EXCEPT ![p] = "idle"]
             /\ UNCHANGED <<store, task>>

Next == \E p \in Callers : Call(p) \/ TakeEffect(p) \/ GiveUp(p) \/ Return(p)
Spec == Init /\ [][Next]_vars
=============================================================================
