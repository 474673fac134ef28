------------------------------- MODULE Database -------------------------------
(***************************************************************************)
(* src/database/database.go: Save, Update, Delete and Read of any number   *)
(* of goroutines.  Each waits until the variable Lock is false, sleeping   *)
(* ten milliseconds at a time, and then sets it: the test and the setting  *)
(* are two steps, so two goroutines may get past together, and either may  *)
(* release the lock under the other.  Update and Delete release it inside  *)
(* the transaction, before it is committed.  The transactions themselves   *)
(* are badger's and atomic.                                                *)
(***************************************************************************)
CONSTANTS Callers, Keys, Values, Missing

ASSUME MissingAssumption == Missing \notin Values
ASSUME KeyAssumption == Keys # {}

VARIABLES
  Lock,         \* database.Lock
  store,        \* what the committed transactions have left
  at,           \* where each goroutine is
  task          \* its operation; the value of a read is its result

vars == <<Lock, store, at, task>>

Ops == {"Read", "Save", "Update", "Delete"}
Tasks == [op : Ops, key : Keys, value : Values \cup {Missing}]

Init == /\ Lock = FALSE
        /\ store = [k \in Keys |-> Missing]
        /\ at = [p \in Callers |-> "idle"]
        /\ task \in [Callers -> {[op |-> "Read", key |-> k, value |-> Missing] : k \in Keys}]

Goto(p, place) == at' = [at EXCEPT ![p] = place]

Call(p) ==
  /\ at[p] = "idle"
  /\ Goto(p, "waiting")
  /\ \E t \in Tasks :
       /\ t.op \in {"Read", "Delete"} <=> t.value = Missing
       /\ task' = [task EXCEPT ![p] = t]
  /\ UNCHANGED <<Lock, store>>

\* for Lock { sleep } ends ...
SeeUnlocked(p) ==
  /\ at[p] = "waiting"
  /\ ~Lock
  /\ Goto(p, "passed")
  /\ UNCHANGED <<Lock, store, task>>

\* ... and Lock = true follows.
SetLock(p) ==
  /\ at[p] = "passed"
  /\ Lock' = TRUE
  /\ Goto(p, "locked")
  /\ UNCHANGED <<store, task>>

\* A read transaction sees what was committed when it began (180-193).
ReadValue(p) ==
  /\ at[p] = "locked" /\ task[p].op = "Read"
  /\ task' = [task EXCEPT ![p].value = store[task[p].key]]
  /\ Goto(p, "finished")
  /\ UNCHANGED <<Lock, store>>

\* A wrong CommitSave, with key and value swapped in the call.
CommitSaveSwapped(p) ==
  /\ at[p] = "locked" /\ task[p].op = "Save"
  /\ store' = [store EXCEPT ![task[p].key] = task[p].key]
  /\ Goto(p, "finished")
  /\ UNCHANGED <<Lock, task>>

\* Save commits and then releases (130-134).
CommitSave(p) ==
  /\ at[p] = "locked" /\ task[p].op = "Save"
  /\ store' = [store EXCEPT ![task[p].key] = task[p].value]
  /\ Goto(p, "finished")
  /\ UNCHANGED <<Lock, task>>

\* Update and Delete release inside the closure (99, 156) ...
ReleaseEarly(p) ==
  /\ at[p] = "locked" /\ task[p].op \in {"Update", "Delete"}
  /\ Lock' = FALSE
  /\ Goto(p, "committing")
  /\ UNCHANGED <<store, task>>

\* ... and then badger commits ...
Commit(p) ==
  /\ at[p] = "committing"
  /\ store' = [store EXCEPT ![task[p].key] = task[p].value]
  /\ Goto(p, "done")
  /\ UNCHANGED <<Lock, task>>

\* ... or fails to, and the lock is released again, whoever has it by now
\* (103-106, 160-163).
CommitFails(p) ==
  /\ at[p] = "committing"
  /\ Lock' = FALSE
  /\ Goto(p, "done")
  /\ UNCHANGED <<store, task>>

\* A wrong Release, forgotten when a read finds no record.
ReleaseUnlessMissing(p) ==
  /\ at[p] = "finished"
  /\ Lock' = (Lock /\ task[p].value = Missing)
  /\ Goto(p, "done")
  /\ UNCHANGED <<store, task>>

Release(p) ==
  /\ at[p] = "finished"
  /\ Lock' = FALSE
  /\ Goto(p, "done")
  /\ UNCHANGED <<store, task>>

\* An error inside Save, Read or a closure is log.Panic with the lock set;
\* the goroutine of an HTTP handler is recovered by gin and the lock stays.
Panic(p) ==
  /\ at[p] = "locked"
  /\ Goto(p, "panicked")
  /\ UNCHANGED <<Lock, store, task>>

\* A wrong Return, which does not wait for badger.
ReturnEarly(p) ==
  /\ at[p] \in {"committing", "done"}
  /\ Goto(p, "idle")
  /\ UNCHANGED <<Lock, store, task>>

Return(p) ==
  /\ at[p] = "done"
  /\ Goto(p, "idle")
  /\ UNCHANGED <<Lock, store, task>>

Step(p) == \/ Call(p) \/ SeeUnlocked(p) \/ SetLock(p) \/ ReadValue(p) \/ CommitSave(p)
           \/ ReleaseEarly(p) \/ Commit(p) \/ CommitFails(p) \/ Release(p) \/ Panic(p)
           \/ Return(p)
Next == \E p \in Callers : Step(p)
Spec == Init /\ [][Next]_vars

-----------------------------------------------------------------------------
TypeOK == /\ Lock \in BOOLEAN
          /\ store \in [Keys -> Values \cup {Missing}]
          /\ at \in [Callers -> {"idle", "waiting", "passed", "locked", "finished",
                                 "committing", "done", "panicked"}]
          /\ task \in [Callers -> Tasks]

\* The lock is never left set behind everyone's back, although several may
\* hold it at once and each may release it for the others: whenever it is
\* set, somebody is going to release it or has panicked with it.  Otherwise
\* every later operation of the node would wait for ever.
LockHasHolder ==
  Lock => \E p \in Callers : at[p] \in {"locked", "finished", "panicked"}

\* In spite of the lock, whose holders overlap and who may commit after they
\* have released it, every operation takes effect at one moment of its call.
Stage(p) == CASE at[p] = "idle" -> "idle"
              [] at[p] \in {"waiting", "passed", "locked", "committing", "panicked"} -> "called"
              [] at[p] \in {"finished", "done"} -> "done"
AbstractTask(t) == [t EXCEPT !.op = IF t.op = "Read" THEN "read" ELSE "write"]
KV == INSTANCE KVStore WITH
        stage <- [p \in Callers |-> Stage(p)],
        task <- [p \in Callers |-> AbstractTask(task[p])]
ImplementsKVStore == KV!Spec
=============================================================================
