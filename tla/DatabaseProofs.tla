---------------------------- MODULE DatabaseProofs ----------------------------
(***************************************************************************)
(* Proofs about Database, for any number of goroutines, keys and values.   *)
(***************************************************************************)
EXTENDS Database, TLAPS

\* Every variable always has its type.
THEOREM TypeCorrect == Spec => []TypeOK
<1>1. Init => TypeOK
  <2>1. \A k \in Keys : [op |-> "Read", key |-> k, value |-> Missing] \in Tasks
    BY DEF Tasks, Ops
  <2>2. {[op |-> "Read", key |-> k, value |-> Missing] : k \in Keys} \subseteq Tasks
    BY <2>1
  <2> QED BY <2>2 DEF Init, TypeOK
<1>2. TypeOK /\ [Next]_vars => TypeOK'
  <2> SUFFICES ASSUME TypeOK, [Next]_vars PROVE TypeOK'
    OBVIOUS
  <2>1. ASSUME NEW p \in Callers, Call(p) PROVE TypeOK'
    BY <2>1 DEF Call, Goto, TypeOK
  <2>2. ASSUME NEW p \in Callers, SeeUnlocked(p) \/ SetLock(p) \/ ReleaseEarly(p)
                                  \/ CommitFails(p) \/ Release(p) \/ Panic(p) \/ Return(p)
        PROVE  TypeOK'
    BY <2>2 DEF SeeUnlocked, SetLock, ReleaseEarly, CommitFails, Release, Panic, Return,
                Goto, TypeOK
  <2>3. ASSUME NEW p \in Callers, ReadValue(p) PROVE TypeOK'
    <3>1. store[task[p].key] \in Values \cup {Missing} /\ task[p] \in Tasks
      BY DEF TypeOK, Tasks
    <3>2. [task[p] EXCEPT !.value = store[task[p].key]] \in Tasks BY <3>1 DEF Tasks
    <3> QED BY <2>3, <3>2 DEF ReadValue, Goto, TypeOK
  <2>4. ASSUME NEW p \in Callers, CommitSave(p) \/ Commit(p) PROVE TypeOK'
    <3>1. task[p].value \in Values \cup {Missing} BY DEF TypeOK, Tasks
    <3> QED BY <2>4, <3>1 DEF CommitSave, Commit, Goto, TypeOK
  <2>5. CASE UNCHANGED vars BY <2>5 DEF vars, TypeOK
  <2> QED BY <2>1, <2>2, <2>3, <2>4, <2>5 DEF Next, Step
<1> QED BY <1>1, <1>2, PTL DEF Spec

\* The lock is never left set with nobody to release it: although any caller
\* may clear it under the others, a caller that leaves while it is set has
\* cleared it, and one that sets it goes on to clear it or panics.
THEOREM LockAlwaysHasHolder == Spec => []LockHasHolder
<1>1. Init => LockHasHolder BY DEF Init, LockHasHolder
<1>2. TypeOK /\ LockHasHolder /\ [Next]_vars => LockHasHolder'
  <2> SUFFICES ASSUME TypeOK, LockHasHolder, [Next]_vars, Lock'
               PROVE  \E p \in Callers : at'[p] \in {"locked", "finished", "panicked"}
    BY DEF LockHasHolder
  <2> DEFINE Holds(p) == at[p] \in {"locked", "finished", "panicked"}
  <2>1. ASSUME NEW q \in Callers, SetLock(q) PROVE \E p \in Callers : Holds(p)'
    BY <2>1 DEF SetLock, Goto, TypeOK
  <2>2. ASSUME NEW q \in Callers,
               Call(q) \/ SeeUnlocked(q) \/ ReadValue(q) \/ CommitSave(q) \/ Commit(q)
               \/ Panic(q) \/ Return(q)
        PROVE  \E p \in Callers : Holds(p)'
    <3>1. Lock BY <2>2 DEF Call, SeeUnlocked, ReadValue, CommitSave, Commit, Panic, Return
    <3>2. PICK p \in Callers : Holds(p) BY <3>1 DEF LockHasHolder
    <3>3. Holds(p)'
      BY <2>2, <3>2 DEF Call, SeeUnlocked, ReadValue, CommitSave, Commit, Panic, Return,
                        Goto, TypeOK
    <3> QED BY <3>3
  <2>3. ASSUME NEW q \in Callers, ReleaseEarly(q) \/ CommitFails(q) \/ Release(q)
        PROVE  FALSE
    BY <2>3 DEF ReleaseEarly, CommitFails, Release
  <2>4. CASE UNCHANGED vars BY <2>4 DEF vars, LockHasHolder
  <2> QED BY <2>1, <2>2, <2>3, <2>4 DEF Next, Step
<1> QED BY <1>1, <1>2, TypeCorrect, PTL DEF Spec

-----------------------------------------------------------------------------
\* Only Update and Delete commit after they have released the lock.
LateInv == \A p \in Callers : at[p] = "committing" => task[p].op \in {"Update", "Delete"}

\* A transaction is committed after its release only by Update and Delete
\* (database.go:99 and 156).
THEOREM OnlyUpdatesCommitLate == Spec => []LateInv
<1>1. Init => LateInv BY DEF Init, LateInv
<1>2. TypeOK /\ LateInv /\ [Next]_vars => LateInv'
  <2> SUFFICES ASSUME TypeOK, LateInv, [Next]_vars, NEW q \in Callers,
                      at'[q] = "committing"
               PROVE  task'[q].op \in {"Update", "Delete"}
    BY DEF LateInv
  <2>1. ASSUME NEW p \in Callers, Step(p) PROVE task'[q].op \in {"Update", "Delete"}
    BY <2>1 DEF LateInv, TypeOK, Step, Call, SeeUnlocked, SetLock, ReadValue, CommitSave,
                ReleaseEarly, Commit, CommitFails, Release, Panic, Return, Goto
  <2>2. CASE UNCHANGED vars BY <2>2 DEF vars, LateInv
  <2> QED BY <2>1, <2>2 DEF Next
<1> QED BY <1>1, <1>2, TypeCorrect, PTL DEF Spec

\* Each step of a caller is, in the abstract store, a call, the moment of its
\* effect, a failure, a return, or nothing.
LEMMA StepRefines ==
  ASSUME TypeOK, LateInv, [Next]_vars
  PROVE  [KV!Next]_(KV!vars)
<1> DEFINE stages == [p \in Callers |-> Stage(p)]
           tasks == [p \in Callers |-> AbstractTask(task[p])]
<1>0. \A p \in Callers : task[p] \in Tasks BY DEF TypeOK
<1>1. ASSUME NEW p \in Callers, Call(p) PROVE KV!Call(p)
  <2>1. PICK t \in Tasks : task' = [task EXCEPT ![p] = t] BY <1>1 DEF Call
  <2>2. AbstractTask(t) \in KV!Tasks BY DEF AbstractTask, Tasks, KV!Tasks
  <2>3. tasks' = [tasks EXCEPT ![p] = AbstractTask(t)] BY <2>1 DEF TypeOK
  <2>4. Stage(p) = "idle" /\ stages' = [stages EXCEPT ![p] = "called"]
    BY <1>1 DEF Call, Goto, Stage, TypeOK
  <2> QED BY <1>1, <2>2, <2>3, <2>4 DEF KV!Call, Call
<1>2. ASSUME NEW p \in Callers,
             SeeUnlocked(p) \/ SetLock(p) \/ ReleaseEarly(p) \/ Release(p) \/ Panic(p)
      PROVE  UNCHANGED KV!vars
  <2>1. \A q \in Callers : Stage(q)' = Stage(q)
    BY <1>2 DEF SeeUnlocked, SetLock, ReleaseEarly, Release, Panic, Goto, Stage, TypeOK
  <2>2. UNCHANGED <<store, task>>
    BY <1>2 DEF SeeUnlocked, SetLock, ReleaseEarly, Release, Panic
  <2> QED BY <2>1, <2>2 DEF KV!vars
<1>3. ASSUME NEW p \in Callers, ReadValue(p) PROVE KV!TakeEffect(p)
  <2>1. Stage(p) = "called" /\ stages' = [stages EXCEPT ![p] = "done"]
    BY <1>3 DEF ReadValue, Goto, Stage, TypeOK
  <2>2. tasks[p].op = "read" /\ tasks[p].key = task[p].key
    BY <1>0, <1>3 DEF ReadValue, AbstractTask, Tasks
  <2>3. AbstractTask([task[p] EXCEPT !.value = store[task[p].key]])
          = [AbstractTask(task[p]) EXCEPT !.value = store[task[p].key]]
    BY <1>0 DEF AbstractTask, Tasks
  <2>4. tasks' = [tasks EXCEPT ![p].value = store[tasks[p].key]]
    BY <1>3, <2>2, <2>3 DEF ReadValue, TypeOK
  <2> QED BY <1>3, <2>1, <2>2, <2>4 DEF KV!TakeEffect, ReadValue
<1>4. ASSUME NEW p \in Callers, CommitSave(p) \/ Commit(p)
      PROVE  KV!TakeEffect(p)
  <2>1. Stage(p) = "called" /\ stages' = [stages EXCEPT ![p] = "done"]
    BY <1>4 DEF CommitSave, Commit, Goto, Stage, TypeOK
  <2>2. tasks[p].op = "write" /\ tasks[p].key = task[p].key /\ tasks[p].value = task[p].value
    BY <1>0, <1>4 DEF CommitSave, Commit, LateInv, AbstractTask, Tasks
  <2> QED BY <1>4, <2>1, <2>2 DEF KV!TakeEffect, CommitSave, Commit
<1>5. ASSUME NEW p \in Callers, CommitFails(p) PROVE KV!GiveUp(p)
  <2>1. Stage(p) = "called" /\ stages' = [stages EXCEPT ![p] = "done"]
    BY <1>5 DEF CommitFails, Goto, Stage, TypeOK
  <2>2. tasks[p].op = "write"
    BY <1>0, <1>5 DEF CommitFails, LateInv, AbstractTask, Tasks
  <2> QED BY <1>5, <2>1, <2>2 DEF KV!GiveUp, CommitFails
<1>6. ASSUME NEW p \in Callers, Return(p) PROVE KV!Return(p)
  <2>1. Stage(p) = "done" /\ stages' = [stages EXCEPT ![p] = "idle"]
    BY <1>6 DEF Return, Goto, Stage, TypeOK
  <2> QED BY <1>6, <2>1 DEF KV!Return, Return
<1>7. CASE UNCHANGED vars BY <1>7 DEF vars, KV!vars, Stage
<1>8. ASSUME NEW p \in Callers, Step(p) PROVE [KV!Next]_(KV!vars)
  BY <1>1, <1>2, <1>3, <1>4, <1>5, <1>6, <1>8 DEF Step, KV!Next
<1> QED BY <1>7, <1>8 DEF Next

\* In spite of the lock, every operation takes effect at one moment between
\* its call and its return: the store is linearizable.
THEOREM DatabaseImplementsKVStore == Spec => ImplementsKVStore
<1>1. Init => KV!Init
  <2> SUFFICES ASSUME Init PROVE KV!Init
    OBVIOUS
  <2>1. \A p \in Callers : Stage(p) = "idle" BY DEF Init, Stage
  <2>2. \A p \in Callers : AbstractTask(task[p]) \in KV!Tasks
    <3>1. ASSUME NEW p \in Callers, NEW k \in Keys,
                 task[p] = [op |-> "Read", key |-> k, value |-> Missing]
          PROVE  AbstractTask(task[p]) \in KV!Tasks
      BY <3>1 DEF AbstractTask, KV!Tasks
    <3> QED BY <3>1 DEF Init
  <2> QED BY <2>1, <2>2 DEF Init, KV!Init
<1>2. TypeOK /\ LateInv /\ [Next]_vars => [KV!Next]_(KV!vars) BY StepRefines
<1> QED
  BY <1>1, <1>2, TypeCorrect, OnlyUpdatesCommitLate, PTL
     DEF Spec, ImplementsKVStore, KV!Spec
=============================================================================
