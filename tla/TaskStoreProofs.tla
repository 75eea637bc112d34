--------------------------- MODULE TaskStoreProofs ---------------------------
(***************************************************************************)
(* What TLAPS proves of TaskStore, for every set of tasks, runs, workers,  *)
(* upkeep loops and events and every bound.  The second part is about      *)
(* executions in which the deadlines are met.                              *)
(***************************************************************************)
EXTENDS TaskStoreLifecycle, FiniteSetTheorems, TLAPS

----------------------------------------------------------------------------
(* Types *)

(* The row NewRun inserts is well formed and belongs to its task. *)
LEMMA NewRunType ==
  ASSUME NEW t \in Task, NEW n \in Nat, NEW delayed \in BOOLEAN
  PROVE  /\ NewRun(t, n, delayed) \in RunRow
         /\ NewRun(t, n, delayed).task = t
         /\ NewRun(t, n, delayed).state \in {"pending", "sleeping"}
         /\ NewRun(t, n, delayed).wait = None
         /\ NewRun(t, n, delayed).claim = "none"
  BY DEF NewRun, NoRun, RunRow, TaskState, Active

(* The rows that the operations write are well formed and keep their task. *)
LEMMA ClaimedRow ==
  ASSUME NEW row \in RunRow, NEW w \in Worker
  PROVE  /\ Claimed(row, w) \in RunRow
         /\ Claimed(row, w).task = row.task
         /\ Claimed(row, w).state = "running"
         /\ Claimed(row, w).wait = row.wait
         /\ Claimed(row, w).owner = w
         /\ Claimed(row, w).claim = "held"
         /\ Claimed(row, w).attempt = row.attempt + 1
  <1>1. row.attempt + 1 \in Nat
    BY DEF RunRow
  <1> DEFINE next == row.attempt + 1
  <1>2. Claimed(row, w) = [row EXCEPT !.state = "running", !.owner = w,
                                      !.claim = "held", !.attempt = next]
    BY DEF Claimed
  <1> HIDE DEF next
  <1>3. next \in Nat
    BY <1>1 DEF next
  <1>4. Claimed(row, w) \in RunRow
    BY <1>2, <1>3 DEF RunRow, TaskState, Active
  <1>5. /\ Claimed(row, w).task = row.task
        /\ Claimed(row, w).wait = row.wait
    BY <1>2 DEF RunRow
  <1>6. /\ Claimed(row, w).state = "running"
        /\ Claimed(row, w).owner = w
        /\ Claimed(row, w).claim = "held"
        /\ Claimed(row, w).attempt = next
    BY <1>2 DEF RunRow
  <1> QED
    BY <1>4, <1>5, <1>6 DEF next

LEMMA CompletedRow ==
  ASSUME NEW row \in RunRow
  PROVE  /\ Completed(row) \in RunRow
         /\ Completed(row).task = row.task
         /\ Completed(row).state = "completed"
         /\ Completed(row).wait = None
         /\ Completed(row).owner = row.owner
         /\ Completed(row).claim = row.claim
  BY DEF Completed, RunRow, TaskState, Settled

LEMMA FailedRow ==
  ASSUME NEW row \in RunRow
  PROVE  /\ Failed(row) \in RunRow
         /\ Failed(row).task = row.task
         /\ Failed(row).state = "failed"
         /\ Failed(row).wait = None
         /\ Failed(row).owner = row.owner
         /\ Failed(row).claim = row.claim
  BY DEF Failed, RunRow, TaskState, Settled

LEMMA SuspendedRow ==
  ASSUME NEW row \in RunRow, NEW wait \in Event \cup {None}
  PROVE  /\ Suspended(row, wait) \in RunRow
         /\ Suspended(row, wait).task = row.task
         /\ Suspended(row, wait).state = "sleeping"
         /\ Suspended(row, wait).wait = wait
         /\ Suspended(row, wait).due = FALSE
         /\ Suspended(row, wait).claim = "none"
  BY DEF Suspended, RunRow, TaskState, Active

LEMMA WokenRow ==
  ASSUME NEW row \in RunRow
  PROVE  /\ Woken(row) \in RunRow
         /\ Woken(row).task = row.task
         /\ Woken(row).state = "pending"
         /\ Woken(row).wait = None
         /\ Woken(row).claim = "none"
  BY DEF Woken, RunRow, TaskState, Active

LEMMA CancelledRow ==
  ASSUME NEW row \in RunRow
  PROVE  /\ Cancelled(row) \in RunRow
         /\ Cancelled(row).task = row.task
         /\ Cancelled(row).state = "cancelled"
         /\ Cancelled(row).wait = row.wait
         /\ Cancelled(row).owner = row.owner
         /\ Cancelled(row).claim = row.claim
  BY DEF Cancelled, RunRow, TaskState, Settled

LEMMA DeletedRow ==
  ASSUME NEW row \in RunRow
  PROVE  /\ Deleted(row) \in RunRow
         /\ Deleted(row).task = row.task
         /\ Deleted(row).state = "deleted"
         /\ Deleted(row).wait = None
         /\ Deleted(row).claim = "none"
  BY DEF Deleted, NoRun, NoRow, RunRow

LEMMA DueRow ==
  ASSUME NEW row \in RunRow
  PROVE  /\ [row EXCEPT !.due = TRUE] \in RunRow
         /\ [row EXCEPT !.due = TRUE].task = row.task
         /\ [row EXCEPT !.due = TRUE].state = row.state
  BY DEF RunRow

(* do_fail_run (storage.rs:861) keeps both tables well formed. *)
LEMMA DoFailRunType ==
  ASSUME TypeOK, NEW r \in Run, NEW new \in Run,
         NEW delayed \in BOOLEAN, NEW tooOld \in BOOLEAN,
         runs[r].state \notin NoRow, DoFailRun(r, new, delayed, tooOld)
  PROVE  /\ tasks' \in [Task -> TaskRow]
         /\ runs' \in [Run -> RunRow]
         /\ \A s \in Run : WellFormed(runs'[s])
         /\ \A s \in Run : runs[s].task # None => runs'[s].task = runs[s].task
  <1> DEFINE t == runs[r].task
             next == tasks[t].attempts + 1
             failed == [runs EXCEPT ![r] = Failed(runs[r])]
  <1>1. t \in Task /\ next \in Nat
    BY NoneAssumption DEF WellFormed, TypeOK, RunRow, TaskRow, NoRow
  <1>2. /\ Failed(runs[r]) \in RunRow
        /\ Failed(runs[r]).task = t
        /\ Failed(runs[r]).state = "failed"
    BY FailedRow DEF WellFormed, TypeOK
  <1>3. /\ failed \in [Run -> RunRow]
        /\ \A s \in Run : failed[s].task = runs[s].task
        /\ \A s \in Run : WellFormed(failed[s])
    BY <1>1, <1>2, NoneAssumption DEF WellFormed, TypeOK
  <1>4. CASE AttemptsRemain(next) /\ ~tooOld
    <2>1. /\ runs[new].state = "absent" /\ new # r
          /\ tasks' = [tasks EXCEPT ![t] =
               [state |-> IF delayed THEN "sleeping" ELSE "pending", attempts |-> next]]
          /\ runs' = [failed EXCEPT ![new] = NewRun(t, next, delayed)]
      BY <1>4 DEF DoFailRun, NoRow
    <2>2. tasks' \in [Task -> TaskRow]
      BY <2>1, <1>1 DEF WellFormed, TypeOK, TaskRow, TaskState, Active
    <2>3. /\ NewRun(t, next, delayed) \in RunRow
          /\ NewRun(t, next, delayed).task = t
          /\ NewRun(t, next, delayed).state # "absent"
      BY <1>1, NewRunType
    <2>4. runs[new].task = None
      BY <2>1 DEF WellFormed, TypeOK
    <2> QED
      BY <1>1, <1>3, <2>1, <2>2, <2>3, <2>4, NoneAssumption DEF WellFormed
  <1>5. CASE AttemptsRemain(next) /\ tooOld
    <2>1. /\ tasks' = [tasks EXCEPT ![t] = [state |-> "cancelled", attempts |-> next]]
          /\ runs' = failed
      BY <1>5 DEF DoFailRun
    <2> QED
      BY <1>1, <1>3, <2>1 DEF WellFormed, TypeOK, TaskRow, TaskState, Settled
  <1>6. CASE ~AttemptsRemain(next)
    BY <1>3, <1>6 DEF DoFailRun, WellFormed, TypeOK
  <1> QED
    BY <1>4, <1>5, <1>6

(* suspend_run (storage.rs:1230) keeps both tables well formed. *)
LEMMA SuspendRunType ==
  ASSUME TypeOK, NEW r \in Run, runs[r].task # None,
         NEW wait \in Event \cup {None}, SuspendRun(r, wait)
  PROVE  /\ tasks' \in [Task -> TaskRow]
         /\ runs' \in [Run -> RunRow]
         /\ \A s \in Run : WellFormed(runs'[s])
         /\ \A s \in Run : runs[s].task # None => runs'[s].task = runs[s].task
  <1>1. runs[r].task \in Task
    BY DEF WellFormed, TypeOK, RunRow
  <1>2. tasks' \in [Task -> TaskRow]
    <2>1. tasks \in [Task -> TaskRow] /\ "sleeping" \in TaskState
      BY DEF TypeOK, TaskState, Active
    <2>2. [tasks[runs[r].task] EXCEPT !.state = "sleeping"] \in TaskRow
      BY <1>1, <2>1 DEF TaskRow
    <2>3. tasks' = [tasks EXCEPT ![runs[r].task].state = "sleeping"]
      BY DEF SuspendRun
    <2> QED
      BY <1>1, <2>1, <2>2, <2>3
  <1>3. /\ Suspended(runs[r], wait) \in RunRow
        /\ Suspended(runs[r], wait).task = runs[r].task
        /\ Suspended(runs[r], wait).state = "sleeping"
    BY SuspendedRow DEF WellFormed, TypeOK
  <1> QED
    BY <1>2, <1>3 DEF SuspendRun, WellFormed, TypeOK

(* The updates of cancellation by age keep both tables well formed, and    *)
(* the task, the wait, the claim and the count of attempts of every row.   *)
LEMMA CancelRowsKeep ==
  ASSUME TypeOK, NEW batch \in SUBSET Run, CancelRows(batch)
  PROVE  /\ tasks' \in [Task -> TaskRow]
         /\ runs' \in [Run -> RunRow]
         /\ \A r \in Run : WellFormed(runs'[r])
         /\ \A r \in Run : runs'[r].state = runs[r].state \/ runs'[r].state = "cancelled"
         /\ \A r \in Run : /\ runs'[r].task = runs[r].task
                           /\ runs'[r].wait = runs[r].wait
                           /\ runs'[r].claim = runs[r].claim
         /\ \A t \in Task : /\ tasks'[t].attempts = tasks[t].attempts
                            /\ tasks'[t].state \in {tasks[t].state, "cancelled"}
  <1> DEFINE found == {r \in batch : runs[r].state \notin NoRow}
  <1>1. /\ runs' = [r \in Run |-> IF r \in found THEN Cancelled(runs[r]) ELSE runs[r]]
        /\ tasks' = [t \in Task |->
             IF \E r \in found : runs[r].task = t
             THEN [tasks[t] EXCEPT !.state = "cancelled"]
             ELSE tasks[t]]
    BY DEF CancelRows
  <1>2. \A r \in Run : r \in found => runs[r].state # "absent"
    BY DEF NoRow
  <1> HIDE DEF found
  <1>3. \A r \in Run : /\ Cancelled(runs[r]) \in RunRow
                       /\ Cancelled(runs[r]).task = runs[r].task
                       /\ Cancelled(runs[r]).state = "cancelled"
                       /\ Cancelled(runs[r]).wait = runs[r].wait
                       /\ Cancelled(runs[r]).claim = runs[r].claim
    BY CancelledRow DEF TypeOK
  <1>4. /\ runs' \in [Run -> RunRow]
        /\ \A r \in Run : WellFormed(runs'[r])
    BY <1>1, <1>2, <1>3 DEF TypeOK, WellFormed
  <1>5. tasks' \in [Task -> TaskRow]
    <2>1. \A t \in Task : [tasks[t] EXCEPT !.state = "cancelled"] \in TaskRow
      BY DEF TypeOK, TaskRow, TaskState, Settled
    <2> QED
      BY <1>1, <2>1 DEF TypeOK
  <1>6. \A r \in Run : /\ runs'[r].state = runs[r].state \/ runs'[r].state = "cancelled"
                       /\ runs'[r].task = runs[r].task
                       /\ runs'[r].wait = runs[r].wait
                       /\ runs'[r].claim = runs[r].claim
    BY <1>1, <1>3
  <1>7. \A t \in Task : /\ tasks'[t].attempts = tasks[t].attempts
                        /\ tasks'[t].state \in {tasks[t].state, "cancelled"}
    BY <1>1 DEF TypeOK, TaskRow
  <1> QED
    BY <1>4, <1>5, <1>6, <1>7

(* When nothing comes between, it cancels just the rows that it has read.  *)
LEMMA CancelAgedIs ==
  ASSUME NEW u \in Upkeeper, NEW batch \in SUBSET Run, CancelAged(u, batch)
  PROVE  /\ \A r \in batch : /\ runs[r].state \notin NoRow
                             /\ tasks[runs[r].task].state \in {"pending", "sleeping"}
         /\ runs' = [r \in Run |-> IF r \in batch THEN Cancelled(runs[r]) ELSE runs[r]]
         /\ tasks' = [t \in Task |->
              IF \E r \in batch : runs[r].task = t
              THEN [tasks[t] EXCEPT !.state = "cancelled"]
              ELSE tasks[t]]
         /\ UNCHANGED <<payload, ckpts, held, picked, aged>>
  <1>1. \A r \in batch : /\ runs[r].state \notin NoRow
                         /\ tasks[runs[r].task].state \in {"pending", "sleeping"}
    BY DEF CancelAged, AgedCandidates
  <1>2. {r \in batch : runs[r].state \notin NoRow} = batch
    BY <1>1
  <1> QED
    BY <1>1, <1>2 DEF CancelAged, CancelRows

(* Init is well typed. *)
LEMMA TypeInit == Init => TypeOK
  BY NoneAssumption DEF Init, WellFormed, TypeOK, TaskRow, RunRow, NoRun, NoRow

(* A step that keeps the tables well formed, keeps the task of every row   *)
(* and lets held and picked name inserted runs only, keeps TypeOK.         *)
LEMMA TypeStep == TypeOK /\ [Next]_vars => TypeOK'
  <1> SUFFICES ASSUME TypeOK, [Next]_vars PROVE TypeOK'
    OBVIOUS
  <1>1. ASSUME NEW w \in Worker, NEW batch \in SUBSET Run, ClaimTask(w, batch)
        PROVE  TypeOK'
    <2>1. \A r \in batch : /\ Claimed(runs[r], w) \in RunRow
                           /\ Claimed(runs[r], w).task = runs[r].task
                           /\ Claimed(runs[r], w).state = "running"
                           /\ runs[r].state # "absent"
      <3> SUFFICES ASSUME NEW r \in batch
                   PROVE  /\ Claimed(runs[r], w) \in RunRow
                          /\ Claimed(runs[r], w).task = runs[r].task
                          /\ Claimed(runs[r], w).state = "running"
                          /\ runs[r].state # "absent"
        OBVIOUS
      <3>1. runs[r] \in RunRow
        BY DEF WellFormed, TypeOK
      <3>2. runs[r].state # "absent"
        BY <1>1 DEF ClaimTask, Claimable
      <3> QED
        BY <3>1, <3>2, ClaimedRow
    <2>2. /\ runs' \in [Run -> RunRow]
          /\ \A r \in Run : WellFormed(runs'[r])
          /\ \A r \in Run : runs'[r].task = runs[r].task
      BY <1>1, <2>1 DEF ClaimTask, WellFormed, TypeOK
    <2>3. tasks' \in [Task -> TaskRow]
      <3> DEFINE claimed == {runs[r].task : r \in batch}
      <3>1. PICK counted \in [claimed -> batch] :
              tasks' = [t \in Task |->
               IF t \in claimed
               THEN [state |-> "running",
                     attempts |-> MaxOf(tasks[t].attempts,
                                        runs[counted[t]].attempt + 1)]
               ELSE tasks[t]]
        BY <1>1 DEF ClaimTask
      <3>2. ASSUME NEW t \in Task, t \in claimed
            PROVE  MaxOf(tasks[t].attempts, runs[counted[t]].attempt + 1) \in Nat
        BY <3>2 DEF MaxOf, WellFormed, TypeOK, TaskRow, RunRow
      <3> HIDE DEF claimed
      <3> QED
        BY <3>1, <3>2 DEF WellFormed, TypeOK, TaskRow, TaskState, Active
    <2> QED
      BY <1>1, <2>1, <2>2, <2>3 DEF ClaimTask, WellFormed, TypeOK
  <1>2. ASSUME NEW w \in Worker, NEW r \in Run, CompleteRun(w, r)
        PROVE  TypeOK'
    <2>1. runs[r].task \in Task
      BY <1>2 DEF CompleteRun, WellFormed, TypeOK, RunRow
    <2>2. /\ Completed(runs[r]) \in RunRow
          /\ Completed(runs[r]).task = runs[r].task
          /\ Completed(runs[r]).state = "completed"
      BY CompletedRow DEF WellFormed, TypeOK
    <2> QED
      <3>1. CASE runs[r].state = "running"
        <4>1. tasks' \in [Task -> TaskRow]
          BY <1>2, <2>1, <3>1 DEF CompleteRun, TypeOK, TaskRow, TaskState, Settled
        <4> QED
          BY <1>2, <2>1, <2>2, <3>1, <4>1, NoneAssumption
          DEF CompleteRun, Drops, WellFormed, TypeOK
      <3>2. CASE runs[r].state # "running"
        BY <1>2, <3>2 DEF CompleteRun, Drops, TypeOK
      <3> QED
        BY <3>1, <3>2
  <1>3. ASSUME NEW w \in Worker, NEW r \in Run, NEW new \in Run,
               NEW delayed \in BOOLEAN, NEW tooOld \in BOOLEAN,
               FailRun(w, r, new, delayed, tooOld)
        PROVE  TypeOK'
    <2>1. CASE runs[r].state \in {"running", "sleeping"}
      BY <1>3, <2>1, DoFailRunType DEF FailRun, Drops, WellFormed, TypeOK, NoRow
    <2>2. CASE runs[r].state \notin {"running", "sleeping"}
      BY <1>3, <2>2 DEF FailRun, Drops, WellFormed, TypeOK
    <2> QED
      BY <2>1, <2>2
  <1>4. ASSUME NEW w \in Worker, NEW r \in Run, ScheduleRun(w, r)
        PROVE  TypeOK'
    <2>1. runs[r].task # None
      BY <1>4 DEF ScheduleRun, WellFormed, TypeOK
    <2>2. CASE Suspendable(r)
      BY <1>4, <2>1, <2>2, SuspendRunType DEF ScheduleRun, Drops, WellFormed, TypeOK
    <2>3. CASE ~Suspendable(r)
      BY <1>4, <2>3 DEF ScheduleRun, Drops, WellFormed, TypeOK
    <2> QED
      BY <2>2, <2>3
  <1>5. ASSUME NEW w \in Worker, NEW r \in Run, NEW e \in Event, AwaitEvent(w, r, e)
        PROVE  TypeOK'
    <2>1. runs[r].task \in Task
      BY <1>5 DEF AwaitEvent, WellFormed, TypeOK, RunRow
    <2>2. CASE payload[e] = "emitted"
      BY <1>5, <2>1, <2>2 DEF AwaitEvent, WellFormed, TypeOK
    <2>3. CASE payload[e] # "emitted"
      <3>1. /\ SuspendRun(r, e) /\ Drops(w, r) /\ UNCHANGED <<ckpts, picked, aged>>
            /\ payload' = [payload EXCEPT ![e] = "sentinel"]
        BY <1>5, <2>3 DEF AwaitEvent
      <3>2. /\ tasks' \in [Task -> TaskRow]
            /\ runs' \in [Run -> RunRow]
            /\ \A s \in Run : WellFormed(runs'[s])
            /\ \A s \in Run : runs[s].task # None => runs'[s].task = runs[s].task
        BY <2>1, <3>1, SuspendRunType, NoneAssumption
      <3> QED
        BY <3>1, <3>2 DEF Drops, TypeOK
    <2> QED
      BY <2>2, <2>3
  <1>6. ASSUME NEW w \in Worker, NEW r \in Run, ExtendClaim(w, r)
        PROVE  TypeOK'
    BY <1>6 DEF ExtendClaim, WellFormed, TypeOK, RunRow
  <1>7. ASSUME NEW w \in Worker, NEW lost \in SUBSET Run, WorkerLoses(w, lost)
        PROVE  TypeOK'
    BY <1>7 DEF WorkerLoses, WellFormed, TypeOK
  <1>8. ASSUME NEW t \in Task, NEW r \in Run, SpawnTask(t, r)
        PROVE  TypeOK'
    <2>1. /\ NewRun(t, 0, FALSE) \in RunRow
          /\ NewRun(t, 0, FALSE).task = t
          /\ NewRun(t, 0, FALSE).state # "absent"
      BY NewRunType
    <2>2. runs[r].task = None
      BY <1>8 DEF SpawnTask, WellFormed, TypeOK
    <2>3. tasks' \in [Task -> TaskRow]
      BY <1>8 DEF SpawnTask, WellFormed, TypeOK, TaskRow, TaskState, Active
    <2> QED
      BY <1>8, <2>1, <2>2, <2>3, NoneAssumption DEF SpawnTask, WellFormed, TypeOK
  <1>9. ASSUME NEW e \in Event, EmitEvent(e)
        PROVE  TypeOK'
    <2>1. \A r \in Run : /\ Woken(runs[r]) \in RunRow
                         /\ Woken(runs[r]).task = runs[r].task
                         /\ Woken(runs[r]).state = "pending"
      BY WokenRow DEF WellFormed, TypeOK
    <2>2. tasks' \in [Task -> TaskRow]
      <3>1. \A t \in Task : [tasks[t] EXCEPT !.state = "pending"] \in TaskRow
        BY DEF WellFormed, TypeOK, TaskRow, TaskState, Active
      <3> QED
        BY <1>9, <3>1 DEF EmitEvent, WellFormed, TypeOK
    <2>3. \A r \in Waiters(e) : runs[r].task # None
      BY NoneAssumption DEF Waiters, WellFormed, TypeOK
    <2> QED
      BY <1>9, <2>1, <2>2, <2>3 DEF EmitEvent, Waiters, WellFormed, TypeOK
  <1>10. ASSUME NEW t \in Task, CancelTask(t)
         PROVE  TypeOK'
    <2>1. \A r \in Run : /\ Cancelled(runs[r]) \in RunRow
                         /\ Cancelled(runs[r]).task = runs[r].task
                         /\ Cancelled(runs[r]).state = "cancelled"
      BY CancelledRow DEF WellFormed, TypeOK
    <2> QED
      BY <1>10, <2>1 DEF CancelTask, RunsOf, NoRow, WellFormed, TypeOK, TaskRow, TaskState, Settled
  <1>11. ASSUME NEW batch \in SUBSET Run, NEW u \in Upkeeper,
                CancelAged(u, batch) \/ ReadAged(u, batch) \/ CancelRead(u)
         PROVE  TypeOK'
    <2>1. CASE CancelAged(u, batch)
      BY <2>1, CancelRowsKeep DEF CancelAged, TypeOK
    <2>2. CASE ReadAged(u, batch)
      <3>1. \A r \in batch : runs[r].task # None
        BY <2>2 DEF ReadAged, AgedCandidates, TypeOK, WellFormed, NoRow
      <3> QED
        BY <2>2, <3>1 DEF ReadAged, TypeOK
    <2>3. CASE CancelRead(u)
      <3>1. aged[u] \in SUBSET Run /\ CancelRows(aged[u])
        BY <2>3 DEF CancelRead, TypeOK
      <3> QED
        BY <2>3, <3>1, CancelRowsKeep DEF CancelRead, TypeOK
    <2> QED
      BY <1>11, <2>1, <2>2, <2>3
  <1>12. ASSUME NEW u \in Upkeeper, NEW r \in Run, PickExpired(u, r)
         PROVE  TypeOK'
    BY <1>12, NoneAssumption DEF PickExpired, Expired, Active, WellFormed, TypeOK
  <1>13. ASSUME NEW u \in Upkeeper, NEW new \in Run, NEW delayed \in BOOLEAN,
                NEW tooOld \in BOOLEAN, FailPicked(u, new, delayed, tooOld)
         PROVE  TypeOK'
    <2>1. picked[u] \in Run /\ runs[picked[u]].state \notin NoRow
      BY <1>13 DEF FailPicked, WellFormed, TypeOK
    <2>2. DoFailRun(picked[u], new, delayed, tooOld)
      BY <1>13 DEF FailPicked
    <2>3. /\ tasks' \in [Task -> TaskRow]
          /\ runs' \in [Run -> RunRow]
          /\ \A s \in Run : WellFormed(runs'[s])
          /\ \A s \in Run : runs[s].task # None => runs'[s].task = runs[s].task
      BY <2>1, <2>2, DoFailRunType
    <2> QED
      BY <1>13, <2>3 DEF FailPicked, TypeOK
  <1>14. ASSUME NEW u \in Upkeeper, UpkeepAborts(u)
         PROVE  TypeOK'
    BY <1>14 DEF UpkeepAborts, WellFormed, TypeOK
  <1>15. ASSUME NEW batch \in SUBSET Task, CleanupTasks(batch)
         PROVE  TypeOK'
    <2>1. \A r \in Run : /\ Deleted(runs[r]) \in RunRow
                         /\ Deleted(runs[r]).task = runs[r].task
                         /\ Deleted(runs[r]).state = "deleted"
      BY DeletedRow DEF WellFormed, TypeOK
    <2>2. \A r \in Run : runs[r].task \in batch => runs[r].task # None
      BY NoneAssumption
    <2> QED
      BY <1>15, <2>1, <2>2 DEF CleanupTasks, WellFormed, TypeOK, TaskRow, NoRow
  <1>16. ASSUME NEW batch \in SUBSET Event, CleanupEvents(batch)
         PROVE  TypeOK'
    BY <1>16 DEF CleanupEvents, WellFormed, TypeOK
  <1>17. ASSUME NEW r \in Run, RunBecomesDue(r)
         PROVE  TypeOK'
    <2>1. /\ [runs[r] EXCEPT !.due = TRUE] \in RunRow
          /\ [runs[r] EXCEPT !.due = TRUE].task = runs[r].task
          /\ [runs[r] EXCEPT !.due = TRUE].state = runs[r].state
      BY DueRow DEF WellFormed, TypeOK
    <2>2. runs' = [runs EXCEPT ![r] = [runs[r] EXCEPT !.due = TRUE]]
      BY <1>17 DEF RunBecomesDue
    <2> QED
      BY <1>17, <2>1, <2>2 DEF RunBecomesDue, WellFormed, TypeOK
  <1>18. ASSUME NEW r \in Run, ClaimLapses(r)
         PROVE  TypeOK'
    BY <1>18 DEF ClaimLapses, WellFormed, TypeOK, RunRow
  <1>19. CASE UNCHANGED vars
    BY <1>19 DEF vars, WellFormed, TypeOK
  <1> QED
    BY <1>1, <1>2, <1>3, <1>4, <1>5, <1>6, <1>7, <1>8, <1>9, <1>10, <1>11, <1>12,
       <1>13, <1>14, <1>15, <1>16, <1>17, <1>18, <1>19
    DEF Next, WorkerStep, WorkerTaskStep, UpkeepStep, UpkeepFails, ClientStep, ClientTaskStep, TimePasses

(* Every reachable state is well typed: ids stay with their task, and what *)
(* a worker or an upkeep transaction holds was inserted once.              *)
THEOREM TypeCorrect == Spec => []TypeOK
  <1> QED
    BY TypeInit, TypeStep, PTL DEF Spec

----------------------------------------------------------------------------
(* Waits for events *)

(* The runs that do_fail_run touches are not asleep until an event.        *)
LEMMA DoFailRunSleepers ==
  ASSUME TypeOK, NEW r \in Run, NEW new \in Run,
         NEW delayed \in BOOLEAN, NEW tooOld \in BOOLEAN,
         runs[r].state \notin NoRow, DoFailRun(r, new, delayed, tooOld)
  PROVE  \A s \in Run : runs'[s].state = "sleeping" /\ runs'[s].wait # None
                           => runs'[s] = runs[s]
  <1> DEFINE t == runs[r].task
             next == tasks[t].attempts + 1
  <1>1. t \in Task /\ next \in Nat
    BY NoneAssumption DEF TypeOK, WellFormed, RunRow, TaskRow, NoRow
  <1>2. Failed(runs[r]).state = "failed"
    BY FailedRow DEF TypeOK
  <1>3. NewRun(t, next, delayed).wait = None
    BY <1>1, NewRunType
  <1> QED
    BY <1>2, <1>3 DEF DoFailRun, TypeOK

(* The operations on tasks and runs put nobody to sleep until an event and *)
(* leave the payloads alone.                                               *)
LEMMA NoNewSleeper ==
  ASSUME TypeOK,
         \/ \E w \in Worker : WorkerTaskStep(w)
         \/ \E u \in Upkeeper : UpkeepStep(u)
         \/ ClientTaskStep
         \/ TimePasses
  PROVE  /\ payload' = payload
         /\ \A r \in Run : runs'[r].state = "sleeping" /\ runs'[r].wait # None
              => runs[r].state = "sleeping" /\ runs'[r].wait = runs[r].wait
  <1> DEFINE Quiet == /\ payload' = payload
                      /\ \A r \in Run : runs'[r].state = "sleeping" /\ runs'[r].wait # None
                           => runs[r].state = "sleeping" /\ runs'[r].wait = runs[r].wait
  <1>1. ASSUME NEW w \in Worker, NEW batch \in SUBSET Run, ClaimTask(w, batch)
        PROVE  Quiet
    <2>1. \A r \in batch : Claimed(runs[r], w).state = "running"
      BY ClaimedRow DEF TypeOK
    <2> QED
      BY <1>1, <2>1 DEF ClaimTask
  <1>2. ASSUME NEW w \in Worker, NEW r \in Run, CompleteRun(w, r)
        PROVE  Quiet
    <2>1. Completed(runs[r]).state = "completed"
      BY CompletedRow DEF TypeOK
    <2> QED
      BY <1>2, <2>1 DEF CompleteRun, TypeOK
  <1>3. ASSUME NEW w \in Worker, NEW r \in Run, NEW new \in Run,
               NEW delayed \in BOOLEAN, NEW tooOld \in BOOLEAN,
               FailRun(w, r, new, delayed, tooOld)
        PROVE  Quiet
    BY <1>3, DoFailRunSleepers DEF FailRun, NoRow
  <1>4. ASSUME NEW w \in Worker, NEW r \in Run, ScheduleRun(w, r)
        PROVE  Quiet
    <2>1. runs[r] \in RunRow /\ None \in Event \cup {None}
      BY DEF TypeOK
    <2>2. Suspended(runs[r], None).wait = None
      BY <2>1, SuspendedRow
    <2> QED
      BY <1>4, <2>2 DEF ScheduleRun, SuspendRun, TypeOK
  <1>5. ASSUME NEW w \in Worker, NEW r \in Run, ExtendClaim(w, r)
        PROVE  Quiet
    BY <1>5 DEF ExtendClaim, TypeOK, RunRow
  <1>6. ASSUME NEW w \in Worker, NEW lost \in SUBSET Run, WorkerLoses(w, lost)
        PROVE  Quiet
    BY <1>6 DEF WorkerLoses
  <1>7. ASSUME NEW t \in Task, NEW r \in Run, SpawnTask(t, r)
        PROVE  Quiet
    <2>1. NewRun(t, 0, FALSE).wait = None
      BY NewRunType
    <2> QED
      BY <1>7, <2>1 DEF SpawnTask, TypeOK
  <1>8. ASSUME NEW t \in Task, CancelTask(t)
         PROVE  Quiet
    <2>1. \A r \in Run : Cancelled(runs[r]).state = "cancelled"
      BY CancelledRow DEF TypeOK
    <2> QED
      BY <1>8, <2>1 DEF CancelTask
  <1>9. ASSUME NEW batch \in SUBSET Run, NEW u \in Upkeeper,
               CancelAged(u, batch) \/ ReadAged(u, batch) \/ CancelRead(u)
         PROVE  Quiet
    <2>1. CASE CancelAged(u, batch)
      BY <2>1, CancelRowsKeep DEF CancelAged
    <2>2. CASE ReadAged(u, batch)
      BY <2>2 DEF ReadAged
    <2>3. CASE CancelRead(u)
      <3>1. aged[u] \in SUBSET Run /\ CancelRows(aged[u])
        BY <2>3 DEF CancelRead, TypeOK
      <3> QED
        BY <2>3, <3>1, CancelRowsKeep DEF CancelRead
    <2> QED
      BY <1>9, <2>1, <2>2, <2>3
  <1>10. ASSUME NEW u \in Upkeeper, NEW r \in Run, PickExpired(u, r)
         PROVE  Quiet
    BY <1>10 DEF PickExpired
  <1>11. ASSUME NEW u \in Upkeeper, NEW new \in Run, NEW delayed \in BOOLEAN,
                NEW tooOld \in BOOLEAN, FailPicked(u, new, delayed, tooOld)
         PROVE  Quiet
    <2>1. picked[u] \in Run /\ runs[picked[u]].state \notin NoRow
      BY <1>11 DEF FailPicked, TypeOK
    <2> QED
      BY <1>11, <2>1, DoFailRunSleepers DEF FailPicked
  <1>12. ASSUME NEW u \in Upkeeper, UpkeepAborts(u)
         PROVE  Quiet
    BY <1>12 DEF UpkeepAborts
  <1>13. ASSUME NEW batch \in SUBSET Task, CleanupTasks(batch)
         PROVE  Quiet
    <2>1. \A r \in Run : Deleted(runs[r]).wait = None
      BY DeletedRow DEF TypeOK
    <2> QED
      BY <1>13, <2>1 DEF CleanupTasks
  <1>14. ASSUME NEW r \in Run, RunBecomesDue(r)
         PROVE  Quiet
    BY <1>14 DEF RunBecomesDue, TypeOK, RunRow
  <1>15. ASSUME NEW r \in Run, ClaimLapses(r)
         PROVE  Quiet
    BY <1>15 DEF ClaimLapses, TypeOK, RunRow
  <1> QED
    BY <1>1, <1>2, <1>3, <1>4, <1>5, <1>6, <1>7, <1>8, <1>9, <1>10, <1>11, <1>12, <1>13, <1>14, <1>15
    DEF WorkerTaskStep, UpkeepStep, UpkeepFails, ClientTaskStep, TimePasses

----------------------------------------------------------------------------
(***************************************************************************)
(* max_attempts bounds the runs of a task in every execution: whichever    *)
(* workers and upkeep loops fail its runs, however often and however late. *)
(*                                                                         *)
(* The count of runs alone is not inductive.  A task gets another run when *)
(* attempts + 1 is within bounds, so attempts has to keep up with the      *)
(* runs; and it does because a run is only failed once it was claimed,     *)
(* which counts the first attempt.                                         *)
(***************************************************************************)

(* A run that was claimed, or that a worker or upkeep acts on.             *)
Started(r) ==
  \/ runs[r].claim # "none"
  \/ \E w \in Worker : r \in held[w]
  \/ \E u \in Upkeeper : picked[u] = r

Counted(t) ==
  /\ IsFiniteSet(AllRunsOf(t))
  /\ \/ Cardinality(AllRunsOf(t)) <= 1
     \/ /\ Cardinality(AllRunsOf(t)) <= tasks[t].attempts
        /\ Cardinality(AllRunsOf(t)) <= MaxAttempts

RetryInv ==
  /\ \A r \in Run : runs[r].task # None => tasks[runs[r].task].state # "absent"
  /\ \A r \in Run : Started(r) => runs[r].task # None /\ tasks[runs[r].task].attempts >= 1
  /\ \A t \in Task : Counted(t)

(* What is counted is bounded.                                             *)
LEMMA CountedBounds == (\A t \in Task : Counted(t)) => RetryBound
  <1> SUFFICES ASSUME \A t \in Task : Counted(t), NEW t \in Task
               PROVE  Cardinality(AllRunsOf(t)) <= MaxOf(1, MaxAttempts)
    BY DEF RetryBound
  <1>1. Cardinality(AllRunsOf(t)) \in Nat
    BY FS_CardinalityType DEF Counted
  <1> QED
    BY <1>1, MaxAttemptsAssumption DEF Counted, MaxOf

(* A step that inserts no row, lowers no count and starts nothing that was *)
(* not claimed.                                                            *)
LEMMA RetryKept ==
  ASSUME TypeOK, TypeOK', RetryInv,
         \A r \in Run : runs'[r].task = runs[r].task,
         \A t \in Task : /\ tasks'[t].attempts >= tasks[t].attempts
                         /\ tasks[t].state # "absent" => tasks'[t].state # "absent",
         \A r \in Run : Started(r)' => \/ Started(r)
                                       \/ /\ runs[r].task # None
                                          /\ tasks'[runs[r].task].attempts >= 1
  PROVE  RetryInv'
  <1>1. \A r \in Run : runs[r].task # None => runs[r].task \in Task
    BY DEF TypeOK, RunRow
  <1>2. \A t \in Task : tasks[t].attempts \in Nat /\ tasks'[t].attempts \in Nat
    BY DEF TypeOK, TaskRow
  <1>3. \A r \in Run : runs'[r].task # None => tasks'[runs'[r].task].state # "absent"
    BY <1>1 DEF RetryInv
  <1>4. ASSUME NEW r \in Run, Started(r)'
        PROVE  runs'[r].task # None /\ tasks'[runs'[r].task].attempts >= 1
    <2>1. CASE Started(r)
      <3>1. runs[r].task \in Task /\ tasks[runs[r].task].attempts >= 1
        BY <1>1, <2>1 DEF RetryInv
      <3> QED
        BY <1>2, <3>1, NoneAssumption
    <2>2. CASE ~Started(r)
      BY <1>4, <2>2
    <2> QED
      BY <2>1, <2>2
  <1>5. ASSUME NEW t \in Task PROVE Counted(t)'
    <2>1. AllRunsOf(t)' = AllRunsOf(t)
      BY DEF AllRunsOf
    <2>2. Counted(t) /\ Cardinality(AllRunsOf(t)) \in Nat
      BY FS_CardinalityType DEF RetryInv, Counted
    <2> QED
      BY <1>2, <2>1, <2>2 DEF Counted
  <1> QED
    BY <1>3, <1>4, <1>5 DEF RetryInv

(* do_fail_run of a run that was started: another run is inserted only     *)
(* when the count of attempts it is given covers it.                       *)
LEMMA DoFailRunRetry ==
  ASSUME TypeOK, TypeOK', RetryInv, NEW r \in Run, NEW new \in Run,
         NEW delayed \in BOOLEAN, NEW tooOld \in BOOLEAN,
         Started(r), runs[r].state \notin NoRow, DoFailRun(r, new, delayed, tooOld),
         \A w \in Worker : held'[w] \subseteq held[w],
         \A u \in Upkeeper : picked'[u] \in {picked[u], None}
  PROVE  RetryInv'
  <1> DEFINE t == runs[r].task
             next == tasks[t].attempts + 1
             failed == [runs EXCEPT ![r] = Failed(runs[r])]
  <1>1. t \in Task /\ next \in Nat /\ tasks[t].attempts \in Nat /\ tasks[t].attempts >= 1
    BY DEF TypeOK, WellFormed, RunRow, TaskRow, RetryInv
  <1>2. /\ Failed(runs[r]).task = t
        /\ Failed(runs[r]).claim = runs[r].claim
    BY FailedRow DEF TypeOK
  <1>3. \A s \in Run : Started(s) => runs[s].task # None /\ tasks[runs[s].task].attempts >= 1
    BY DEF RetryInv
  <1>4. \A u \in Upkeeper, s \in Run : picked'[u] = s => picked[u] = s
    <2>1. \A u \in Upkeeper : picked[u] \in Run \cup {None} /\ picked'[u] \in {picked[u], None}
      BY DEF TypeOK
    <2> QED
      BY <2>1, NoneAssumption
  <1>5. CASE AttemptsRemain(next) /\ ~tooOld
    <2>1. /\ runs[new].state = "absent" /\ new # r
          /\ tasks' = [tasks EXCEPT ![t] =
               [state |-> IF delayed THEN "sleeping" ELSE "pending", attempts |-> next]]
          /\ runs' = [failed EXCEPT ![new] = NewRun(t, next, delayed)]
      BY <1>5 DEF DoFailRun, NoRow
    <2>2. /\ runs'[new] = NewRun(t, next, delayed)
          /\ runs'[r] = Failed(runs[r])
          /\ \A s \in Run : s # new /\ s # r => runs'[s] = runs[s]
      BY <2>1 DEF TypeOK
    <2>3. /\ NewRun(t, next, delayed).task = t
          /\ NewRun(t, next, delayed).claim = "none"
      BY <1>1, NewRunType
    <2>4. /\ tasks'[t].state # "absent" /\ tasks'[t].attempts = next
          /\ \A u \in Task : u # t => tasks'[u] = tasks[u]
      BY <1>1, <2>1 DEF TypeOK
    <2>5. runs[new].task = None
      BY <2>1 DEF TypeOK, WellFormed
    <2>6. \A s \in Run : runs[s].task \in Task \cup {None}
      BY DEF TypeOK, RunRow
    <2>7. ASSUME NEW s \in Run, runs'[s].task # None
          PROVE  tasks'[runs'[s].task].state # "absent"
      <3>1. runs'[s].task = t \/ (runs'[s].task = runs[s].task /\ runs[s].task \in Task)
        BY <1>2, <2>2, <2>3, <2>6, <2>7
      <3> QED
        BY <2>4, <2>7, <3>1 DEF RetryInv
    <2>8. ASSUME NEW s \in Run, Started(s)'
          PROVE  runs'[s].task # None /\ tasks'[runs'[s].task].attempts >= 1
      <3>1. s = new \/ Started(s)
        BY <1>2, <1>4, <2>2, <2>8 DEF Started
      <3>2. CASE s = new \/ s = r
        BY <1>1, <1>2, <2>2, <2>3, <2>4, <3>2, NoneAssumption
      <3>3. CASE s # new /\ s # r
        <4>1. runs'[s] = runs[s] /\ runs[s].task \in Task /\ tasks[runs[s].task].attempts >= 1
          BY <1>3, <2>2, <2>6, <3>1, <3>3
        <4> QED
          BY <1>1, <2>4, <4>1, NoneAssumption
      <3> QED
        BY <3>2, <3>3
    <2>9. ASSUME NEW u \in Task PROVE Counted(u)'
      <3>1. Counted(u) /\ Cardinality(AllRunsOf(u)) \in Nat
        BY FS_CardinalityType DEF RetryInv, Counted
      <3>2. CASE u # t
        <4>1. AllRunsOf(u)' = AllRunsOf(u)
          BY <1>2, <2>2, <2>3, <2>5, <3>2, NoneAssumption DEF AllRunsOf
        <4> QED
          BY <2>4, <3>1, <3>2, <4>1 DEF Counted
      <3>3. CASE u = t
        <4>1. AllRunsOf(u)' = AllRunsOf(u) \cup {new}
          BY <1>2, <2>2, <2>3, <3>3 DEF AllRunsOf
        <4>2. new \notin AllRunsOf(u)
          BY <1>1, <2>5, <3>3, NoneAssumption DEF AllRunsOf
        <4>3. /\ IsFiniteSet(AllRunsOf(u) \cup {new})
              /\ Cardinality(AllRunsOf(u) \cup {new}) = Cardinality(AllRunsOf(u)) + 1
          BY <3>1, <4>2, FS_AddElement DEF Counted
        <4>4. next <= MaxAttempts
          BY <1>5 DEF AttemptsRemain
        <4>5. Cardinality(AllRunsOf(u)) <= tasks[t].attempts
          BY <1>1, <3>1, <3>3 DEF Counted
        <4>6. /\ Cardinality(AllRunsOf(u)) + 1 <= tasks'[u].attempts
              /\ Cardinality(AllRunsOf(u)) + 1 <= MaxAttempts
          BY <1>1, <2>4, <3>1, <3>3, <4>4, <4>5, MaxAttemptsAssumption
        <4> QED
          BY <4>1, <4>3, <4>6 DEF Counted
      <3> QED
        BY <3>2, <3>3
    <2> QED
      BY <2>7, <2>8, <2>9 DEF RetryInv
  <1>6. CASE (AttemptsRemain(next) /\ tooOld) \/ ~AttemptsRemain(next)
    <2>1. /\ runs' = failed
          /\ \/ tasks' = tasks
             \/ tasks' = [tasks EXCEPT ![t] = [state |-> "cancelled", attempts |-> next]]
      BY <1>6 DEF DoFailRun
    <2>2. /\ runs'[r] = Failed(runs[r])
          /\ \A s \in Run : s # r => runs'[s] = runs[s]
      BY <2>1 DEF TypeOK
    <2>3. \A s \in Run : runs'[s].task = runs[s].task /\ runs'[s].claim = runs[s].claim
      BY <1>2, <2>2
    <2>4. \A u \in Task : /\ tasks'[u].attempts >= tasks[u].attempts
                          /\ tasks[u].state # "absent" => tasks'[u].state # "absent"
      <3>1. \A u \in Task : tasks[u].attempts \in Nat
        BY DEF TypeOK, TaskRow
      <3> QED
        BY <1>1, <2>1, <3>1 DEF TypeOK
    <2>5. \A s \in Run : Started(s)' => Started(s)
      BY <1>4, <2>3 DEF Started
    <2> QED
      BY <2>3, <2>4, <2>5, RetryKept
  <1> QED
    BY <1>5, <1>6

(* The initial state: no row was inserted.                                 *)
LEMMA RetryInit == Init => RetryInv
  <1> SUFFICES ASSUME Init PROVE RetryInv
    OBVIOUS
  <1>1. \A r \in Run : runs[r].task = None /\ runs[r].claim = "none"
    BY DEF Init, NoRun
  <1>2. \A r \in Run : ~Started(r)
    BY <1>1, NoneAssumption DEF Init, Started
  <1>3. ASSUME NEW t \in Task PROVE Counted(t)
    <2>1. AllRunsOf(t) = {}
      BY <1>1, NoneAssumption DEF AllRunsOf
    <2> QED
      BY <2>1, FS_EmptySet DEF Counted
  <1> QED
    BY <1>1, <1>2, <1>3 DEF RetryInv

LEMMA RetryStep == TypeOK /\ RetryInv /\ [Next]_vars => RetryInv'
  <1> SUFFICES ASSUME TypeOK, RetryInv, [Next]_vars PROVE RetryInv'
    OBVIOUS
  <1> USE DEF RetryInv
  <1>0. TypeOK'
    BY TypeStep
  <1> DEFINE SameTasks == \A r \in Run : runs'[r].task = runs[r].task
             SameOrMore == \A t \in Task :
                             /\ tasks'[t].attempts >= tasks[t].attempts
                             /\ tasks[t].state # "absent" => tasks'[t].state # "absent"
             NoneStarted == \A r \in Run : Started(r)' => Started(r)
  <1>1. ASSUME SameTasks, SameOrMore, NoneStarted PROVE RetryInv'
    BY <1>0, <1>1, RetryKept
  <1>2. \A t \in Task : tasks[t].attempts \in Nat /\ tasks'[t].attempts \in Nat
    BY <1>0 DEF TypeOK, TaskRow
  <1>3. ASSUME tasks' = tasks PROVE SameOrMore
    BY <1>2, <1>3
  <1>4. ASSUME runs' = runs, tasks' = tasks, \A w \in Worker : held'[w] \subseteq held[w],
               \A u \in Upkeeper : picked'[u] \in {picked[u], None}
        PROVE  RetryInv'
    <2>1. SameTasks /\ SameOrMore
      BY <1>3, <1>4
    <2>2. NoneStarted
      BY <1>4, NoneAssumption DEF Started
    <2> QED
      BY <1>1, <2>1, <2>2
  <1>5. ASSUME NEW w \in Worker, NEW r \in Run, Drops(w, r)
        PROVE  \A v \in Worker : held'[v] \subseteq held[v]
    BY <1>5 DEF Drops, TypeOK
  <1>6. ASSUME NEW w \in Worker, NEW batch \in SUBSET Run, ClaimTask(w, batch)
        PROVE  RetryInv'
    <2>1. \A r \in batch : /\ Claimed(runs[r], w).task = runs[r].task
                           /\ runs[r].task \in Task
                           /\ runs[r].attempt \in Nat
      BY <1>6, ClaimedRow DEF ClaimTask, Claimable, TypeOK, WellFormed, RunRow
    <2>2. \A r \in Run : runs'[r] = IF r \in batch THEN Claimed(runs[r], w) ELSE runs[r]
      BY <1>6 DEF ClaimTask
    <2>3. PICK counted \in [{runs[r].task : r \in batch} -> batch] :
            tasks' = [t \in Task |->
               IF t \in {runs[r].task : r \in batch}
               THEN [state |-> "running",
                     attempts |-> MaxOf(tasks[t].attempts, runs[counted[t]].attempt + 1)]
               ELSE tasks[t]]
      BY <1>6 DEF ClaimTask
    <2>4. \A r \in batch : LET t == runs[r].task
                           IN  /\ tasks'[t].attempts =
                                    MaxOf(tasks[t].attempts, runs[counted[t]].attempt + 1)
                               /\ tasks'[t].state = "running"
                               /\ runs[counted[t]].attempt \in Nat
      BY <2>1, <2>3
    <2>5. \A r \in batch : LET t == runs[r].task
                           IN  tasks'[t].attempts >= tasks[t].attempts /\ tasks'[t].attempts >= 1
      BY <1>2, <2>1, <2>4 DEF MaxOf
    <2>6. SameTasks
      BY <2>1, <2>2
    <2>7. SameOrMore
      <3>1. ASSUME NEW t \in Task, t \notin {runs[r].task : r \in batch}
            PROVE  tasks'[t] = tasks[t]
        BY <2>3, <3>1
      <3> QED
        BY <1>2, <2>4, <2>5, <3>1
    <2>8. ASSUME NEW r \in Run, Started(r)', ~Started(r)
          PROVE  runs[r].task # None /\ tasks'[runs[r].task].attempts >= 1
      <3>1. r \in batch
        BY <1>6, <2>2, <2>8 DEF ClaimTask, Started, TypeOK
      <3> QED
        BY <2>1, <2>5, <3>1, NoneAssumption
    <2> QED
      BY <1>0, <2>6, <2>7, <2>8, RetryKept
  <1>7. ASSUME NEW w \in Worker, NEW r \in Run, CompleteRun(w, r)
        PROVE  RetryInv'
    <2>1. Completed(runs[r]).task = runs[r].task /\ Completed(runs[r]).claim = runs[r].claim
      BY CompletedRow DEF TypeOK
    <2>2. SameTasks /\ \A s \in Run : runs'[s].claim = runs[s].claim
      BY <1>7, <2>1 DEF CompleteRun, TypeOK
    <2>3. SameOrMore
      BY <1>2, <1>7 DEF CompleteRun, TypeOK, TaskRow
    <2>4. NoneStarted
      BY <1>5, <1>7, <2>2 DEF CompleteRun, Started
    <2> QED
      BY <1>1, <2>2, <2>3, <2>4
  <1>8. ASSUME NEW w \in Worker, NEW r \in Run, NEW new \in Run,
               NEW delayed \in BOOLEAN, NEW tooOld \in BOOLEAN,
               FailRun(w, r, new, delayed, tooOld)
        PROVE  RetryInv'
    <2>1. /\ \A v \in Worker : held'[v] \subseteq held[v]
          /\ \A u \in Upkeeper : picked'[u] \in {picked[u], None}
      BY <1>5, <1>8 DEF FailRun
    <2>2. CASE runs[r].state \in {"running", "sleeping"}
      <3>1. Started(r) /\ runs[r].state \notin NoRow /\ DoFailRun(r, new, delayed, tooOld)
        BY <1>8, <2>2 DEF FailRun, Started, NoRow
      <3> QED
        BY <1>0, <2>1, <3>1, DoFailRunRetry
    <2>3. CASE runs[r].state \notin {"running", "sleeping"}
      BY <1>4, <1>8, <2>1, <2>3 DEF FailRun
    <2> QED
      BY <2>2, <2>3
  <1>9. ASSUME NEW r \in Run, NEW wait \in Event \cup {None}, SuspendRun(r, wait),
               \A v \in Worker : held'[v] \subseteq held[v], picked' = picked
        PROVE  RetryInv'
    <2>0. runs[r] \in RunRow
      BY DEF TypeOK
    <2>1. /\ Suspended(runs[r], wait).task = runs[r].task
          /\ Suspended(runs[r], wait).claim = "none"
      BY <2>0, SuspendedRow
    <2>2. /\ SameTasks
          /\ \A s \in Run : runs'[s].claim \in {runs[s].claim, "none"}
      BY <1>9, <2>1 DEF SuspendRun, TypeOK
    <2>3. SameOrMore
      BY <1>2, <1>9 DEF SuspendRun, TypeOK, TaskRow
    <2>4. NoneStarted
      BY <1>9, <2>2 DEF Started
    <2> QED
      BY <1>1, <2>2, <2>3, <2>4
  <1>10. ASSUME NEW w \in Worker, NEW r \in Run, ScheduleRun(w, r)
         PROVE  RetryInv'
    BY <1>4, <1>5, <1>9, <1>10 DEF ScheduleRun
  <1>11. ASSUME NEW w \in Worker, NEW r \in Run, NEW e \in Event, AwaitEvent(w, r, e)
         PROVE  RetryInv'
    BY <1>4, <1>5, <1>9, <1>11 DEF AwaitEvent
  <1>12. ASSUME NEW w \in Worker, NEW r \in Run, ExtendClaim(w, r)
         PROVE  RetryInv'
    <2>1. /\ runs'[r].task = runs[r].task /\ runs[r].claim # "none"
          /\ \A s \in Run : s # r => runs'[s] = runs[s]
      BY <1>12 DEF ExtendClaim, TypeOK, RunRow
    <2>2. SameTasks /\ SameOrMore
      BY <1>3, <1>12, <2>1 DEF ExtendClaim
    <2>3. NoneStarted
      BY <1>12, <2>1 DEF ExtendClaim, Started
    <2> QED
      BY <1>1, <2>2, <2>3
  <1>13. ASSUME NEW w \in Worker, NEW lost \in SUBSET Run, WorkerLoses(w, lost)
         PROVE  RetryInv'
    BY <1>4, <1>13 DEF WorkerLoses, TypeOK
  <1>14. ASSUME NEW t \in Task, NEW r \in Run, SpawnTask(t, r)
         PROVE  RetryInv'
    <2>1. NewRun(t, 0, FALSE).task = t /\ NewRun(t, 0, FALSE).claim = "none"
      BY NewRunType
    <2>2. /\ tasks[t].state = "absent" /\ runs[r].task = None
          /\ runs'[r] = NewRun(t, 0, FALSE)
          /\ \A s \in Run : s # r => runs'[s] = runs[s]
          /\ tasks'[t].state = "pending"
          /\ \A u \in Task : u # t => tasks'[u] = tasks[u]
          /\ held' = held /\ picked' = picked
      BY <1>14 DEF SpawnTask, TypeOK, WellFormed
    <2>3. \A s \in Run : runs[s].task # t /\ runs[s].task \in Task \cup {None}
      BY <2>2, NoneAssumption DEF TypeOK, RunRow
    <2>4. \A s \in Run : runs'[s].task # None => tasks'[runs'[s].task].state # "absent"
      BY <2>1, <2>2, <2>3
    <2>5. ASSUME NEW s \in Run, Started(s)'
          PROVE  runs'[s].task # None /\ tasks'[runs'[s].task].attempts >= 1
      <3>1. Started(s)
        BY <2>1, <2>2, <2>5 DEF Started
      <3>2. s # r
        BY <2>2, <3>1
      <3> QED
        BY <2>2, <2>3, <3>1, <3>2
    <2>6. ASSUME NEW u \in Task PROVE Counted(u)'
      <3>1. CASE u # t
        <4>1. AllRunsOf(u)' = AllRunsOf(u)
          BY <2>1, <2>2, <3>1, NoneAssumption DEF AllRunsOf
        <4> QED
          BY <2>2, <3>1, <4>1 DEF Counted
      <3>2. CASE u = t
        <4>1. AllRunsOf(t)' = {r}
          BY <2>1, <2>2, <2>3 DEF AllRunsOf
        <4>2. IsFiniteSet({r}) /\ Cardinality({r}) = 1
          BY FS_Singleton
        <4>3. IsFiniteSet(AllRunsOf(t))' /\ Cardinality(AllRunsOf(t))' = 1
          BY <4>1, <4>2
        <4> QED
          BY <3>2, <4>3 DEF Counted
      <3> QED
        BY <3>1, <3>2
    <2> QED
      BY <2>4, <2>5, <2>6
  <1>15. ASSUME NEW e \in Event, EmitEvent(e)
         PROVE  RetryInv'
    <2>1. \A s \in Run : Woken(runs[s]).task = runs[s].task /\ Woken(runs[s]).claim = "none"
      BY WokenRow DEF TypeOK
    <2>2. SameTasks /\ \A s \in Run : runs'[s].claim \in {runs[s].claim, "none"}
      BY <1>15, <2>1 DEF EmitEvent
    <2>3. SameOrMore
      BY <1>2, <1>15 DEF EmitEvent, TypeOK, TaskRow
    <2>4. NoneStarted
      BY <1>15, <2>2 DEF EmitEvent, Started
    <2> QED
      BY <1>1, <2>2, <2>3, <2>4
  <1>16. ASSUME \/ \E t \in Task : CancelTask(t)
                \/ /\ \E batch \in SUBSET Run : CancelRows(batch)
                   /\ held' = held /\ picked' = picked
         PROVE  RetryInv'
    <2>1. CASE \E t \in Task : CancelTask(t)
      <3>1. \A s \in Run : /\ Cancelled(runs[s]).task = runs[s].task
                           /\ Cancelled(runs[s]).claim = runs[s].claim
        BY CancelledRow DEF TypeOK
      <3>2. SameTasks /\ \A s \in Run : runs'[s].claim = runs[s].claim
        BY <2>1, <3>1 DEF CancelTask
      <3>3. SameOrMore
        BY <1>2, <2>1 DEF CancelTask, TypeOK, TaskRow
      <3>4. NoneStarted
        BY <2>1, <3>2 DEF CancelTask, Started
      <3> QED
        BY <1>1, <3>2, <3>3, <3>4
    <2>2. CASE /\ \E batch \in SUBSET Run : CancelRows(batch)
               /\ held' = held /\ picked' = picked
      <3>1. SameTasks /\ \A s \in Run : runs'[s].claim = runs[s].claim
        BY <2>2, CancelRowsKeep
      <3>2. SameOrMore
        BY <1>2, <2>2, CancelRowsKeep
      <3>3. NoneStarted
        BY <2>2, <3>1 DEF Started
      <3> QED
        BY <1>1, <3>1, <3>2, <3>3
    <2> QED
      BY <1>16, <2>1, <2>2
  <1>24. ASSUME NEW batch \in SUBSET Run, NEW u \in Upkeeper,
                CancelAged(u, batch) \/ ReadAged(u, batch) \/ CancelRead(u)
         PROVE  RetryInv'
    BY <1>4, <1>16, <1>24 DEF CancelAged, ReadAged, CancelRead, TypeOK
  <1>17. ASSUME NEW u \in Upkeeper, NEW r \in Run, PickExpired(u, r)
         PROVE  RetryInv'
    <2>1. runs' = runs /\ tasks' = tasks /\ held' = held /\ runs[r].claim # "none"
      BY <1>17 DEF PickExpired, Expired
    <2>2. NoneStarted
      BY <1>17, <2>1 DEF PickExpired, Started, TypeOK
    <2> QED
      BY <1>1, <1>3, <2>1, <2>2
  <1>18. ASSUME NEW u \in Upkeeper, NEW new \in Run, NEW delayed \in BOOLEAN,
                NEW tooOld \in BOOLEAN, FailPicked(u, new, delayed, tooOld)
         PROVE  RetryInv'
    <2>1. /\ picked[u] \in Run /\ Started(picked[u])
          /\ runs[picked[u]].state \notin NoRow
          /\ DoFailRun(picked[u], new, delayed, tooOld)
          /\ held' = held /\ \A v \in Upkeeper : picked'[v] \in {picked[v], None}
      BY <1>18 DEF FailPicked, Started, TypeOK
    <2> QED
      BY <1>0, <2>1, DoFailRunRetry
  <1>19. ASSUME NEW u \in Upkeeper, UpkeepAborts(u)
         PROVE  RetryInv'
    BY <1>4, <1>19 DEF UpkeepAborts, TypeOK
  <1>20. ASSUME NEW batch \in SUBSET Task, CleanupTasks(batch)
         PROVE  RetryInv'
    <2>1. \A s \in Run : Deleted(runs[s]).task = runs[s].task /\ Deleted(runs[s]).claim = "none"
      BY DeletedRow DEF TypeOK
    <2>2. SameTasks /\ \A s \in Run : runs'[s].claim \in {runs[s].claim, "none"}
      BY <1>20, <2>1 DEF CleanupTasks
    <2>3. SameOrMore
      BY <1>2, <1>20 DEF CleanupTasks, TypeOK, TaskRow
    <2>4. NoneStarted
      BY <1>20, <2>2 DEF CleanupTasks, Started
    <2> QED
      BY <1>1, <2>2, <2>3, <2>4
  <1>21. ASSUME NEW batch \in SUBSET Event, CleanupEvents(batch)
         PROVE  RetryInv'
    BY <1>4, <1>21 DEF CleanupEvents
  <1>22. ASSUME NEW r \in Run, RunBecomesDue(r) \/ ClaimLapses(r)
         PROVE  RetryInv'
    <2>1. /\ \A s \in Run : s # r => runs'[s] = runs[s]
          /\ runs'[r].task = runs[r].task
          /\ runs'[r].claim # "none" => runs[r].claim # "none"
          /\ tasks' = tasks /\ held' = held /\ picked' = picked
      BY <1>22 DEF RunBecomesDue, ClaimLapses, TypeOK, RunRow
    <2>2. NoneStarted
      BY <2>1 DEF Started
    <2> QED
      BY <1>1, <1>3, <2>1, <2>2
  <1>23. ASSUME UNCHANGED vars PROVE RetryInv'
    BY <1>4, <1>23 DEF vars
  <1> QED
    BY <1>6, <1>7, <1>8, <1>10, <1>11, <1>12, <1>13, <1>14, <1>15, <1>16, <1>17,
       <1>18, <1>19, <1>20, <1>21, <1>22, <1>23, <1>24
    DEF Next, WorkerStep, WorkerTaskStep, UpkeepStep, UpkeepFails, ClientStep, ClientTaskStep, TimePasses

(* A task never gets more runs than max_attempts (storage.rs:56).          *)
THEOREM RetryBoundHolds == Spec => []RetryBound
  <1>1. RetryInv => RetryBound
    BY CountedBounds DEF RetryInv
  <1> QED
    BY <1>1, TypeCorrect, RetryInit, RetryStep, PTL DEF Spec

----------------------------------------------------------------------------
(***************************************************************************)
(* Exclusive execution, as long as the deadlines are met: no claim lapses  *)
(* under its worker, no wait reaches its timeout, no claim falls into a    *)
(* cancellation by age, and one upkeep loop runs at most.  The inductive   *)
(* invariant is PromptInv.                                                 *)
(***************************************************************************)

(* PromptInv gives what the run checks: exclusive access, one active run,  *)
(* and workers that only execute what is theirs.                           *)
LEMMA PromptInvSuffices ==
  PromptInv => OneActiveRun /\ ExclusiveExecution /\ HeldIsRunning
  <1> SUFFICES ASSUME PromptInv PROVE OneActiveRun /\ ExclusiveExecution /\ HeldIsRunning
    OBVIOUS
  <1>1. OneActiveRun
    BY DEF PromptInv, OneLiveRun, Live, OneActiveRun
  <1>2. HeldIsRunning
    BY DEF PromptInv, HeldAgrees, HeldIsRunning
  <1>3. ExclusiveExecution
    <2> SUFFICES ASSUME NEW v \in Worker, NEW w \in Worker,
                        NEW r \in held[v], NEW s \in held[w],
                        runs[r].task = runs[s].task
                 PROVE  v = w /\ r = s
      BY DEF ExclusiveExecution
    <2>1. r \in Run /\ s \in Run
      BY DEF PromptInv, TypeOK
    <2>2. Live(r) /\ Live(s)
      BY DEF PromptInv, HeldAgrees, Live, Active
    <2>3. r = s
      BY <2>1, <2>2 DEF PromptInv, OneLiveRun
    <2>4. runs[r].owner = v /\ runs[s].owner = w
      BY DEF PromptInv, HeldAgrees
    <2> QED
      BY <2>3, <2>4
  <1> QED
    BY <1>1, <1>2, <1>3

(* do_fail_run of the running run of a task: it is over, and its           *)
(* replacement, if there is one, is the only live run of the task.         *)
LEMMA DoFailRunPrompt ==
  ASSUME PromptInv, NEW r \in Run, NEW new \in Run,
         NEW delayed \in BOOLEAN, NEW tooOld \in BOOLEAN,
         runs[r].state = "running", DoFailRun(r, new, delayed, tooOld)
  PROVE  /\ OneLiveRun'
         /\ \A s \in Run : RowAgrees(s)'
         /\ \A s \in Run : s # r /\ runs[s].state # "absent" => runs'[s] = runs[s]
  <1> DEFINE t == runs[r].task
             next == tasks[t].attempts + 1
             failed == [runs EXCEPT ![r] = Failed(runs[r])]
  <1>0. TypeOK
    BY DEF PromptInv
  <1>1. t \in Task /\ next \in Nat
    BY <1>0, NoneAssumption DEF TypeOK, WellFormed, RunRow, TaskRow
  <1>2. /\ Failed(runs[r]).state = "failed"
        /\ Failed(runs[r]).wait = None
        /\ Failed(runs[r]).task = t
    BY <1>0, FailedRow DEF TypeOK
  <1>3. \A s \in Run : s # r /\ runs[s].task = t => ~Live(s)
    BY DEF PromptInv, OneLiveRun, Live, Active
  <1>4. \A s \in Run : s # r /\ runs[s].task = t => runs[s].state # "running"
    BY <1>3 DEF Live, Active
  <1>5. CASE AttemptsRemain(next) /\ ~tooOld
    <2>1. /\ runs[new].state = "absent" /\ new # r
          /\ tasks' = [tasks EXCEPT ![t] =
               [state |-> IF delayed THEN "sleeping" ELSE "pending", attempts |-> next]]
          /\ runs' = [failed EXCEPT ![new] = NewRun(t, next, delayed)]
      BY <1>5 DEF DoFailRun
    <2>2. /\ runs'[new] = NewRun(t, next, delayed)
          /\ runs'[r] = Failed(runs[r])
          /\ \A s \in Run : s # new /\ s # r => runs'[s] = runs[s]
      BY <1>0, <2>1 DEF TypeOK
    <2>3. /\ NewRun(t, next, delayed).task = t
          /\ NewRun(t, next, delayed).state \in {"pending", "sleeping"}
          /\ NewRun(t, next, delayed).wait = None
          /\ NewRun(t, next, delayed).claim = "none"
      BY <1>1, NewRunType
    <2>4. /\ tasks'[t].state \in {"pending", "sleeping"}
          /\ \A u \in Task : u # t => tasks'[u] = tasks[u]
      BY <1>0, <1>1, <2>1 DEF TypeOK
    <2>5. OneLiveRun'
      BY <1>2, <1>3, <2>2, <2>3 DEF PromptInv, OneLiveRun, Live, Settled, Active
    <2>6. ASSUME NEW s \in Run PROVE RowAgrees(s)'
      <3>1. CASE s = new
        BY <2>2, <2>3, <2>4, <3>1 DEF RowAgrees, Active
      <3>2. CASE s = r
        BY <1>2, <2>2, <2>4, <3>2 DEF RowAgrees, Active
      <3>3. CASE s # new /\ s # r
        <4>1. RowAgrees(s) /\ runs[s].task \in Task \cup {None}
          BY <1>0 DEF PromptInv, TypeOK, RunRow
        <4>2. runs[s].task = None => runs[s].state = "absent"
          BY <1>0 DEF TypeOK, WellFormed
        <4> QED
          BY <1>4, <2>2, <2>4, <3>3, <4>1, <4>2 DEF RowAgrees, Active
      <3> QED
        BY <3>1, <3>2, <3>3
    <2> QED
      BY <2>1, <2>2, <2>5, <2>6
  <1>6. CASE (AttemptsRemain(next) /\ tooOld) \/ ~AttemptsRemain(next)
    <2>1. /\ runs' = failed
          /\ \/ tasks' = tasks
             \/ tasks' = [tasks EXCEPT ![t] = [state |-> "cancelled", attempts |-> next]]
      BY <1>6 DEF DoFailRun
    <2>2. /\ runs'[r] = Failed(runs[r])
          /\ \A s \in Run : s # r => runs'[s] = runs[s]
      BY <1>0, <2>1 DEF TypeOK
    <2>3. /\ tasks[t].state # "absent" => tasks'[t].state # "absent"
          /\ \A u \in Task : u # t => tasks'[u] = tasks[u]
      BY <1>0, <1>1, <2>1 DEF TypeOK
    <2>4. OneLiveRun'
      BY <1>2, <2>2 DEF PromptInv, OneLiveRun, Live, Active
    <2>5. ASSUME NEW s \in Run PROVE RowAgrees(s)'
      <3>1. CASE s = r
        BY <1>1, <1>2, <2>2, <2>3, <3>1, NoneAssumption
        DEF PromptInv, RowAgrees, Active
      <3>2. CASE s # r
        <4>1. RowAgrees(s) /\ runs[s].task \in Task \cup {None}
          BY <1>0 DEF PromptInv, TypeOK, RunRow
        <4>2. runs[s].task = None => runs[s].state = "absent"
          BY <1>0 DEF TypeOK, WellFormed
        <4> QED
          BY <1>4, <2>2, <2>3, <3>2, <4>1, <4>2 DEF RowAgrees, Active
      <3> QED
        BY <3>1, <3>2
    <2> QED
      BY <2>2, <2>4, <2>5
  <1> QED
    BY <1>5, <1>6

(* suspend_run of the running run of a task.                               *)
LEMMA SuspendRunPrompt ==
  ASSUME PromptInv, NEW r \in Run, NEW wait \in Event \cup {None},
         runs[r].state = "running", SuspendRun(r, wait)
  PROVE  /\ OneLiveRun'
         /\ \A s \in Run : RowAgrees(s)'
         /\ \A s \in Run : s # r => runs'[s] = runs[s]
  <1> DEFINE t == runs[r].task
  <1>0. TypeOK
    BY DEF PromptInv
  <1>1. t \in Task
    BY <1>0, NoneAssumption DEF TypeOK, WellFormed, RunRow
  <1>2. /\ Suspended(runs[r], wait).task = t
        /\ Suspended(runs[r], wait).state = "sleeping"
        /\ Suspended(runs[r], wait).wait = wait
        /\ Suspended(runs[r], wait).due = FALSE
        /\ Suspended(runs[r], wait).claim = "none"
    <2>1. runs[r] \in RunRow
      BY <1>0 DEF TypeOK
    <2> QED
      BY <2>1, SuspendedRow
  <1>3. /\ runs'[r] = Suspended(runs[r], wait)
        /\ \A s \in Run : s # r => runs'[s] = runs[s]
    BY <1>0 DEF SuspendRun, TypeOK
  <1>4. /\ tasks'[t].state = "sleeping"
        /\ \A u \in Task : u # t => tasks'[u] = tasks[u]
    BY <1>0, <1>1 DEF SuspendRun, TypeOK, TaskRow
  <1>5. \A s \in Run : s # r /\ runs[s].task = t => runs[s].state # "running"
    BY DEF PromptInv, OneLiveRun, Live, Active
  <1>6. OneLiveRun'
    BY <1>2, <1>3 DEF PromptInv, OneLiveRun, Live, Active
  <1>7. ASSUME NEW s \in Run PROVE RowAgrees(s)'
    <2>1. CASE s = r
      BY <1>2, <1>3, <1>4, <2>1 DEF RowAgrees, Active
    <2>2. CASE s # r
      <3>1. RowAgrees(s) /\ runs[s].task \in Task \cup {None}
        BY <1>0 DEF PromptInv, TypeOK, RunRow
      <3>2. runs[s].task = None => runs[s].state = "absent"
        BY <1>0 DEF TypeOK, WellFormed
      <3> QED
        BY <1>3, <1>4, <1>5, <2>2, <3>1, <3>2 DEF RowAgrees, Active
    <2> QED
      BY <2>1, <2>2
  <1> QED
    BY <1>3, <1>6, <1>7

(* What a worker gives up is no longer held, and nobody else holds it.     *)
LEMMA DropPrompt ==
  ASSUME PromptInv, NEW w \in Worker, NEW r \in Run, r \in held[w], Drops(w, r),
         \A s \in Run : s # r /\ runs[s].state # "absent" => runs'[s] = runs[s],
         picked' = picked
  PROVE  HeldAgrees' /\ PickedAgrees'
  <1>0. TypeOK
    BY DEF PromptInv
  <1>1. /\ \A v \in Worker : held'[v] \subseteq held[v]
        /\ r \notin held'[w]
    BY <1>0 DEF Drops, TypeOK
  <1>2. \A v \in Worker : r \notin held'[v]
    BY <1>1 DEF PromptInv, HeldAgrees
  <1>3. ASSUME NEW v \in Worker, NEW s \in held'[v]
        PROVE  runs'[s].state = "running" /\ runs'[s].owner = v /\ runs'[s].claim = "held"
    <2>1. s \in held[v] /\ s \in Run /\ s # r
      BY <1>0, <1>1, <1>2, <1>3 DEF TypeOK
    <2>2. runs[s].state = "running" /\ runs[s].owner = v /\ runs[s].claim = "held"
      BY <2>1 DEF PromptInv, HeldAgrees
    <2> QED
      BY <2>1, <2>2
  <1>4. ASSUME NEW u \in Upkeeper, picked'[u] # None
        PROVE  runs'[picked'[u]].state = "running" /\ runs'[picked'[u]].claim = "lapsed"
    <2>1. /\ picked[u] \in Run
          /\ runs[picked[u]].state = "running" /\ runs[picked[u]].claim = "lapsed"
      BY <1>0, <1>4 DEF PromptInv, PickedAgrees, TypeOK
    <2>2. picked[u] # r
      BY <2>1 DEF PromptInv, HeldAgrees
    <2> QED
      BY <2>1, <2>2
  <1> QED
    BY <1>3, <1>4 DEF HeldAgrees, PickedAgrees

(* An operation that leaves every running row alone leaves workers and     *)
(* upkeep in agreement with the table.                                     *)
LEMMA RunningUntouched ==
  ASSUME PromptInv, held' = held, picked' = picked,
         \A s \in Run : runs[s].state = "running" => runs'[s] = runs[s]
  PROVE  HeldAgrees' /\ PickedAgrees'
  <1>1. HeldAgrees'
    BY DEF PromptInv, HeldAgrees, TypeOK
  <1>2. PickedAgrees'
    BY DEF PromptInv, PickedAgrees, TypeOK
  <1> QED
    BY <1>1, <1>2

(* Cancelling runs that do not run, and with them their tasks.             *)
LEMMA CancelPrompt ==
  ASSUME PromptInv, NEW batch \in SUBSET Run, NEW gone \in SUBSET Task,
         \A r \in batch : runs[r].state # "running",
         \A t \in gone : tasks[t].state \in {"pending", "sleeping"} \cup Settled,
         runs' = [r \in Run |-> IF r \in batch THEN Cancelled(runs[r]) ELSE runs[r]],
         \A t \in Task : tasks'[t].state = IF t \in gone THEN "cancelled" ELSE tasks[t].state,
         \A r \in batch : runs[r].state # "absent",
         held' = held, picked' = picked
  PROVE  OneLiveRun' /\ (\A s \in Run : RowAgrees(s)') /\ HeldAgrees' /\ PickedAgrees'
  <1>0. TypeOK
    BY DEF PromptInv
  <1>1. \A r \in Run : /\ Cancelled(runs[r]).task = runs[r].task
                       /\ Cancelled(runs[r]).state = "cancelled"
                       /\ Cancelled(runs[r]).wait = runs[r].wait
    BY <1>0, CancelledRow DEF TypeOK
  <1>2. OneLiveRun'
    BY <1>1 DEF PromptInv, OneLiveRun, Live, Active
  <1>3. ASSUME NEW s \in Run PROVE RowAgrees(s)'
    <2>1. RowAgrees(s) /\ runs[s].task \in Task \cup {None}
      BY <1>0 DEF PromptInv, TypeOK, RunRow
    <2>2. runs[s].task = None => runs[s].state = "absent"
      BY <1>0 DEF TypeOK, WellFormed
    <2>3. CASE s \in batch
      BY <1>1, <2>1, <2>2, <2>3, NoneAssumption DEF RowAgrees, Active
    <2>4. CASE s \notin batch
      <3>1. runs'[s] = runs[s]
        BY <2>4
      <3>2. runs[s].state = "running" => runs[s].task \notin gone
        BY <2>1 DEF RowAgrees, Settled
      <3> QED
        BY <2>1, <2>2, <3>1, <3>2, NoneAssumption DEF RowAgrees, Active
    <2> QED
      BY <2>3, <2>4
  <1>4. HeldAgrees' /\ PickedAgrees'
    BY RunningUntouched
  <1> QED
    BY <1>2, <1>3, <1>4

(* Claiming: a run that can be claimed waits for nothing, and is the only  *)
(* live run of a task that nobody executes.                                *)
LEMMA ClaimPrompt ==
  ASSUME PromptInv, NEW w \in Worker, NEW batch \in SUBSET Run, ClaimTask(w, batch)
  PROVE  OneLiveRun' /\ (\A s \in Run : RowAgrees(s)') /\ HeldAgrees' /\ PickedAgrees'
  <1>0. TypeOK
    BY DEF PromptInv
  <1>1. \A r \in batch : /\ Claimed(runs[r], w).task = runs[r].task
                         /\ Claimed(runs[r], w).state = "running"
                         /\ Claimed(runs[r], w).wait = runs[r].wait
                         /\ Claimed(runs[r], w).owner = w
                         /\ Claimed(runs[r], w).claim = "held"
    BY <1>0, ClaimedRow DEF TypeOK
  <1>2. \A r \in batch : /\ runs[r].state \in {"pending", "sleeping"} /\ runs[r].due
                         /\ tasks[runs[r].task].state \in {"pending", "sleeping"}
                         /\ runs[r].task \in Task
    BY <1>0, NoneAssumption DEF ClaimTask, Claimable, TypeOK, WellFormed, RunRow
  <1>3. \A r \in batch : runs[r].wait = None
    BY <1>2 DEF PromptInv, RowAgrees
  <1>4. /\ \A r \in batch : runs'[r] = Claimed(runs[r], w)
        /\ \A r \in Run : r \notin batch => runs'[r] = runs[r]
        /\ \A r \in batch : tasks'[runs[r].task].state = "running"
        /\ \A t \in Task : (\A r \in batch : runs[r].task # t) => tasks'[t] = tasks[t]
    BY <1>2 DEF ClaimTask
  <1>5. OneLiveRun'
    BY <1>1, <1>2, <1>4 DEF PromptInv, OneLiveRun, Live, Active
  <1>6. ASSUME NEW s \in Run PROVE RowAgrees(s)'
    <2>1. RowAgrees(s) /\ runs[s].task \in Task \cup {None}
      BY <1>0 DEF PromptInv, TypeOK, RunRow
    <2>2. CASE s \in batch
      BY <1>1, <1>3, <1>4, <2>2 DEF RowAgrees
    <2>3. CASE s \notin batch
      <3>1. runs[s].task \in Task => tasks'[runs[s].task].state \in {"running", tasks[runs[s].task].state}
        BY <1>4
      <3>2. runs[s].task = None => runs[s].state = "absent"
        BY <1>0 DEF TypeOK, WellFormed
      <3> QED
        BY <1>4, <2>1, <2>3, <3>1, <3>2 DEF RowAgrees, Active
    <2> QED
      BY <2>2, <2>3
  <1>7. HeldAgrees'
    <2> SUFFICES ASSUME NEW v \in Worker, NEW r \in held'[v]
                 PROVE  runs'[r].state = "running" /\ runs'[r].owner = v /\ runs'[r].claim = "held"
      BY DEF HeldAgrees
    <2>1. CASE r \in held[v]
      <3>1. /\ runs[r].state = "running" /\ runs[r].owner = v /\ runs[r].claim = "held"
            /\ r \in Run
        BY <1>0, <2>1 DEF PromptInv, HeldAgrees, TypeOK
      <3> QED
        BY <1>2, <1>4, <3>1
    <2>2. CASE r \notin held[v]
      <3>1. v = w /\ r \in batch
        BY <1>0, <2>2 DEF ClaimTask, TypeOK
      <3> QED
        BY <1>1, <1>4, <3>1
    <2> QED
      BY <2>1, <2>2
  <1>8. PickedAgrees'
    BY <1>0, <1>2, <1>4 DEF PromptInv, PickedAgrees, ClaimTask, TypeOK
  <1> QED
    BY <1>5, <1>6, <1>7, <1>8

(* Emitting an event: a waiter stays the live run of its task, which then  *)
(* has no run that is executed.                                            *)
LEMMA EmitPrompt ==
  ASSUME PromptInv, NEW e \in Event, EmitEvent(e)
  PROVE  OneLiveRun' /\ (\A s \in Run : RowAgrees(s)') /\ HeldAgrees' /\ PickedAgrees'
  <1>0. TypeOK
    BY DEF PromptInv
  <1>1. \A r \in Run : /\ Woken(runs[r]).task = runs[r].task
                       /\ Woken(runs[r]).state = "pending"
                       /\ Woken(runs[r]).wait = None
                       /\ Woken(runs[r]).claim = "none"
    BY <1>0, WokenRow DEF TypeOK
  <1>2. \A r \in Waiters(e) : /\ r \in Run /\ Live(r) /\ runs[r].task \in Task
                              /\ runs[r].state \in {"sleeping", "cancelled"}
    BY <1>0, NoneAssumption DEF PromptInv, RowAgrees, Waiters, Live, TypeOK, WellFormed, RunRow
  <1>3. /\ \A r \in Waiters(e) : runs'[r] = Woken(runs[r])
        /\ \A r \in Run : r \notin Waiters(e) => runs'[r] = runs[r]
    BY <1>2 DEF EmitEvent
  <1>4. /\ \A r \in Waiters(e) : tasks'[runs[r].task].state = "pending"
        /\ \A t \in Task : (\A r \in Waiters(e) : runs[r].task # t) => tasks'[t] = tasks[t]
    <2>1. \A t \in Task : [tasks[t] EXCEPT !.state = "pending"].state = "pending"
      BY <1>0 DEF TypeOK, TaskRow
    <2> QED
      BY <1>2, <2>1 DEF EmitEvent
  <1>5. OneLiveRun'
    BY <1>1, <1>2, <1>3 DEF PromptInv, OneLiveRun, Live, Active
  <1>6. ASSUME NEW s \in Run PROVE RowAgrees(s)'
    <2>1. RowAgrees(s) /\ runs[s].task \in Task \cup {None}
      BY <1>0 DEF PromptInv, TypeOK, RunRow
    <2>2. CASE s \in Waiters(e)
      BY <1>1, <1>3, <1>4, <2>2 DEF RowAgrees
    <2>3. CASE s \notin Waiters(e)
      <3>1. runs[s].task \in Task => tasks'[runs[s].task].state \in {"pending", tasks[runs[s].task].state}
        BY <1>4
      <3>2. runs[s].task = None => runs[s].state = "absent"
        BY <1>0 DEF TypeOK, WellFormed
      <3>3. runs[s].state = "running" => \A r \in Waiters(e) : runs[r].task # runs[s].task
        BY <1>2, <2>3 DEF PromptInv, OneLiveRun, Live, Active
      <3> QED
        BY <1>3, <1>4, <2>1, <2>3, <3>1, <3>2, <3>3, NoneAssumption DEF RowAgrees, Active
    <2> QED
      BY <2>2, <2>3
  <1>7. HeldAgrees' /\ PickedAgrees'
    <2>1. \A s \in Run : runs[s].state = "running" => runs'[s] = runs[s]
      BY <1>2, <1>3
    <2>2. held' = held /\ picked' = picked
      BY DEF EmitEvent
    <2> QED
      BY <2>1, <2>2, RunningUntouched
  <1> QED
    BY <1>5, <1>6, <1>7

(* Failing a claim that upkeep has read: nobody executes the run, and with *)
(* one upkeep loop nobody else has read it.                                *)
LEMMA FailPickedPrompt ==
  ASSUME PromptInv, Deadlines, NEW u \in Upkeeper, NEW new \in Run,
         NEW delayed \in BOOLEAN, NEW tooOld \in BOOLEAN,
         FailPicked(u, new, delayed, tooOld)
  PROVE  OneLiveRun' /\ (\A s \in Run : RowAgrees(s)') /\ HeldAgrees' /\ PickedAgrees'
  <1>0. TypeOK
    BY DEF PromptInv
  <1> DEFINE r == picked[u]
  <1>1. /\ r \in Run /\ runs[r].state = "running" /\ runs[r].claim = "lapsed"
        /\ DoFailRun(r, new, delayed, tooOld)
        /\ picked' = [picked EXCEPT ![u] = None] /\ held' = held
    BY <1>0 DEF FailPicked, PromptInv, PickedAgrees, TypeOK
  <1> HIDE DEF r
  <1>2. /\ OneLiveRun' /\ (\A s \in Run : RowAgrees(s)')
        /\ \A s \in Run : s # r /\ runs[s].state # "absent" => runs'[s] = runs[s]
    BY <1>1, DoFailRunPrompt
  <1>3. HeldAgrees'
    BY <1>0, <1>1, <1>2 DEF PromptInv, HeldAgrees, TypeOK
  <1>4. PickedAgrees'
    BY <1>0, <1>1 DEF PickedAgrees, TypeOK, Deadlines
  <1> QED
    BY <1>2, <1>3, <1>4

(* Deleting settled tasks: their runs are not executed.                    *)
LEMMA CleanupPrompt ==
  ASSUME PromptInv, NEW batch \in SUBSET Task, CleanupTasks(batch)
  PROVE  OneLiveRun' /\ (\A s \in Run : RowAgrees(s)') /\ HeldAgrees' /\ PickedAgrees'
  <1>0. TypeOK
    BY DEF PromptInv
  <1>1. \A s \in Run : /\ Deleted(runs[s]).task = runs[s].task
                       /\ Deleted(runs[s]).state = "deleted"
                       /\ Deleted(runs[s]).wait = None
    BY <1>0, DeletedRow DEF TypeOK
  <1>2. \A s \in Run : runs'[s] = IF runs[s].task \in batch THEN Deleted(runs[s]) ELSE runs[s]
    BY DEF CleanupTasks
  <1>3. \A t \in Task : tasks'[t].state = IF t \in batch THEN "deleted" ELSE tasks[t].state
    BY <1>0 DEF CleanupTasks, TypeOK, TaskRow
  <1>4. OneLiveRun'
    BY <1>1, <1>2 DEF PromptInv, OneLiveRun, Live, Active
  <1>5. \A s \in Run : runs[s].state = "running" => runs[s].task \notin batch
    BY DEF PromptInv, RowAgrees, CleanupTasks, Settled
  <1>6. ASSUME NEW s \in Run PROVE RowAgrees(s)'
    <2>1. RowAgrees(s) /\ runs[s].task \in Task \cup {None}
      BY <1>0 DEF PromptInv, TypeOK, RunRow
    <2>2. CASE runs[s].task \in batch
      BY <1>1, <1>2, <1>3, <2>2 DEF RowAgrees, Active
    <2>3. CASE runs[s].task \notin batch
      <3>1. runs[s].task = None => runs[s].state = "absent"
        BY <1>0 DEF TypeOK, WellFormed
      <3> QED
        BY <1>2, <1>3, <2>1, <2>3, <3>1 DEF RowAgrees, Active
    <2> QED
      BY <2>2, <2>3
  <1>7. HeldAgrees' /\ PickedAgrees'
    <2>1. \A s \in Run : runs[s].state = "running" => runs'[s] = runs[s]
      BY <1>2, <1>5
    <2>2. held' = held /\ picked' = picked
      BY DEF CleanupTasks
    <2> QED
      BY <2>1, <2>2, RunningUntouched
  <1> QED
    BY <1>4, <1>6, <1>7

(* Time: a run that waits for an event does not become due, and a claim    *)
(* does not lapse while its run is executed.                               *)
LEMMA TimePrompt ==
  ASSUME PromptInv, Deadlines, NEW r \in Run, RunBecomesDue(r) \/ ClaimLapses(r)
  PROVE  OneLiveRun' /\ (\A s \in Run : RowAgrees(s)') /\ HeldAgrees' /\ PickedAgrees'
  <1>0. TypeOK
    BY DEF PromptInv
  <1>1. /\ \A s \in Run : s # r => runs'[s] = runs[s]
        /\ runs'[r].task = runs[r].task /\ runs'[r].state = runs[r].state
        /\ runs'[r].wait = runs[r].wait /\ runs'[r].owner = runs[r].owner
        /\ tasks' = tasks /\ held' = held /\ picked' = picked
    BY <1>0 DEF RunBecomesDue, ClaimLapses, TypeOK, RunRow
  <1>2. OneLiveRun'
    BY <1>1 DEF PromptInv, OneLiveRun, Live
  <1>3. CASE RunBecomesDue(r)
    <2>1. runs[r].wait = None /\ runs'[r].claim = runs[r].claim
      BY <1>0, <1>3 DEF RunBecomesDue, Deadlines, TypeOK, RunRow
    <2>2. \A s \in Run : RowAgrees(s)'
      BY <1>1, <2>1 DEF PromptInv, RowAgrees
    <2>3. HeldAgrees'
      BY <1>0, <1>1, <2>1 DEF PromptInv, HeldAgrees, TypeOK
    <2>4. PickedAgrees'
      BY <1>0, <1>1, <2>1 DEF PromptInv, PickedAgrees, TypeOK
    <2> QED
      BY <1>2, <2>2, <2>3, <2>4
  <1>4. CASE ClaimLapses(r)
    <2>1. /\ runs[r].claim = "held" /\ runs'[r].claim = "lapsed"
          /\ runs'[r].due = runs[r].due /\ runs[r].state \in Active
          /\ \A w \in Worker : r \notin held[w]
      BY <1>0, <1>4 DEF ClaimLapses, Deadlines, TypeOK, RunRow
    <2>2. \A s \in Run : RowAgrees(s)'
      BY <1>1, <2>1 DEF PromptInv, RowAgrees
    <2>3. HeldAgrees'
      BY <1>0, <1>1, <2>1 DEF PromptInv, HeldAgrees, TypeOK
    <2>4. PickedAgrees'
      BY <1>0, <1>1, <2>1 DEF PromptInv, PickedAgrees, TypeOK
    <2> QED
      BY <1>2, <2>2, <2>3, <2>4
  <1> QED
    BY <1>3, <1>4

LEMMA PromptInit == Init => PromptInv
  <1> SUFFICES ASSUME Init PROVE PromptInv
    OBVIOUS
  <1>1. \A r \in Run : runs[r] = NoRun
    BY DEF Init
  <1>2. (\A r \in Run : RowAgrees(r)) /\ OneLiveRun
    BY <1>1 DEF RowAgrees, OneLiveRun, Live, NoRun, Active
  <1>3. HeldAgrees /\ PickedAgrees
    BY DEF Init, HeldAgrees, PickedAgrees
  <1> QED
    BY <1>2, <1>3, TypeInit DEF PromptInv, Init

(* No cancellation by age is interrupted.                                  *)
LEMMA NothingAged ==
  ASSUME Deadlines, PromptInv
  PROVE  /\ \A u \in Upkeeper : ~CancelRead(u)
         /\ \A u \in Upkeeper, batch \in SUBSET Run : ~ReadAged(u, batch)
         /\ [Next]_vars => \A u \in Upkeeper : aged'[u] = {}
  <1>1. PromptCancels /\ \A u \in Upkeeper : aged[u] = {}
    BY DEF Deadlines, PromptInv
  <1>2. /\ \A u \in Upkeeper : ~CancelRead(u)
        /\ \A u \in Upkeeper, batch \in SUBSET Run : ~ReadAged(u, batch)
    BY <1>1 DEF CancelRead, ReadAged
  <1>3. ASSUME [Next]_vars PROVE aged' = aged \/ \E u \in Upkeeper : UpkeepAborts(u)
    BY <1>2, <1>3
    DEF Next, WorkerStep, WorkerTaskStep, UpkeepStep, UpkeepFails, ClientStep, ClientTaskStep, TimePasses,
        vars, ClaimTask, CompleteRun, FailRun, ScheduleRun, AwaitEvent, ExtendClaim, WorkerLoses, SpawnTask,
        EmitEvent, CancelTask, CancelAged, PickExpired, FailPicked, CleanupTasks, CleanupEvents,
        RunBecomesDue, ClaimLapses
  <1>4. ASSUME NEW u \in Upkeeper, UpkeepAborts(u) PROVE \A v \in Upkeeper : aged'[v] = {}
    BY <1>1, <1>4 DEF UpkeepAborts, PromptInv, TypeOK
  <1> QED
    BY <1>1, <1>2, <1>3, <1>4

(* Every operation keeps PromptInv while the deadlines are met.            *)
LEMMA PromptStep == ASSUME Deadlines, PromptInv, [Next]_vars PROVE PromptInv'
  <1> DEFINE Goal == /\ OneLiveRun' /\ (\A s \in Run : RowAgrees(s)')
                     /\ HeldAgrees' /\ PickedAgrees'
  <1>0. TypeOK /\ TypeOK'
    BY TypeStep DEF PromptInv
  <1>1. ASSUME NEW w \in Worker, NEW batch \in SUBSET Run, ClaimTask(w, batch)
        PROVE  Goal
    BY <1>1, ClaimPrompt
  <1>2. ASSUME NEW w \in Worker, NEW r \in Run, CompleteRun(w, r)
        PROVE  Goal
    <2> DEFINE t == runs[r].task
    <2>1. r \in held[w] /\ runs[r].state = "running" /\ t \in Task
      BY <1>0, <1>2, NoneAssumption
      DEF CompleteRun, PromptInv, HeldAgrees, TypeOK, WellFormed, RunRow
    <2>2. /\ Completed(runs[r]).task = t /\ Completed(runs[r]).wait = None
          /\ Completed(runs[r]).state = "completed"
      BY <1>0, CompletedRow DEF TypeOK
    <2>3. /\ runs'[r] = Completed(runs[r])
          /\ \A s \in Run : s # r => runs'[s] = runs[s]
          /\ tasks'[t].state = "completed"
          /\ \A u \in Task : u # t => tasks'[u] = tasks[u]
          /\ Drops(w, r) /\ picked' = picked
      BY <1>0, <1>2, <2>1 DEF CompleteRun, TypeOK, TaskRow
    <2>4. OneLiveRun'
      BY <2>2, <2>3 DEF PromptInv, OneLiveRun, Live, Active
    <2>5. ASSUME NEW s \in Run PROVE RowAgrees(s)'
      <3>1. RowAgrees(s) /\ runs[s].task \in Task \cup {None}
        BY <1>0 DEF PromptInv, TypeOK, RunRow
      <3>2. runs[s].task = None => runs[s].state = "absent"
        BY <1>0 DEF TypeOK, WellFormed
      <3>3. s # r /\ runs[s].task = t => runs[s].state # "running"
        BY <2>1 DEF PromptInv, OneLiveRun, Live, Active
      <3>4. CASE s = r
        BY <2>2, <2>3, <3>4 DEF RowAgrees, Active
      <3>5. CASE s # r
        BY <2>3, <3>1, <3>2, <3>3, <3>5 DEF RowAgrees, Active
      <3> QED
        BY <3>4, <3>5
    <2>6. HeldAgrees' /\ PickedAgrees'
      BY <2>1, <2>3, DropPrompt
    <2> QED
      BY <2>4, <2>5, <2>6
  <1>3. ASSUME NEW w \in Worker, NEW r \in Run, NEW new \in Run,
               NEW delayed \in BOOLEAN, NEW tooOld \in BOOLEAN,
               FailRun(w, r, new, delayed, tooOld)
        PROVE  Goal
    <2>1. /\ r \in held[w] /\ runs[r].state = "running"
          /\ DoFailRun(r, new, delayed, tooOld) /\ Drops(w, r) /\ picked' = picked
      BY <1>3 DEF FailRun, PromptInv, HeldAgrees
    <2>2. /\ OneLiveRun' /\ (\A s \in Run : RowAgrees(s)')
          /\ \A s \in Run : s # r /\ runs[s].state # "absent" => runs'[s] = runs[s]
      BY <2>1, DoFailRunPrompt
    <2>3. HeldAgrees' /\ PickedAgrees'
      BY <2>1, <2>2, DropPrompt
    <2> QED
      BY <2>2, <2>3
  <1>4. ASSUME NEW w \in Worker, NEW r \in Run, NEW wait \in Event \cup {None},
               r \in held[w], SuspendRun(r, wait), Drops(w, r), picked' = picked
        PROVE  Goal
    <2>1. runs[r].state = "running"
      BY <1>4 DEF PromptInv, HeldAgrees
    <2>2. /\ OneLiveRun' /\ (\A s \in Run : RowAgrees(s)')
          /\ \A s \in Run : s # r => runs'[s] = runs[s]
      BY <1>4, <2>1, SuspendRunPrompt
    <2>3. HeldAgrees' /\ PickedAgrees'
      BY <1>4, <2>2, DropPrompt
    <2> QED
      BY <2>2, <2>3
  <1>5. ASSUME UNCHANGED <<tasks, runs>>, UNCHANGED <<held, picked>>
        PROVE  Goal
    BY <1>5 DEF PromptInv, OneLiveRun, Live, RowAgrees, HeldAgrees, PickedAgrees
  <1>6. ASSUME NEW w \in Worker, NEW r \in Run, ScheduleRun(w, r)
        PROVE  Goal
    <2>1. /\ r \in held[w] /\ SuspendRun(r, None) /\ Drops(w, r) /\ picked' = picked
      BY <1>6 DEF ScheduleRun, Suspendable, PromptInv, HeldAgrees
    <2> QED
      BY <1>4, <2>1
  <1>7. ASSUME NEW w \in Worker, NEW r \in Run, NEW e \in Event, AwaitEvent(w, r, e)
        PROVE  Goal
    BY <1>4, <1>5, <1>7 DEF AwaitEvent
  <1>8. ASSUME NEW w \in Worker, NEW r \in Run, ExtendClaim(w, r)
        PROVE  Goal
    BY <1>8 DEF ExtendClaim, PromptInv, HeldAgrees
  <1>9. ASSUME NEW w \in Worker, NEW lost \in SUBSET Run, WorkerLoses(w, lost)
        PROVE  Goal
    <2>1. /\ UNCHANGED <<tasks, runs, picked>>
          /\ \A v \in Worker : held'[v] \subseteq held[v]
      BY <1>0, <1>9 DEF WorkerLoses, TypeOK
    <2> QED
      BY <2>1 DEF PromptInv, OneLiveRun, Live, RowAgrees, HeldAgrees, PickedAgrees
  <1>10. ASSUME NEW t \in Task, NEW r \in Run, SpawnTask(t, r)
         PROVE  Goal
    <2>1. /\ NewRun(t, 0, FALSE).task = t
          /\ NewRun(t, 0, FALSE).state = "pending"
          /\ NewRun(t, 0, FALSE).wait = None
          /\ NewRun(t, 0, FALSE).claim = "none"
      BY DEF NewRun, NoRun
    <2>2. /\ tasks[t].state = "absent" /\ runs[r].state = "absent"
          /\ runs'[r] = NewRun(t, 0, FALSE)
          /\ \A s \in Run : s # r => runs'[s] = runs[s]
          /\ tasks'[t].state = "pending"
          /\ \A u \in Task : u # t => tasks'[u] = tasks[u]
          /\ held' = held /\ picked' = picked
      BY <1>0, <1>10 DEF SpawnTask, TypeOK
    <2>3. \A s \in Run : runs[s].task # t
      BY <2>2, NoneAssumption DEF PromptInv, RowAgrees
    <2>4. OneLiveRun'
      <3>1. \A s \in Run : s # r => runs'[s] = runs[s] /\ runs'[s].task # runs'[r].task
        BY <2>1, <2>2, <2>3
      <3> QED
        BY <3>1 DEF PromptInv, OneLiveRun, Live
    <2>5. ASSUME NEW s \in Run PROVE RowAgrees(s)'
      <3>1. RowAgrees(s) /\ runs[s].task \in Task \cup {None}
        BY <1>0 DEF PromptInv, TypeOK, RunRow
      <3>2. runs[s].task = None => runs[s].state = "absent"
        BY <1>0 DEF TypeOK, WellFormed
      <3>3. CASE s = r
        BY <2>1, <2>2, <3>3 DEF RowAgrees, Active
      <3>4. CASE s # r
        BY <2>2, <2>3, <3>1, <3>2, <3>4 DEF RowAgrees, Active
      <3> QED
        BY <3>3, <3>4
    <2>6. HeldAgrees' /\ PickedAgrees'
      BY <2>2, RunningUntouched
    <2> QED
      BY <2>4, <2>5, <2>6
  <1>11. ASSUME NEW e \in Event, EmitEvent(e)
         PROVE  Goal
    BY <1>11, EmitPrompt
  <1>12. ASSUME NEW t \in Task, CancelTask(t)
         PROVE  Goal
    <2> DEFINE batch == {r \in Run : r \in RunsOf(t) /\ runs[r].state # "completed"}
               gone == {t}
    <2>1. /\ tasks[t].state \in {"pending", "sleeping"} \cup Settled
          /\ \A u \in Task : tasks'[u].state = IF u \in gone THEN "cancelled" ELSE tasks[u].state
          /\ runs' = [r \in Run |-> IF r \in batch THEN Cancelled(runs[r]) ELSE runs[r]]
          /\ held' = held /\ picked' = picked
      BY <1>0, <1>12 DEF CancelTask, Cancellable, TypeOK, TaskRow, TaskState, Active, NoRow
    <2>2. \A r \in batch : runs[r].state # "running" /\ runs[r].state # "absent"
      BY <1>12 DEF RunsOf, PromptInv, RowAgrees, CancelTask, Cancellable, NoRow
    <2>3. batch \in SUBSET Run /\ gone \in SUBSET Task
      OBVIOUS
    <2> HIDE DEF batch, gone
    <2>4. \A u \in gone : tasks[u].state \in {"pending", "sleeping"} \cup Settled
      BY <2>1 DEF gone
    <2> QED
      BY <2>1, <2>2, <2>3, <2>4, CancelPrompt
  <1>13. ASSUME NEW u \in Upkeeper, NEW batch \in SUBSET Run, CancelAged(u, batch)
         PROVE  Goal
    <2> DEFINE gone == {t \in Task : \E r \in batch : runs[r].task = t}
    <2>1. /\ \A t \in Task : tasks'[t].state = IF t \in gone THEN "cancelled" ELSE tasks[t].state
          /\ runs' = [r \in Run |-> IF r \in batch THEN Cancelled(runs[r]) ELSE runs[r]]
          /\ held' = held /\ picked' = picked
      BY <1>0, <1>13, CancelAgedIs DEF TypeOK, TaskRow
    <2>2. \A r \in batch : runs[r].state # "running" /\ runs[r].state # "absent"
      BY <1>13, CancelAgedIs DEF PromptInv, RowAgrees, NoRow
    <2>3. \A t \in gone : tasks[t].state \in {"pending", "sleeping"} \cup Settled
      BY <1>13, CancelAgedIs
    <2>4. gone \in SUBSET Task
      OBVIOUS
    <2> HIDE DEF gone
    <2> QED
      BY <2>1, <2>2, <2>3, <2>4, CancelPrompt
  <1>14. ASSUME NEW u \in Upkeeper, NEW r \in Run, PickExpired(u, r)
         PROVE  Goal
    <2>1. runs[r].state = "running" /\ runs[r].claim = "lapsed"
      BY <1>14 DEF PickExpired, Expired, PromptInv, RowAgrees
    <2>2. PickedAgrees'
      BY <1>0, <1>14, <2>1 DEF PickExpired, PromptInv, PickedAgrees, TypeOK
    <2> QED
      BY <1>14, <2>2 DEF PickExpired, PromptInv, OneLiveRun, Live, RowAgrees, HeldAgrees
  <1>15. ASSUME NEW u \in Upkeeper, NEW new \in Run, NEW delayed \in BOOLEAN,
                NEW tooOld \in BOOLEAN, FailPicked(u, new, delayed, tooOld)
         PROVE  Goal
    BY <1>15, FailPickedPrompt
  <1>16. ASSUME NEW u \in Upkeeper, UpkeepAborts(u)
         PROVE  Goal
    <2>1. PickedAgrees'
      BY <1>0, <1>16 DEF UpkeepAborts, PromptInv, PickedAgrees, TypeOK
    <2> QED
      BY <1>16, <2>1 DEF UpkeepAborts, PromptInv, OneLiveRun, Live, RowAgrees, HeldAgrees
  <1>17. ASSUME NEW batch \in SUBSET Task, CleanupTasks(batch)
         PROVE  Goal
    BY <1>17, CleanupPrompt
  <1>18. ASSUME NEW batch \in SUBSET Event, CleanupEvents(batch)
         PROVE  Goal
    BY <1>5, <1>18 DEF CleanupEvents
  <1>19. ASSUME NEW r \in Run, RunBecomesDue(r) \/ ClaimLapses(r)
         PROVE  Goal
    BY <1>19, TimePrompt
  <1>20. ASSUME UNCHANGED vars PROVE Goal
    BY <1>5, <1>20 DEF vars
  <1>21. ~(\E u \in Upkeeper : CancelRead(u) \/ \E batch \in SUBSET Run : ReadAged(u, batch))
    BY NothingAged
  <1>22. Goal
    BY <1>1, <1>2, <1>3, <1>6, <1>7, <1>8, <1>9, <1>10, <1>11, <1>12,
       <1>13, <1>14, <1>15, <1>16, <1>17, <1>18, <1>19, <1>20, <1>21
    DEF Next, WorkerStep, WorkerTaskStep, UpkeepStep, UpkeepFails, ClientStep, ClientTaskStep, TimePasses
  <1> QED
    BY <1>0, <1>22, NothingAged DEF PromptInv

LEMMA PromptInvHolds == ASSUME Deadlines PROVE Spec => []PromptInv
  <1>1. PromptInv /\ [Next]_vars => PromptInv'
    BY PromptStep
  <1> QED
    BY <1>1, PromptInit, PTL DEF Spec

(* A task has one active run at most: an operation that inserts a run, or  *)
(* puts one back in the queue, does so when no other is left               *)
(* (storage.rs:431, 872, 1268).                                            *)
THEOREM OneActiveRunHolds == ASSUME Deadlines PROVE Spec => []OneActiveRun
  BY PromptInvHolds, PromptInvSuffices, PTL

(* A task is executed by one worker at a time, as the context of a task    *)
(* assumes (context.rs:123).                                               *)
THEOREM ExclusiveExecutionHolds == ASSUME Deadlines PROVE Spec => []ExclusiveExecution
  BY PromptInvHolds, PromptInvSuffices, PTL

(* While deadlines are met, a cancellation by age that nothing falls into  *)
(* among them, what a worker executes is running and claimed by it,        *)
(* although no statement but extend_claim compares the two                 *)
(* (storage.rs:590).                                                       *)
THEOREM HeldIsRunningHolds == ASSUME Deadlines PROVE Spec => []HeldIsRunning
  BY PromptInvHolds, PromptInvSuffices, PTL

----------------------------------------------------------------------------
(***************************************************************************)
(* TaskStore implements TaskLifecycle, for every value of the constants,   *)
(* while the deadlines are met: each step is mapped to a step of the life  *)
(* of tasks or to none.                                                    *)
(***************************************************************************)

(* The mapping *)

(* The worker that executes a run of a task is the holder of the task.     *)
HolderAgrees ==
  \A w \in Worker, t \in Task : Executes(w, t) => HolderOf(t) = w

LEMMA HolderIs == PromptInv => HolderAgrees
  <1> SUFFICES ASSUME PromptInv, NEW w \in Worker, NEW t \in Task, Executes(w, t)
               PROVE  HolderOf(t) = w
    BY DEF HolderAgrees
  <1>1. ExclusiveExecution
    BY PromptInvSuffices
  <1>2. \A v \in Worker : Executes(v, t) => v = w
    BY <1>1 DEF ExclusiveExecution, Executes
  <1> QED
    BY <1>2 DEF HolderOf

LEMMA HolderNone ==
  ASSUME NEW t \in Task, \A w \in Worker : ~Executes(w, t)
  PROVE  HolderOf(t) = None
  BY DEF HolderOf

LEMMA HolderNoneNext ==
  ASSUME NEW t \in Task, \A w \in Worker : ~Executes(w, t)'
  PROVE  HolderOf(t)' = None
  BY DEF HolderOf

LEMMA HolderIsNext == PromptInv' => HolderAgrees'
  <1>1. PromptInv => HolderAgrees
    BY HolderIs
  <1> QED
    BY <1>1, PTL

(* A step after which a task has the workers that executed it, or those    *)
(* and no other.                                                           *)
LEMMA HoldersStay ==
  ASSUME PromptInv, PromptInv', NEW t \in Task,
         \A w \in Worker : Executes(w, t)' <=> Executes(w, t)
  PROVE  HolderOf(t)' = HolderOf(t)
  <1>1. CASE \E w \in Worker : Executes(w, t)
    <2>1. PICK w \in Worker : Executes(w, t)
      BY <1>1
    <2>2. HolderOf(t) = w
      BY <2>1, HolderIs DEF HolderAgrees
    <2>3. HolderOf(t)' = w
      BY <2>1, HolderIsNext DEF HolderAgrees
    <2> QED
      BY <2>2, <2>3
  <1>2. CASE \A w \in Worker : ~Executes(w, t)
    BY <1>2, HolderNone, HolderNoneNext
  <1> QED
    BY <1>1, <1>2

(* The run keeps its task; it is never given to another. *)
TasksStay == \A s \in Run : runs[s].task # None => runs'[s].task = runs[s].task

(* An operation that takes no run from a worker and gives it none.         *)
LEMMA HeldStays ==
  ASSUME PromptInv, PromptInv', held' = held, TasksStay
  PROVE  \A t \in Task : HolderOf(t)' = HolderOf(t)
  <1>1. \A w \in Worker : \A r \in held[w] : r \in Run /\ runs'[r].task = runs[r].task
    BY DEF PromptInv, TypeOK, TasksStay
  <1>2. \A w \in Worker, t \in Task : Executes(w, t)' <=> Executes(w, t)
    BY <1>1 DEF Executes
  <1> QED
    BY <1>2, HoldersStay

(* A worker gives up a run: its task has no holder, the others keep theirs. *)
LEMMA HeldDropped ==
  ASSUME PromptInv, PromptInv', NEW w \in Worker, NEW r \in held[w],
         Drops(w, r), TasksStay
  PROVE  \A t \in Task : HolderOf(t)' = IF t = runs[r].task THEN None ELSE HolderOf(t)
  <1>1. /\ \A v \in Worker : \A s \in held[v] : s \in Run /\ runs'[s].task = runs[s].task
        /\ \A v \in Worker : held'[v] = IF v = w THEN held[v] \ {r} ELSE held[v]
    BY DEF PromptInv, TypeOK, TasksStay, Drops
  <1>2. ExclusiveExecution
    BY PromptInvSuffices
  <1>3. ASSUME NEW t \in Task, t # runs[r].task
        PROVE  \A v \in Worker : Executes(v, t)' <=> Executes(v, t)
    BY <1>1, <1>3 DEF Executes
  <1>4. ASSUME NEW t \in Task, t = runs[r].task
        PROVE  \A v \in Worker : ~Executes(v, t)'
    <2> SUFFICES ASSUME NEW v \in Worker, NEW s \in held'[v], runs'[s].task = t
                 PROVE  FALSE
      BY DEF Executes
    <2>1. s \in held[v] /\ runs[s].task = runs[r].task
      BY <1>1, <1>4
    <2>2. v = w /\ s = r
      BY <1>2, <2>1 DEF ExclusiveExecution
    <2> QED
      BY <1>1, <2>2
  <1> QED
    BY <1>3, <1>4, HoldersStay, HolderNoneNext

(* A task that is executed is neither waiting nor settled.                 *)
LEMMA ExecutedIsExecuting ==
  ASSUME PromptInv, NEW r \in Run, runs[r].state = "running"
  PROVE  /\ runs[r].task \in Task
         /\ tasks[runs[r].task].state = "running"
         /\ PhaseOf(runs[r].task) = "executing"
  <1>1. runs[r].task \in Task
    BY NoneAssumption DEF PromptInv, TypeOK, WellFormed, RunRow
  <1>2. tasks[runs[r].task].state = "running"
    BY DEF PromptInv, RowAgrees
  <1>3. HasActiveRun(runs[r].task)
    BY DEF HasActiveRun, Active
  <1> QED
    BY <1>1, <1>2, <1>3 DEF PhaseOf

(* The run keeps its task, and can be executed if it could before. *)
Kept(r) ==
  /\ runs'[r].task = runs[r].task
  /\ runs'[r].state \in Active <=> runs[r].state \in Active

(* A step that concerns the tasks of a batch.                              *)
Concerns(batch) ==
  /\ \A r \in Run : \/ Kept(r)
                    \/ runs'[r].task \in batch /\ runs[r].task \in batch \cup {None}
  /\ \A r \in Run : runs'[r].task \notin batch /\ runs'[r].wait # None
                      => runs[r].wait # None /\ runs'[r].task = runs[r].task
  /\ \A t \in Task \ batch : tasks'[t].state = tasks[t].state

(* The tasks of the batch come to a phase; the others stay as they are.    *)
Becomes(batch, to) ==
  /\ Concerns(batch)
  /\ \A t \in batch : PhaseOf(t)' = to
  /\ \A t \in batch : tasks'[t].state \in {"pending", "sleeping"} => HasActiveRun(t)'
  /\ \A t \in batch : tasks'[t].state # "failed"
  /\ \A r \in Run : runs'[r].task \in batch /\ runs'[r].wait # None
       => tasks'[runs'[r].task].state \in {"pending", "sleeping", "cancelled"}

LEMMA BatchMoves ==
  ASSUME LifeInv, TypeOK', NEW batch \in SUBSET Task, NEW to, Becomes(batch, to)
  PROVE  /\ \A t \in Task : PhaseOf(t)' = IF t \in batch THEN to ELSE PhaseOf(t)
         /\ WaitersAgree' /\ WaitingTaskHasRun'
         /\ \A t \in Task : tasks'[t].state # "failed"
  <1>0. /\ Concerns(batch)
        /\ \A t \in batch : PhaseOf(t)' = to
        /\ \A t \in batch : tasks'[t].state \in {"pending", "sleeping"} => HasActiveRun(t)'
        /\ \A t \in batch : tasks'[t].state # "failed"
        /\ \A r \in Run : runs'[r].task \in batch /\ runs'[r].wait # None
             => tasks'[runs'[r].task].state \in {"pending", "sleeping", "cancelled"}
    BY DEF Becomes
  <1>1. ASSUME NEW t \in Task \ batch PROVE HasActiveRun(t)' <=> HasActiveRun(t)
    <2>1. t # None
      BY NoneAssumption
    <2>2. \A r \in Run : runs[r].task = t \/ runs'[r].task = t => Kept(r)
      BY <1>0, <2>1 DEF Concerns
    <2> QED
      BY <2>2 DEF HasActiveRun, Kept
  <1>2. \A t \in Task \ batch : PhaseOf(t)' = PhaseOf(t)
    BY <1>0, <1>1 DEF Concerns, PhaseOf
  <1>3. WaitingTaskHasRun'
    <2> SUFFICES ASSUME NEW t \in Task, tasks'[t].state \in {"pending", "sleeping"}
                 PROVE  HasActiveRun(t)'
      BY DEF WaitingTaskHasRun, HasActiveRun
    <2>1. CASE t \in batch
      BY <1>0, <2>1
    <2>2. CASE t \notin batch
      <3>1. tasks[t].state \in {"pending", "sleeping"}
        BY <1>0, <2>2 DEF Concerns
      <3>2. HasActiveRun(t)
        BY <3>1 DEF LifeInv, WaitingTaskHasRun, HasActiveRun
      <3> QED
        BY <1>1, <2>2, <3>2
    <2> QED
      BY <2>1, <2>2
  <1>4. WaitersAgree'
    <2> SUFFICES ASSUME NEW r \in Run, runs'[r].wait # None
                 PROVE  tasks'[runs'[r].task].state \in {"pending", "sleeping", "cancelled"}
      BY DEF WaitersAgree
    <2>1. runs'[r].task \in Task
      BY NoneAssumption DEF TypeOK, WellFormed, RunRow
    <2>2. CASE runs'[r].task \notin batch
      <3>1. runs[r].wait # None /\ runs'[r].task = runs[r].task
        BY <1>0, <2>2 DEF Concerns
      <3> QED
        BY <1>0, <2>1, <2>2, <3>1 DEF Concerns, LifeInv, WaitersAgree
    <2> QED
      BY <1>0, <2>2
  <1>5. \A t \in Task : tasks'[t].state # "failed"
    BY <1>0 DEF Concerns, LifeInv
  <1> QED
    BY <1>0, <1>2, <1>3, <1>4, <1>5


----------------------------------------------------------------------------
(* The steps *)

(* The tasks of a batch move to a phase where nobody executes them.        *)
Moves(batch, to) ==
  /\ \A t \in Task : PhaseOf(t)' = IF t \in batch THEN to ELSE PhaseOf(t)
  /\ \A t \in Task : HolderOf(t)' = IF t \in batch THEN None ELSE HolderOf(t)

LEMMA MoveIs ==
  ASSUME NEW batch, NEW to, Moves(batch, to)
  PROVE  Lifecycle!Move(batch, to)
  BY DEF Lifecycle!Move, Moves

(* do_fail_run of the run that a task executes. *)
LEMMA DoFailRunBecomes ==
  ASSUME LifeInv, TypeOK', NEW r \in Run, NEW t \in Task, t = runs[r].task, NEW new \in Run,
         NEW delayed \in BOOLEAN, NEW tooOld \in BOOLEAN,
         runs[r].state = "running", DoFailRun(r, new, delayed, tooOld)
  PROVE  /\ TasksStay
         /\ \E to \in {"waiting", "cancelled", "exhausted"} : Becomes({t}, to)
  <1> DEFINE next == tasks[t].attempts + 1
             failed == [runs EXCEPT ![r] = Failed(runs[r])]
  <1>0. PromptInv /\ TypeOK
    BY DEF LifeInv, PromptInv
  <1>1. t \in Task /\ tasks[t].state = "running" /\ next \in Nat /\ t # None
    BY <1>0, ExecutedIsExecuting, NoneAssumption DEF TypeOK, TaskRow
  <1>2. /\ Failed(runs[r]).state = "failed"
        /\ Failed(runs[r]).wait = None
        /\ Failed(runs[r]).task = t
    BY <1>0, FailedRow DEF TypeOK
  <1>3. \A s \in Run : s # r /\ runs[s].task = t => runs[s].state \notin Active /\ runs[s].wait = None
    BY <1>0 DEF PromptInv, OneLiveRun, Live, Active
  <1>4. CASE AttemptsRemain(next) /\ ~tooOld
    <2>1. /\ runs[new].state = "absent" /\ new # r
          /\ tasks' = [tasks EXCEPT ![t] =
               [state |-> IF delayed THEN "sleeping" ELSE "pending", attempts |-> next]]
          /\ runs' = [failed EXCEPT ![new] = NewRun(t, next, delayed)]
      BY <1>4 DEF DoFailRun
    <2>2. /\ runs'[new] = NewRun(t, next, delayed)
          /\ runs'[r] = Failed(runs[r])
          /\ \A s \in Run : s # new /\ s # r => runs'[s] = runs[s]
      BY <1>0, <2>1 DEF TypeOK
    <2>3. /\ NewRun(t, next, delayed).task = t
          /\ NewRun(t, next, delayed).state \in {"pending", "sleeping"}
          /\ NewRun(t, next, delayed).wait = None
      BY <1>1, NewRunType
    <2>4. /\ tasks'[t].state \in {"pending", "sleeping"}
          /\ \A u \in Task : u # t => tasks'[u] = tasks[u]
      BY <1>0, <1>1, <2>1 DEF TypeOK
    <2>5. runs[new].task = None
      BY <1>0, <2>1 DEF TypeOK, WellFormed
    <2>6. TasksStay
      BY <1>2, <2>2, <2>5 DEF TasksStay
    <2>7. Concerns({t})
      BY <1>2, <2>2, <2>3, <2>4, <2>5 DEF Concerns, Kept
    <2>8. HasActiveRun(t)' /\ PhaseOf(t)' = "waiting"
      BY <2>2, <2>3, <2>4 DEF HasActiveRun, Active, PhaseOf
    <2>9. Becomes({t}, "waiting")
      BY <2>4, <2>7, <2>8 DEF Becomes
    <2> QED
      BY <2>6, <2>9
  <1>5. CASE (AttemptsRemain(next) /\ tooOld) \/ ~AttemptsRemain(next)
    <2>1. /\ runs'[r] = Failed(runs[r])
          /\ \A s \in Run : s # r => runs'[s] = runs[s]
      BY <1>0, <1>5 DEF TypeOK, DoFailRun
    <2>2. /\ tasks'[t].state \in {"running", "cancelled"}
          /\ \A u \in Task : u # t => tasks'[u] = tasks[u]
      BY <1>0, <1>1, <1>5 DEF TypeOK, DoFailRun
    <2>3. ~HasActiveRun(t)' /\ \A s \in Run : runs'[s].task = t => runs'[s].wait = None
      BY <1>2, <1>3, <2>1 DEF HasActiveRun, Active
    <2>4. TasksStay
      BY <1>2, <2>1 DEF TasksStay
    <2>5. Concerns({t})
      BY <1>2, <2>1, <2>2 DEF Concerns, Kept
    <2>6. PhaseOf(t)' = IF tasks'[t].state = "running" THEN "exhausted" ELSE "cancelled"
      BY <2>2, <2>3 DEF PhaseOf
    <2>7. Becomes({t}, IF tasks'[t].state = "running" THEN "exhausted" ELSE "cancelled")
      BY <2>2, <2>3, <2>5, <2>6 DEF Becomes
    <2> QED
      BY <2>4, <2>7
  <1> QED
    BY <1>4, <1>5

(* suspend_run of the run that a task executes. *)
LEMMA SuspendRunBecomes ==
  ASSUME LifeInv, TypeOK', NEW r \in Run, NEW t \in Task, t = runs[r].task, NEW wait \in Event \cup {None},
         runs[r].state = "running", SuspendRun(r, wait)
  PROVE  TasksStay /\ Becomes({t}, "waiting")
  <1>0. PromptInv /\ TypeOK
    BY DEF LifeInv, PromptInv
  <1>1. t \in Task
    BY <1>0, ExecutedIsExecuting
  <1>2. /\ Suspended(runs[r], wait).task = t
        /\ Suspended(runs[r], wait).state = "sleeping"
    <2>1. runs[r] \in RunRow
      BY <1>0 DEF TypeOK
    <2> QED
      BY <2>1, SuspendedRow
  <1>3. /\ runs'[r] = Suspended(runs[r], wait)
        /\ \A s \in Run : s # r => runs'[s] = runs[s]
    BY <1>0 DEF SuspendRun, TypeOK
  <1>4. /\ tasks'[t].state = "sleeping"
        /\ \A u \in Task : u # t => tasks'[u] = tasks[u]
    BY <1>0, <1>1 DEF SuspendRun, TypeOK, TaskRow
  <1>5. TasksStay
    BY <1>2, <1>3 DEF TasksStay
  <1>6. Concerns({t})
    BY <1>2, <1>3, <1>4 DEF Concerns, Kept
  <1>7. HasActiveRun(t)' /\ PhaseOf(t)' = "waiting"
    BY <1>2, <1>3, <1>4 DEF HasActiveRun, Active, PhaseOf
  <1>8. Becomes({t}, "waiting")
    BY <1>4, <1>6, <1>7 DEF Becomes
  <1> QED
    BY <1>5, <1>8

(* complete_run of the run that a task executes. *)
LEMMA CompleteRunBecomes ==
  ASSUME LifeInv, TypeOK', NEW r \in Run, NEW t \in Task, t = runs[r].task, runs[r].state = "running",
         runs' = [runs EXCEPT ![r] = Completed(runs[r])],
         tasks' = [tasks EXCEPT ![t].state = "completed"]
  PROVE  TasksStay /\ Becomes({t}, "completed")
  <1>0. PromptInv /\ TypeOK
    BY DEF LifeInv, PromptInv
  <1>1. t \in Task
    BY <1>0, ExecutedIsExecuting
  <1>2. Completed(runs[r]).task = t /\ Completed(runs[r]).wait = None
    BY <1>0, CompletedRow DEF TypeOK
  <1>3. /\ runs'[r] = Completed(runs[r])
        /\ \A s \in Run : s # r => runs'[s] = runs[s]
    BY <1>0 DEF TypeOK
  <1>4. /\ tasks'[t].state = "completed"
        /\ \A u \in Task : u # t => tasks'[u] = tasks[u]
    BY <1>0, <1>1 DEF TypeOK, TaskRow
  <1>5. \A s \in Run : runs'[s].task = t => runs'[s].wait = None
    BY <1>0, <1>2, <1>3 DEF PromptInv, OneLiveRun, Live, Active
  <1>6. TasksStay
    BY <1>2, <1>3 DEF TasksStay
  <1>7. Concerns({t})
    BY <1>2, <1>3, <1>4 DEF Concerns, Kept
  <1>8. Becomes({t}, "completed")
    BY <1>4, <1>5, <1>7 DEF Becomes, PhaseOf
  <1> QED
    BY <1>6, <1>8

(* The worker that executes a task ends its execution.                     *)
LEMMA SettleStep ==
  ASSUME LifeInv, PromptInv', NEW w \in Worker, NEW r \in held[w], Drops(w, r),
         NEW t \in Task, t = runs[r].task,
         TasksStay, NEW to \in {"completed", "waiting", "cancelled", "exhausted"},
         Becomes({t}, to)
  PROVE  LifeInv' /\ Lifecycle!Settle(t, to)
  <1>0. PromptInv /\ TypeOK /\ TypeOK'
    BY DEF LifeInv, PromptInv
  <1>1. r \in Run /\ runs[r].state = "running"
    BY <1>0 DEF PromptInv, HeldAgrees, TypeOK
  <1>2. t \in Task /\ PhaseOf(t) = "executing"
    BY <1>0, <1>1, ExecutedIsExecuting
  <1>3. HolderOf(t) = w /\ w # None
    BY <1>0, <1>2, HolderIs, NoneAssumption DEF Executes, HolderAgrees
  <1>4. {t} \in SUBSET Task
    BY <1>2
  <1>5. /\ \A u \in Task : PhaseOf(u)' = IF u \in {t} THEN to ELSE PhaseOf(u)
        /\ WaitersAgree' /\ WaitingTaskHasRun'
        /\ \A u \in Task : tasks'[u].state # "failed"
    BY <1>0, <1>4, BatchMoves
  <1>6. \A u \in Task : HolderOf(u)' = IF u \in {t} THEN None ELSE HolderOf(u)
    BY <1>0, HeldDropped
  <1>7. Lifecycle!Move({t}, to)
    BY <1>5, <1>6, MoveIs DEF Moves
  <1>8. Lifecycle!Settle(t, to)
    BY <1>2, <1>3, <1>7 DEF Lifecycle!Settle
  <1> QED
    BY <1>5, <1>8 DEF LifeInv

(* A task that is not running has no holder. *)
LEMMA NotExecuted ==
  ASSUME PromptInv, NEW t \in Task, tasks[t].state # "running"
  PROVE  HolderOf(t) = None
  <1>1. \A w \in Worker : ~Executes(w, t)
    BY DEF Executes, PromptInv, HeldAgrees, RowAgrees, TypeOK
  <1> QED
    BY <1>1, HolderNone

(* A step that moves tasks nobody executes. *)
LEMMA IdleStep ==
  ASSUME LifeInv, PromptInv', NEW batch \in SUBSET Task, NEW to,
         held' = held, TasksStay, Becomes(batch, to),
         \A t \in batch : HolderOf(t) = None
  PROVE  LifeInv' /\ Lifecycle!Move(batch, to)
  <1>0. PromptInv /\ TypeOK'
    BY DEF LifeInv, PromptInv
  <1>1. /\ \A t \in Task : PhaseOf(t)' = IF t \in batch THEN to ELSE PhaseOf(t)
        /\ WaitersAgree' /\ WaitingTaskHasRun'
        /\ \A t \in Task : tasks'[t].state # "failed"
    BY <1>0, BatchMoves
  <1>2. \A t \in Task : HolderOf(t)' = IF t \in batch THEN None ELSE HolderOf(t)
    BY <1>0, HeldStays
  <1>3. Lifecycle!Move(batch, to)
    BY <1>1, <1>2, MoveIs DEF Moves
  <1> QED
    BY <1>1, <1>3 DEF LifeInv

LifeVars == <<[t \in Task |-> PhaseOf(t)], [t \in Task |-> HolderOf(t)]>>

LifeStep == [Lifecycle!LNext]_LifeVars

(* The steps in the life of tasks that are there already.                  *)
LaterStep ==
  \/ \E batch \in SUBSET Task, w \in Worker :
       Lifecycle!Claim(batch, w) \/ Lifecycle!Abandon(batch, w)
  \/ \E t \in Task, to \in Lifecycle!Phase : Lifecycle!Settle(t, to) \/ Lifecycle!Recover(t, to)
  \/ \E batch \in SUBSET Task :
       Lifecycle!Cancel(batch) \/ Lifecycle!Revive(batch) \/ Lifecycle!Delete(batch)
  \/ LifeVars' = LifeVars

(* No task is new that was not, and none is new no more; what is gone      *)
(* stays gone.                                                             *)
NoneBorn ==
  \A t \in Task : /\ PhaseOf(t)' = "new" <=> PhaseOf(t) = "new"
                  /\ PhaseOf(t) = "gone" => PhaseOf(t)' = "gone"

LEMMA LaterSteps == LaterStep => LifeStep /\ NoneBorn
  <1>1. LaterStep => LifeStep
    BY DEF LaterStep, LifeStep, Lifecycle!LNext
  <1>2. ASSUME NEW batch, NEW to, Lifecycle!Move(batch, to), to # "new",
               \A t \in batch : PhaseOf(t) \notin {"new", "gone"}, batch \in SUBSET Task
        PROVE  NoneBorn
    BY <1>2 DEF Lifecycle!Move, NoneBorn
  <1>3. ASSUME NEW batch \in SUBSET Task, NEW w \in Worker, Lifecycle!Claim(batch, w)
        PROVE  NoneBorn
    BY <1>3 DEF Lifecycle!Claim, NoneBorn
  <1>4. ASSUME NEW t \in Task, NEW to, Lifecycle!Settle(t, to) \/ Lifecycle!Recover(t, to)
        PROVE  NoneBorn
    <2>1. /\ Lifecycle!Move({t}, to) /\ to # "new" /\ PhaseOf(t) = "executing"
          /\ {t} \in SUBSET Task
      BY <1>4 DEF Lifecycle!Settle, Lifecycle!Recover
    <2> QED
      BY <1>2, <2>1
  <1>5. ASSUME NEW batch \in SUBSET Task, NEW w \in Worker, Lifecycle!Abandon(batch, w)
        PROVE  NoneBorn
    BY <1>5 DEF Lifecycle!Abandon, NoneBorn
  <1>6. ASSUME NEW batch \in SUBSET Task,
               Lifecycle!Cancel(batch) \/ Lifecycle!Revive(batch) \/ Lifecycle!Delete(batch)
        PROVE  NoneBorn
    <2>1. PICK to \in {"cancelled", "waiting", "gone"} : Lifecycle!Move(batch, to)
      BY <1>6 DEF Lifecycle!Cancel, Lifecycle!Revive, Lifecycle!Delete
    <2>2. \A t \in batch : PhaseOf(t) \notin {"new", "gone"}
      BY <1>6 DEF Lifecycle!Cancel, Lifecycle!Revive, Lifecycle!Delete
    <2> QED
      BY <1>2, <2>1, <2>2
  <1>7. ASSUME LifeVars' = LifeVars PROVE NoneBorn
    BY <1>7 DEF LifeVars, NoneBorn
  <1>8. LaterStep => NoneBorn
    BY <1>3, <1>4, <1>5, <1>6, <1>7 DEF LaterStep
  <1> QED
    BY <1>1, <1>8

(* A step that shows in no task. *)
LEMMA StutterStep ==
  ASSUME LifeInv, PromptInv', held' = held,
         \A s \in Run : /\ runs'[s].task = runs[s].task
                        /\ runs'[s].state = runs[s].state
                        /\ runs'[s].wait = runs[s].wait,
         \A t \in Task : tasks'[t].state = tasks[t].state
  PROVE  LifeInv' /\ LaterStep
  <1>1. TasksStay
    BY DEF TasksStay
  <1>2. Concerns({})
    BY DEF Concerns, Kept
  <1>3. Becomes({}, "gone")
    BY <1>2 DEF Becomes
  <1>4. LifeInv' /\ Lifecycle!Move({}, "gone")
    BY <1>1, <1>3, IdleStep
  <1>5. /\ [t \in Task |-> PhaseOf(t)]' = [t \in Task |-> PhaseOf(t)]
        /\ [t \in Task |-> HolderOf(t)]' = [t \in Task |-> HolderOf(t)]
    BY <1>4 DEF Lifecycle!Move
  <1> QED
    BY <1>4, <1>5 DEF LaterStep, LifeVars

LEMMA SpawnStep ==
  ASSUME LifeInv, PromptInv', NEW t \in Task, NEW r \in Run, SpawnTask(t, r)
  PROVE  LifeInv' /\ Lifecycle!Spawn(t)
  <1>0. PromptInv /\ TypeOK
    BY DEF LifeInv, PromptInv
  <1>1. /\ NewRun(t, 0, FALSE).task = t
        /\ NewRun(t, 0, FALSE).state = "pending"
        /\ NewRun(t, 0, FALSE).wait = None
    BY DEF NewRun, NoRun
  <1>2. /\ tasks[t].state = "absent" /\ runs[r].task = None
        /\ runs'[r] = NewRun(t, 0, FALSE)
        /\ \A s \in Run : s # r => runs'[s] = runs[s]
        /\ tasks'[t].state = "pending"
        /\ \A u \in Task : u # t => tasks'[u] = tasks[u]
        /\ held' = held
    BY <1>0 DEF SpawnTask, TypeOK, WellFormed
  <1>3. \A s \in Run : runs[s].task # t
    BY <1>0, <1>2, NoneAssumption DEF PromptInv, RowAgrees
  <1>4. TasksStay
    BY <1>2 DEF TasksStay
  <1>5. Concerns({t})
    BY <1>1, <1>2 DEF Concerns, Kept
  <1>6. HasActiveRun(t)' /\ PhaseOf(t)' = "waiting"
    BY <1>1, <1>2 DEF HasActiveRun, Active, PhaseOf
  <1>7. Becomes({t}, "waiting")
    BY <1>2, <1>5, <1>6 DEF Becomes
  <1>8. HolderOf(t) = None
    BY <1>0, <1>2, NotExecuted
  <1>9. LifeInv' /\ Lifecycle!Move({t}, "waiting")
    BY <1>2, <1>4, <1>7, <1>8, IdleStep
  <1>10. PhaseOf(t) = "new"
    BY <1>2 DEF PhaseOf
  <1> QED
    BY <1>9, <1>10 DEF Lifecycle!Spawn

LEMMA ClaimStep ==
  ASSUME LifeInv, PromptInv', NEW w \in Worker, NEW batch \in SUBSET Run,
         ClaimTask(w, batch)
  PROVE  LifeInv' /\ \E claimed \in SUBSET Task : Lifecycle!Claim(claimed, w)
  <1>0. PromptInv /\ TypeOK /\ TypeOK'
    BY DEF LifeInv, PromptInv
  <1>1. \A r \in batch : /\ Claimed(runs[r], w).task = runs[r].task
                         /\ Claimed(runs[r], w).state = "running"
                         /\ Claimed(runs[r], w).wait = runs[r].wait
    BY <1>0, ClaimedRow DEF TypeOK
  <1>2. \A r \in batch : /\ runs[r].state \in {"pending", "sleeping"} /\ runs[r].due
                         /\ tasks[runs[r].task].state \in {"pending", "sleeping"}
                         /\ runs[r].task \in Task
    BY <1>0, NoneAssumption DEF ClaimTask, Claimable, TypeOK, WellFormed, RunRow
  <1>3. \A r \in batch : runs[r].wait = None
    BY <1>0, <1>2 DEF PromptInv, RowAgrees
  <1>4. /\ \A r \in batch : runs'[r] = Claimed(runs[r], w)
        /\ \A r \in Run : r \notin batch => runs'[r] = runs[r]
        /\ \A r \in batch : tasks'[runs[r].task].state = "running"
        /\ \A t \in Task : (\A r \in batch : runs[r].task # t) => tasks'[t] = tasks[t]
    BY <1>2 DEF ClaimTask
  <1>5. \A v \in Worker : held'[v] = IF v = w THEN held[v] \cup batch ELSE held[v]
    BY <1>0 DEF ClaimTask, TypeOK
  <1>6. PICK claimed \in SUBSET Task :
          \A t \in Task : t \in claimed <=> \E r \in batch : runs[r].task = t
    <2>1. {t \in Task : \E r \in batch : runs[r].task = t} \in SUBSET Task
      OBVIOUS
    <2> QED
      BY <2>1
  <1>7. \A r \in Run : runs[r].task \in claimed => r \in batch \/ runs[r].wait = None
    BY <1>0, <1>2, <1>6 DEF PromptInv, OneLiveRun, Live, Active
  <1>8. TasksStay
    BY <1>1, <1>4 DEF TasksStay
  <1>9. \A t \in claimed : tasks[t].state \in {"pending", "sleeping"} /\ tasks'[t].state = "running"
    BY <1>2, <1>4, <1>6
  <1>10. Concerns(claimed)
    BY <1>1, <1>2, <1>4, <1>6 DEF Concerns, Kept
  <1>11. \A t \in claimed : HasActiveRun(t)'
    BY <1>1, <1>4, <1>6 DEF HasActiveRun, Active
  <1>12. \A t \in claimed : PhaseOf(t) = "waiting" /\ PhaseOf(t)' = "executing"
    BY <1>9, <1>11 DEF PhaseOf
  <1>13. Becomes(claimed, "executing")
    BY <1>1, <1>3, <1>4, <1>7, <1>9, <1>10, <1>12 DEF Becomes
  <1>14. /\ \A t \in Task : PhaseOf(t)' = IF t \in claimed THEN "executing" ELSE PhaseOf(t)
         /\ WaitersAgree' /\ WaitingTaskHasRun'
         /\ \A t \in Task : tasks'[t].state # "failed"
    BY <1>0, <1>13, BatchMoves
  <1>15. ASSUME NEW t \in claimed PROVE HolderOf(t)' = w
    <2>1. PICK r \in batch : runs[r].task = t
      BY <1>6
    <2>2. r \in held'[w] /\ runs'[r].task = t
      BY <1>1, <1>4, <1>5, <2>1
    <2>3. Executes(w, t)'
      BY <2>2 DEF Executes
    <2> QED
      BY <2>3, HolderIsNext DEF HolderAgrees
  <1>16. ASSUME NEW t \in Task, t \notin claimed PROVE HolderOf(t)' = HolderOf(t)
    <2>1. \A v \in Worker : \A s \in held[v] : s \in Run /\ runs'[s].task = runs[s].task
      BY <1>0, <1>8, NoneAssumption DEF TypeOK, TasksStay
    <2>2. \A s \in batch : runs'[s].task = runs[s].task /\ runs[s].task # t
      BY <1>1, <1>4, <1>6, <1>16
    <2>3. ASSUME NEW v \in Worker PROVE Executes(v, t)' <=> Executes(v, t)
      <3>1. \A s : s \in held'[v] <=> s \in held[v] \/ (v = w /\ s \in batch)
        BY <1>5
      <3>2. \A s : s \in held'[v] /\ runs'[s].task = t <=> s \in held[v] /\ runs[s].task = t
        BY <2>1, <2>2, <3>1
      <3> QED
        BY <3>2 DEF Executes
    <2> QED
      BY <1>0, <2>3, HoldersStay
  <1>17. Lifecycle!Claim(claimed, w)
    BY <1>12, <1>14, <1>15, <1>16 DEF Lifecycle!Claim
  <1> QED
    BY <1>14, <1>17 DEF LifeInv

LEMMA LoseStep ==
  ASSUME LifeInv, PromptInv', NEW w \in Worker, NEW lost \in SUBSET Run, WorkerLoses(w, lost)
  PROVE  LifeInv' /\ \E batch \in SUBSET Task : Lifecycle!Abandon(batch, w)
  <1>0. PromptInv /\ TypeOK
    BY DEF LifeInv, PromptInv
  <1>1. /\ tasks' = tasks /\ runs' = runs
        /\ lost \subseteq held[w]
        /\ \A v \in Worker : held'[v] = IF v = w THEN held[v] \ lost ELSE held[v]
    BY <1>0 DEF WorkerLoses, TypeOK
  <1>2. LifeInv'
    BY <1>1 DEF LifeInv, WaitersAgree, WaitingTaskHasRun
  <1>3. \A t \in Task : PhaseOf(t)' = PhaseOf(t)
    BY <1>1 DEF PhaseOf, HasActiveRun
  <1>4. PICK batch \in SUBSET Task :
          \A t \in Task : t \in batch <=> \E r \in lost : runs[r].task = t
    <2>1. {t \in Task : \E r \in lost : runs[r].task = t} \in SUBSET Task
      OBVIOUS
    <2> QED
      BY <2>1
  <1>5. ASSUME NEW t \in batch PROVE HolderOf(t) = w /\ HolderOf(t)' = None
    <2>1. Executes(w, t)
      BY <1>1, <1>4 DEF Executes
    <2>2. HolderOf(t) = w
      BY <1>0, <2>1, HolderIs DEF HolderAgrees
    <2>3. ASSUME NEW v \in Worker, NEW s \in held'[v], runs'[s].task = t PROVE FALSE
      <3>1. PICK r \in lost : r \in held[w] /\ runs[r].task = t
        BY <1>1, <1>4
      <3>2. s \in held[v] /\ runs[s].task = runs[r].task /\ (v = w => s \notin lost)
        BY <1>1, <2>3, <3>1
      <3> QED
        BY <1>0, <3>1, <3>2, PromptInvSuffices DEF ExclusiveExecution
    <2> QED
      BY <2>2, <2>3, HolderNoneNext DEF Executes
  <1>6. ASSUME NEW t \in Task, t \notin batch PROVE HolderOf(t)' = HolderOf(t)
    <2>1. \A v \in Worker : Executes(v, t)' <=> Executes(v, t)
      BY <1>1, <1>4, <1>6 DEF Executes
    <2> QED
      BY <1>0, <2>1, HoldersStay
  <1>7. Lifecycle!Abandon(batch, w)
    BY <1>3, <1>5, <1>6 DEF Lifecycle!Abandon
  <1> QED
    BY <1>2, <1>7

(* Upkeep fails a run that it found expired. *)
LEMMA RecoverStep ==
  ASSUME LifeInv, PromptInv', NEW u \in Upkeeper, NEW new \in Run,
         NEW delayed \in BOOLEAN, NEW tooOld \in BOOLEAN,
         FailPicked(u, new, delayed, tooOld)
  PROVE  LifeInv' /\ \E t \in Task, to \in Lifecycle!Phase : Lifecycle!Recover(t, to)
  <1>0. PromptInv /\ TypeOK /\ TypeOK'
    BY DEF LifeInv, PromptInv
  <1>1. PICK r \in Run : r = picked[u] /\ runs[r].state = "running" /\ runs[r].claim = "lapsed"
    BY <1>0 DEF FailPicked, PromptInv, PickedAgrees, TypeOK
  <1>2. PICK t \in Task : t = runs[r].task
    BY <1>0, <1>1, ExecutedIsExecuting
  <1>3. PhaseOf(t) = "executing"
    BY <1>0, <1>1, <1>2, ExecutedIsExecuting
  <1>4. DoFailRun(r, new, delayed, tooOld) /\ held' = held
    BY <1>1 DEF FailPicked
  <1>5. TasksStay
    BY <1>0, <1>1, <1>2, <1>4, DoFailRunBecomes
  <1>6. PICK to \in {"waiting", "cancelled", "exhausted"} : Becomes({t}, to)
    BY <1>0, <1>1, <1>2, <1>4, DoFailRunBecomes
  <1>7. \A w \in Worker : ~Executes(w, t)
    BY <1>0, <1>1, <1>2 DEF PromptInv, HeldAgrees, OneLiveRun, Live, Active, Executes, TypeOK
  <1>8. HolderOf(t) = None
    BY <1>7, HolderNone
  <1>9. LifeInv' /\ Lifecycle!Move({t}, to)
    BY <1>4, <1>5, <1>6, <1>8, IdleStep
  <1>10. Lifecycle!Recover(t, to) /\ to \in Lifecycle!Phase
    BY <1>3, <1>8, <1>9 DEF Lifecycle!Recover, Lifecycle!Phase
  <1> QED
    BY <1>9, <1>10

(* Runs that do not run are cancelled with the tasks they belong to. *)
LEMMA CancelStep ==
  ASSUME LifeInv, PromptInv', NEW batch \in SUBSET Run, NEW gone \in SUBSET Task,
         \A t \in gone : tasks[t].state \in {"pending", "sleeping", "completed", "cancelled"},
         \A r \in batch : runs[r].task \in gone,
         runs' = [r \in Run |-> IF r \in batch THEN Cancelled(runs[r]) ELSE runs[r]],
         \A t \in Task : tasks'[t].state = IF t \in gone THEN "cancelled" ELSE tasks[t].state,
         held' = held
  PROVE  LifeInv' /\ Lifecycle!Cancel(gone)
  <1>0. PromptInv /\ TypeOK
    BY DEF LifeInv, PromptInv
  <1>1. \A r \in Run : /\ Cancelled(runs[r]).task = runs[r].task
                       /\ Cancelled(runs[r]).wait = runs[r].wait
    BY <1>0, CancelledRow DEF TypeOK
  <1>2. \A r \in Run : runs'[r] = IF r \in batch THEN Cancelled(runs[r]) ELSE runs[r]
    OBVIOUS
  <1>3. TasksStay
    BY <1>1, <1>2 DEF TasksStay
  <1>4. Concerns(gone)
    BY <1>1, <1>2 DEF Concerns, Kept
  <1>5. \A t \in gone : PhaseOf(t)' = "cancelled"
    BY DEF PhaseOf
  <1>6. Becomes(gone, "cancelled")
    BY <1>4, <1>5 DEF Becomes
  <1>7. \A t \in gone : HolderOf(t) = None
    BY <1>0, NotExecuted
  <1>8. LifeInv' /\ Lifecycle!Move(gone, "cancelled")
    BY <1>3, <1>6, <1>7, IdleStep
  <1>9. \A t \in gone : PhaseOf(t) \in {"waiting", "completed", "cancelled"}
    BY DEF PhaseOf
  <1> QED
    BY <1>8, <1>9 DEF Lifecycle!Cancel

(* An event puts the tasks that wait for it back in the queue; those that  *)
(* were waiting anyway, and those that were cancelled.                     *)
LEMMA EmitEventStep ==
  ASSUME LifeInv, PromptInv', NEW e \in Event, EmitEvent(e)
  PROVE  LifeInv' /\ \E revived \in SUBSET Task : Lifecycle!Revive(revived)
  <1>0. PromptInv /\ TypeOK /\ TypeOK'
    BY DEF LifeInv, PromptInv
  <1>1. \A r \in Run : /\ Woken(runs[r]).task = runs[r].task
                       /\ Woken(runs[r]).state = "pending"
                       /\ Woken(runs[r]).wait = None
    BY <1>0, WokenRow DEF TypeOK
  <1>2. \A r \in Waiters(e) :
          /\ r \in Run /\ runs[r].task \in Task
          /\ tasks[runs[r].task].state \in {"pending", "sleeping", "cancelled"}
    BY <1>0, NoneAssumption DEF LifeInv, WaitersAgree, Waiters, TypeOK, WellFormed, RunRow
  <1>3. /\ \A r \in Waiters(e) : runs'[r] = Woken(runs[r])
        /\ \A r \in Run : r \notin Waiters(e) => runs'[r] = runs[r]
    BY <1>2 DEF EmitEvent
  <1>4. /\ \A r \in Waiters(e) : tasks'[runs[r].task].state = "pending"
        /\ \A t \in Task : (\A r \in Waiters(e) : runs[r].task # t) => tasks'[t] = tasks[t]
    <2>1. \A t \in Task : [tasks[t] EXCEPT !.state = "pending"].state = "pending"
      BY <1>0 DEF TypeOK, TaskRow
    <2> QED
      BY <1>2, <2>1 DEF EmitEvent
  <1>5. PICK batch \in SUBSET Task :
          \A t \in Task : t \in batch <=> \E r \in Waiters(e) : runs[r].task = t
    <2>1. {t \in Task : \E r \in Waiters(e) : runs[r].task = t} \in SUBSET Task
      OBVIOUS
    <2> QED
      BY <2>1
  <1>6. TasksStay
    BY <1>1, <1>3 DEF TasksStay
  <1>7. Concerns(batch)
    BY <1>1, <1>2, <1>3, <1>4, <1>5 DEF Concerns, Kept
  <1>8. /\ \A t \in batch : tasks'[t].state = "pending"
        /\ \A t \in batch : tasks[t].state \in {"pending", "sleeping", "cancelled"}
    BY <1>2, <1>4, <1>5
  <1>9. \A t \in batch : HasActiveRun(t)'
    BY <1>1, <1>2, <1>3, <1>5 DEF HasActiveRun, Active
  <1>10. \A t \in batch : PhaseOf(t)' = "waiting" /\ PhaseOf(t) \in {"waiting", "cancelled"}
    BY <1>8 DEF PhaseOf
  <1>11. \A r \in Run : runs'[r].task \in batch => tasks'[runs'[r].task].state = "pending"
    BY <1>8
  <1>12. Becomes(batch, "waiting")
    BY <1>7, <1>8, <1>9, <1>10, <1>11 DEF Becomes
  <1>13. \A t \in batch : HolderOf(t) = None
    BY <1>0, <1>8, NotExecuted
  <1>14. held' = held
    BY DEF EmitEvent
  <1>15. LifeInv' /\ Lifecycle!Move(batch, "waiting")
    BY <1>6, <1>12, <1>13, <1>14, IdleStep
  <1>16. PICK revived \in SUBSET Task :
           \A t \in Task : t \in revived <=> t \in batch /\ PhaseOf(t) = "cancelled"
    <2>1. {t \in batch : PhaseOf(t) = "cancelled"} \in SUBSET Task
      OBVIOUS
    <2> QED
      BY <2>1
  <1>17. /\ \A t \in Task : PhaseOf(t)' = IF t \in revived THEN "waiting" ELSE PhaseOf(t)
         /\ \A t \in Task : HolderOf(t)' = IF t \in revived THEN None ELSE HolderOf(t)
    <2>1. /\ \A t \in Task : PhaseOf(t)' = IF t \in batch THEN "waiting" ELSE PhaseOf(t)
          /\ \A t \in Task : HolderOf(t)' = IF t \in batch THEN None ELSE HolderOf(t)
      BY <1>15 DEF Lifecycle!Move
    <2> QED
      BY <1>10, <1>13, <1>16, <2>1
  <1>18. Lifecycle!Move(revived, "waiting")
    BY <1>17, MoveIs DEF Moves
  <1>19. Lifecycle!Revive(revived)
    BY <1>16, <1>18 DEF Lifecycle!Revive
  <1> QED
    BY <1>15, <1>19

LEMMA DeleteStep ==
  ASSUME LifeInv, PromptInv', NEW batch \in SUBSET Task, CleanupTasks(batch)
  PROVE  LifeInv' /\ Lifecycle!Delete(batch)
  <1>0. PromptInv /\ TypeOK
    BY DEF LifeInv, PromptInv
  <1>1. \A s \in Run : /\ Deleted(runs[s]).task = runs[s].task
                       /\ Deleted(runs[s]).wait = None
    BY <1>0, DeletedRow DEF TypeOK
  <1>2. /\ \A s \in Run : runs'[s] = IF runs[s].task \in batch THEN Deleted(runs[s]) ELSE runs[s]
        /\ held' = held
    BY DEF CleanupTasks
  <1>3. \A t \in Task : tasks'[t].state = IF t \in batch THEN "deleted" ELSE tasks[t].state
    BY <1>0 DEF CleanupTasks, TypeOK, TaskRow
  <1>4. \A t \in batch : tasks[t].state \in {"completed", "cancelled"}
    BY DEF CleanupTasks, Settled, LifeInv
  <1>5. TasksStay
    BY <1>1, <1>2 DEF TasksStay
  <1>6. Concerns(batch)
    BY <1>1, <1>2, <1>3 DEF Concerns, Kept
  <1>7. \A t \in batch : PhaseOf(t)' = "gone" /\ PhaseOf(t) \in {"completed", "cancelled"}
    BY <1>3, <1>4 DEF PhaseOf
  <1>8. Becomes(batch, "gone")
    BY <1>1, <1>2, <1>3, <1>6, <1>7 DEF Becomes
  <1>9. \A t \in batch : HolderOf(t) = None
    BY <1>0, <1>4, NotExecuted
  <1>10. LifeInv' /\ Lifecycle!Move(batch, "gone")
    BY <1>2, <1>5, <1>8, <1>9, IdleStep
  <1> QED
    BY <1>7, <1>10 DEF Lifecycle!Delete

LEMMA LifeInit ==
  Init => LifeInv /\ [t \in Task |-> PhaseOf(t)] = [t \in Task |-> "new"]
                  /\ [t \in Task |-> HolderOf(t)] = [t \in Task |-> None]
  <1> SUFFICES ASSUME Init
               PROVE  LifeInv /\ \A t \in Task : PhaseOf(t) = "new" /\ HolderOf(t) = None
    OBVIOUS
  <1>1. /\ \A t \in Task : tasks[t].state = "absent"
        /\ \A r \in Run : runs[r].wait = None
    BY DEF Init, NoRun
  <1>2. LifeInv
    BY <1>1, PromptInit DEF LifeInv, WaitersAgree, WaitingTaskHasRun
  <1>3. ASSUME NEW t \in Task PROVE PhaseOf(t) = "new" /\ HolderOf(t) = None
    BY <1>1, <1>2, NotExecuted DEF PhaseOf, LifeInv
  <1> QED
    BY <1>2, <1>3

(* Every operation but SpawnTask. *)
LaterNext ==
  \/ \E w \in Worker : WorkerStep(w)
  \/ \E u \in Upkeeper : UpkeepStep(u)
  \/ \E t \in Task : CancelTask(t)
  \/ \E batch \in SUBSET Task : CleanupTasks(batch)
  \/ \E e \in Event : EmitEvent(e)
  \/ \E batch \in (SUBSET Event) \ {{}} : CleanupEvents(batch)
  \/ TimePasses

(* Every operation keeps LifeInv, and is a step of the life of tasks. *)
LEMMA LifeLater ==
  ASSUME Deadlines, LifeInv, LaterNext \/ UNCHANGED vars
  PROVE  LifeInv' /\ LaterStep
  <1> DEFINE Goal == LifeInv' /\ LaterStep
  <1>0. PromptInv /\ TypeOK /\ PromptInv' /\ TypeOK'
    <2>1. [Next]_vars
      BY DEF LaterNext, Next, ClientStep, ClientTaskStep
    <2> QED
      BY <2>1, PromptStep DEF LifeInv, PromptInv
  <1> USE DEF LaterStep
  <1>1. ASSUME NEW w \in Worker, NEW r \in held[w]
        PROVE  /\ r \in Run /\ runs[r].state = "running"
               /\ \E t \in Task : t = runs[r].task
    BY <1>0, <1>1, ExecutedIsExecuting DEF PromptInv, HeldAgrees, TypeOK
  <1>2. ASSUME NEW w \in Worker, NEW r \in held[w], Drops(w, r), TasksStay,
               NEW t \in Task, t = runs[r].task,
               \E to \in {"completed", "waiting", "cancelled", "exhausted"} : Becomes({t}, to)
        PROVE  Goal
    BY <1>0, <1>2, SettleStep DEF Lifecycle!Phase
  <1>3. ASSUME UNCHANGED <<tasks, runs, held>> PROVE Goal
    BY <1>0, <1>3, StutterStep
  <1>4. ASSUME NEW w \in Worker, NEW batch \in SUBSET Run, ClaimTask(w, batch)
        PROVE  Goal
    BY <1>0, <1>4, ClaimStep
  <1>5. ASSUME NEW w \in Worker, NEW r \in Run, CompleteRun(w, r)
        PROVE  Goal
    <2>1. PICK t \in Task : t = runs[r].task
      BY <1>1, <1>5 DEF CompleteRun
    <2>2. /\ r \in held[w] /\ runs[r].state = "running" /\ Drops(w, r)
          /\ runs' = [runs EXCEPT ![r] = Completed(runs[r])]
          /\ tasks' = [tasks EXCEPT ![t].state = "completed"]
      BY <1>1, <1>5, <2>1 DEF CompleteRun
    <2>3. TasksStay /\ Becomes({t}, "completed")
      BY <1>0, <2>1, <2>2, CompleteRunBecomes
    <2> QED
      BY <1>2, <2>1, <2>2, <2>3
  <1>6. ASSUME NEW w \in Worker, NEW r \in Run, NEW new \in Run,
               NEW delayed \in BOOLEAN, NEW tooOld \in BOOLEAN,
               FailRun(w, r, new, delayed, tooOld)
        PROVE  Goal
    <2>1. PICK t \in Task : t = runs[r].task
      BY <1>1, <1>6 DEF FailRun
    <2>2. /\ r \in held[w] /\ runs[r].state = "running" /\ Drops(w, r)
          /\ DoFailRun(r, new, delayed, tooOld)
      BY <1>1, <1>6 DEF FailRun
    <2>3. TasksStay /\ \E to \in {"waiting", "cancelled", "exhausted"} : Becomes({t}, to)
      BY <1>0, <2>1, <2>2, DoFailRunBecomes
    <2> QED
      BY <1>2, <2>1, <2>2, <2>3
  <1>7. ASSUME NEW w \in Worker, NEW r \in Run, NEW wait \in Event \cup {None},
               r \in held[w], SuspendRun(r, wait), Drops(w, r)
        PROVE  Goal
    <2>1. PICK t \in Task : t = runs[r].task
      BY <1>1, <1>7
    <2>2. TasksStay /\ Becomes({t}, "waiting")
      BY <1>0, <1>1, <1>7, <2>1, SuspendRunBecomes
    <2> QED
      BY <1>2, <1>7, <2>1, <2>2
  <1>8. ASSUME NEW w \in Worker, NEW r \in Run, ScheduleRun(w, r)
        PROVE  Goal
    <2>1. r \in held[w] /\ SuspendRun(r, None) /\ Drops(w, r)
      BY <1>1, <1>8 DEF ScheduleRun, Suspendable
    <2> QED
      BY <1>7, <2>1
  <1>9. ASSUME NEW w \in Worker, NEW r \in Run, NEW e \in Event, AwaitEvent(w, r, e)
        PROVE  Goal
    BY <1>3, <1>7, <1>9 DEF AwaitEvent
  <1>10. ASSUME NEW r \in Run, UNCHANGED <<tasks, held>>,
                \A s \in Run : s # r => runs'[s] = runs[s],
                runs'[r].task = runs[r].task, runs'[r].state = runs[r].state,
                runs'[r].wait = runs[r].wait
         PROVE  Goal
    BY <1>0, <1>10, StutterStep
  <1>11. ASSUME NEW w \in Worker, NEW r \in Run, ExtendClaim(w, r)
         PROVE  Goal
    BY <1>0, <1>10, <1>11 DEF ExtendClaim, TypeOK, RunRow
  <1>12. ASSUME NEW w \in Worker, NEW lost \in SUBSET Run, WorkerLoses(w, lost)
         PROVE  Goal
    BY <1>0, <1>12, LoseStep
  <1>13. ASSUME NEW e \in Event, EmitEvent(e)
         PROVE  Goal
    BY <1>0, <1>13, EmitEventStep
  <1>14. ASSUME NEW t \in Task, CancelTask(t)
         PROVE  Goal
    <2>1. PICK batch \in SUBSET Run :
            \A r \in Run : r \in batch <=> r \in RunsOf(t) /\ runs[r].state # "completed"
      <3>1. {r \in Run : r \in RunsOf(t) /\ runs[r].state # "completed"} \in SUBSET Run
        OBVIOUS
      <3> QED
        BY <3>1
    <2>2. /\ tasks[t].state \in {"pending", "sleeping", "completed", "cancelled"}
          /\ \A u \in Task : tasks'[u].state = IF u \in {t} THEN "cancelled" ELSE tasks[u].state
          /\ held' = held
      BY <1>0, <1>14 DEF CancelTask, Cancellable, TypeOK, TaskRow, TaskState, Active, Settled,
                         NoRow, LifeInv
    <2>3. runs' = [r \in Run |-> IF r \in batch THEN Cancelled(runs[r]) ELSE runs[r]]
      BY <1>14, <2>1 DEF CancelTask
    <2>4. \A r \in batch : runs[r].task \in {t}
      BY <2>1 DEF RunsOf
    <2>5. {t} \in SUBSET Task /\ \A u \in {t} :
            tasks[u].state \in {"pending", "sleeping", "completed", "cancelled"}
      BY <2>2
    <2> QED
      BY <1>0, <2>2, <2>3, <2>4, <2>5, CancelStep
  <1>15. ASSUME NEW u \in Upkeeper, NEW batch \in SUBSET Run, CancelAged(u, batch)
         PROVE  Goal
    <2>1. PICK gone \in SUBSET Task :
            \A t \in Task : t \in gone <=> \E r \in batch : runs[r].task = t
      <3>1. {t \in Task : \E r \in batch : runs[r].task = t} \in SUBSET Task
        OBVIOUS
      <3> QED
        BY <3>1
    <2>2. /\ \A t \in Task : tasks'[t].state = IF t \in gone THEN "cancelled" ELSE tasks[t].state
          /\ runs' = [r \in Run |-> IF r \in batch THEN Cancelled(runs[r]) ELSE runs[r]]
          /\ held' = held
      BY <1>0, <1>15, <2>1, CancelAgedIs DEF TypeOK, TaskRow
    <2>3. \A r \in batch : runs[r].task \in gone
      <3> SUFFICES ASSUME NEW r \in batch PROVE runs[r].task \in gone
        OBVIOUS
      <3>1. r \in Run /\ runs[r].state \notin NoRow
        BY <1>15, CancelAgedIs
      <3>2. runs[r] \in RunRow /\ WellFormed(runs[r])
        BY <1>0, <3>1 DEF TypeOK
      <3>3. runs[r].task \in Task
        BY <3>1, <3>2 DEF WellFormed, RunRow, NoRow
      <3> QED
        BY <3>3, <2>1
    <2>4. \A t \in gone : tasks[t].state \in {"pending", "sleeping", "completed", "cancelled"}
      BY <1>15, <2>1, CancelAgedIs
    <2> QED
      BY <1>0, <2>2, <2>3, <2>4, CancelStep
  <1>16. ASSUME NEW u \in Upkeeper, NEW r \in Run, PickExpired(u, r)
         PROVE  Goal
    BY <1>3, <1>16 DEF PickExpired
  <1>17. ASSUME NEW u \in Upkeeper, NEW new \in Run, NEW delayed \in BOOLEAN,
                NEW tooOld \in BOOLEAN, FailPicked(u, new, delayed, tooOld)
         PROVE  Goal
    BY <1>0, <1>17, RecoverStep
  <1>18. ASSUME NEW u \in Upkeeper, UpkeepAborts(u)
         PROVE  Goal
    BY <1>3, <1>18 DEF UpkeepAborts
  <1>19. ASSUME NEW batch \in SUBSET Task, CleanupTasks(batch)
         PROVE  Goal
    BY <1>0, <1>19, DeleteStep
  <1>20. ASSUME NEW batch \in SUBSET Event, CleanupEvents(batch)
         PROVE  Goal
    BY <1>3, <1>20 DEF CleanupEvents
  <1>21. ASSUME NEW r \in Run, RunBecomesDue(r) \/ ClaimLapses(r)
         PROVE  Goal
    BY <1>0, <1>10, <1>21 DEF RunBecomesDue, ClaimLapses, TypeOK, RunRow
  <1>22. ASSUME UNCHANGED vars PROVE Goal
    BY <1>3, <1>22 DEF vars
  <1> HIDE DEF Goal, LaterStep
  <1>23. Goal
    BY <1>0, <1>4, <1>5, <1>6, <1>8, <1>9, <1>11, <1>12, <1>13, <1>14, <1>15, <1>16,
       <1>17, <1>18, <1>19, <1>20, <1>21, <1>22, NothingAged
    DEF LaterNext, WorkerStep, WorkerTaskStep, UpkeepStep, UpkeepFails, TimePasses
  <1> QED
    BY <1>23 DEF Goal

LEMMA LifeNext == ASSUME Deadlines, LifeInv, [Next]_vars PROVE LifeInv' /\ LifeStep
  <1>1. CASE \E t \in Task, r \in Run : SpawnTask(t, r)
    <2>1. PromptInv'
      BY PromptStep DEF LifeInv
    <2> QED
      BY <1>1, <2>1, SpawnStep DEF LifeStep, Lifecycle!LNext
  <1>2. CASE LaterNext \/ UNCHANGED vars
    BY <1>2, LifeLater, LaterSteps
  <1> QED
    BY <1>1, <1>2 DEF Next, ClientStep, ClientTaskStep, LaterNext

(* A task that waits to be executed has a run that can be claimed, so that *)
(* no task is forgotten while its row says that it waits: every statement  *)
(* that puts a task in the queue puts a run of it there, and none takes    *)
(* the run without the task (storage.rs:431, 872, 1034, 1318).             *)
THEOREM WaitingTaskHasRunHolds == ASSUME Deadlines PROVE Spec => []WaitingTaskHasRun
  <1>1. LifeInv /\ [Next]_vars => LifeInv'
    BY LifeNext
  <1>2. Init => LifeInv
    BY LifeInit
  <1>3. LifeInv => WaitingTaskHasRun
    BY DEF LifeInv
  <1> QED
    BY <1>1, <1>2, <1>3, PTL DEF Spec

(* While deadlines are met, as above, the operations of Storage implement  *)
(* the life of tasks: a task is executed by one worker, whose own call, or *)
(* whose loss, ends the execution.                                         *)
THEOREM LifecycleHolds == ASSUME Deadlines PROVE Spec => ImplementsLifecycle
  <1>1. LifeInv /\ [Next]_vars => LifeInv' /\ LifeStep
    BY LifeNext
  <1>2. Init => LifeInv /\ Lifecycle!LInit
    BY LifeInit DEF Lifecycle!LInit
  <1>3. LifeInv /\ [Next]_vars => [Lifecycle!LNext]_LifeVars
    BY <1>1 DEF LifeStep
  <1>4. Spec => Lifecycle!LInit /\ [][Lifecycle!LNext]_LifeVars
    BY <1>1, <1>2, <1>3, PTL DEF Spec
  <1> QED
    BY <1>4, PTL DEF LifeVars, ImplementsLifecycle, Lifecycle!LSpec

----------------------------------------------------------------------------
(* Tasks that are over                                                     *)

TasksOver == \A t \in Task : tasks[t].state \in {"completed", "deleted"} => OverTask(t)

OverKept ==
  \A t \in Task :
    /\ OverTask(t) \/ tasks'[t].state \in {"completed", "deleted"} => OverTask(t)'
    /\ tasks[t].state = "deleted" => tasks'[t].state = "deleted"

(* A step that is about the live run of one task and does not complete it. *)
LEMMA OverElsewhere ==
  ASSUME TasksOver, NEW t \in Task, ~OverTask(t),
         tasks'[t].state \notin {"completed", "deleted"},
         \A u \in Task : u # t => tasks'[u] = tasks[u],
         \A r \in Run : runs'[r] = runs[r] \/ runs'[r].task = t
  PROVE  OverKept
  <1> SUFFICES ASSUME NEW u \in Task, OverTask(u) \/ tasks'[u].state \in {"completed", "deleted"}
               PROVE  /\ OverTask(u)' 
                      /\ tasks[u].state = "deleted" => tasks'[u].state = "deleted"
    BY DEF OverKept, TasksOver
  <1>1. u # t /\ tasks'[u] = tasks[u] /\ OverTask(u)
    BY DEF TasksOver
  <1>2. ASSUME NEW r \in Run, runs'[r].task = u PROVE ~Live(r)'
    <2>1. runs'[r] = runs[r]
      BY <1>1, <1>2
    <2> QED
      BY <1>1, <1>2, <2>1 DEF OverTask, Live
  <1> QED
    BY <1>1, <1>2 DEF OverTask

(* A step that leaves the tasks as they are, and their runs as live.       *)
LEMMA OverSame ==
  ASSUME TasksOver, tasks' = tasks,
         \A r \in Run : /\ runs'[r].task = runs[r].task
                        /\ runs'[r].state = runs[r].state /\ runs'[r].wait = runs[r].wait
  PROVE  OverKept
  BY DEF OverKept, TasksOver, OverTask, Live

LEMMA DoFailRunOverTask ==
  ASSUME PromptInv, TasksOver, NEW r \in Run, NEW new \in Run,
         NEW delayed \in BOOLEAN, NEW tooOld \in BOOLEAN,
         runs[r].state = "running", DoFailRun(r, new, delayed, tooOld)
  PROVE  OverKept
  <1> DEFINE t == runs[r].task
             next == tasks[t].attempts + 1
             failed == [runs EXCEPT ![r] = Failed(runs[r])]
  <1>0. TypeOK
    BY DEF PromptInv
  <1>1. /\ t \in Task /\ next \in Nat /\ ~OverTask(t)
        /\ tasks[t].state = "running"
    BY <1>0, NoneAssumption
    DEF PromptInv, RowAgrees, TypeOK, WellFormed, RunRow, TaskRow, OverTask
  <1>2. Failed(runs[r]).task = t
    BY <1>0, FailedRow DEF TypeOK
  <1>3. /\ tasks'[t].state \notin {"completed", "deleted"}
        /\ \A u \in Task : u # t => tasks'[u] = tasks[u]
    BY <1>0, <1>1 DEF DoFailRun, TypeOK
  <1>4. \A s \in Run : runs'[s] = runs[s] \/ runs'[s].task = t
    <2>1. CASE AttemptsRemain(next) /\ ~tooOld
      <3>1. NewRun(t, next, delayed).task = t
        BY <1>1, NewRunType
      <3>2. runs' = [failed EXCEPT ![new] = NewRun(t, next, delayed)]
        BY <2>1 DEF DoFailRun
      <3> QED
        BY <1>0, <1>2, <3>1, <3>2 DEF TypeOK
    <2>2. CASE ~(AttemptsRemain(next) /\ ~tooOld)
      <3>1. runs' = failed
        BY <2>2 DEF DoFailRun
      <3> QED
        BY <1>0, <1>2, <3>1 DEF TypeOK
    <2> QED
      BY <2>1, <2>2
  <1> HIDE DEF t
  <1> QED
    BY <1>1, <1>3, <1>4, OverElsewhere

LEMMA SuspendRunOver ==
  ASSUME PromptInv, TasksOver, NEW r \in Run, NEW wait \in Event \cup {None},
         runs[r].state = "running", SuspendRun(r, wait)
  PROVE  OverKept
  <1> DEFINE t == runs[r].task
  <1>0. TypeOK
    BY DEF PromptInv
  <1>1. t \in Task /\ ~OverTask(t)
    BY <1>0, NoneAssumption
    DEF PromptInv, RowAgrees, TypeOK, WellFormed, RunRow, OverTask
  <1>2. Suspended(runs[r], wait).task = t
    BY <1>0, SuspendedRow DEF TypeOK
  <1>3. /\ tasks'[t].state = "sleeping"
        /\ \A u \in Task : u # t => tasks'[u] = tasks[u]
        /\ \A s \in Run : runs'[s] = runs[s] \/ runs'[s].task = t
    BY <1>0, <1>1, <1>2 DEF SuspendRun, TypeOK, TaskRow
  <1> HIDE DEF t
  <1> QED
    BY <1>1, <1>3, OverElsewhere

LEMMA CompleteRunOver ==
  ASSUME PromptInv, TasksOver, NEW w \in Worker, NEW r \in Run, CompleteRun(w, r)
  PROVE  OverKept
  <1>0. TypeOK
    BY DEF PromptInv
  <1>1. PICK t \in Task : t = runs[r].task
    BY <1>0, NoneAssumption
    DEF CompleteRun, PromptInv, HeldAgrees, TypeOK, WellFormed, RunRow
  <1>2. /\ r \in held[w] /\ runs[r].state = "running"
        /\ tasks[t].state = "running" /\ ~OverTask(t)
    BY <1>1 DEF CompleteRun, PromptInv, HeldAgrees, RowAgrees, OverTask
  <1>3. /\ Completed(runs[r]).task = t /\ Completed(runs[r]).wait = None
        /\ Completed(runs[r]).state = "completed"
    BY <1>0, <1>1, CompletedRow DEF TypeOK
  <1>4. /\ runs'[r] = Completed(runs[r])
        /\ \A s \in Run : s # r => runs'[s] = runs[s]
        /\ tasks'[t].state = "completed"
        /\ \A u \in Task : u # t => tasks'[u] = tasks[u]
    BY <1>0, <1>1, <1>2 DEF CompleteRun, TypeOK, TaskRow
  <1>5. OverTask(t)'
    <2>1. \A s \in Run : s # r /\ runs[s].task = t => ~Live(s)
      BY <1>1, <1>2 DEF PromptInv, OneLiveRun, Live, Active
    <2> QED
      BY <1>3, <1>4, <2>1 DEF OverTask, Live, Active
  <1>6. ASSUME NEW u \in Task, u # t,
               OverTask(u) \/ tasks'[u].state \in {"completed", "deleted"}
        PROVE  OverTask(u)' /\ tasks'[u] = tasks[u]
    <2>1. OverTask(u) /\ tasks'[u] = tasks[u]
      BY <1>4, <1>6 DEF TasksOver
    <2> QED
      BY <1>3, <1>4, <1>6, <2>1 DEF OverTask, Live
  <1> QED
    BY <1>2, <1>5, <1>6 DEF OverKept, TasksOver

(* While the invariant holds, what is over stays over, and what is deleted *)
(* stays deleted.                                                          *)
LEMMA OverStep == ASSUME Deadlines, PromptInv, TasksOver, [Next]_vars PROVE OverKept
  <1>0. TypeOK
    BY DEF PromptInv
  <1>1. ASSUME NEW w \in Worker, NEW batch \in SUBSET Run, ClaimTask(w, batch)
        PROVE  OverKept
    <2>1. \A r \in batch : ~\E t \in Task : runs[r].task = t /\ OverTask(t)
      BY <1>1 DEF ClaimTask, Claimable, OverTask
    <2>2. \A r \in Run : runs'[r] = IF r \in batch THEN Claimed(runs[r], w) ELSE runs[r]
      BY <1>1 DEF ClaimTask
    <2>3. \A r \in Run : Claimed(runs[r], w).task = runs[r].task
      BY <1>0, ClaimedRow DEF TypeOK
    <2>4. \A t \in Task : tasks'[t] = tasks[t] \/ 
                          (tasks'[t].state = "running" /\ \E r \in batch : runs[r].task = t)
      BY <1>1 DEF ClaimTask
    <2>5. ASSUME NEW t \in Task, OverTask(t) PROVE OverTask(t)' /\ tasks'[t] = tasks[t]
      BY <2>1, <2>2, <2>3, <2>4, <2>5 DEF OverTask, Live
    <2> QED
      BY <2>4, <2>5 DEF OverKept, TasksOver
  <1>2. ASSUME NEW w \in Worker, NEW r \in Run, CompleteRun(w, r)
        PROVE  OverKept
    BY <1>2, CompleteRunOver
  <1>3. ASSUME NEW w \in Worker, NEW r \in Run, NEW new \in Run,
               NEW delayed \in BOOLEAN, NEW tooOld \in BOOLEAN,
               FailRun(w, r, new, delayed, tooOld)
        PROVE  OverKept
    BY <1>3, DoFailRunOverTask DEF FailRun, PromptInv, HeldAgrees
  <1>4. ASSUME NEW w \in Worker, NEW r \in Run, ScheduleRun(w, r) PROVE OverKept
    BY <1>4, SuspendRunOver DEF ScheduleRun, Suspendable, PromptInv, HeldAgrees
  <1>5. ASSUME NEW w \in Worker, NEW r \in Run, NEW e \in Event, AwaitEvent(w, r, e)
        PROVE  OverKept
    <2>1. CASE payload[e] = "emitted"
      BY <1>5, <2>1, OverSame DEF AwaitEvent
    <2>2. CASE payload[e] # "emitted"
      BY <1>5, <2>2, SuspendRunOver DEF AwaitEvent, Suspendable
    <2> QED
      BY <2>1, <2>2
  <1>6. ASSUME NEW w \in Worker, NEW r \in Run, ExtendClaim(w, r) PROVE OverKept
    <2>1. \A s \in Run : /\ runs'[s].task = runs[s].task
                         /\ runs'[s].state = runs[s].state /\ runs'[s].wait = runs[s].wait
      BY <1>0, <1>6 DEF ExtendClaim, TypeOK, RunRow
    <2> QED
      BY <1>6, <2>1, OverSame DEF ExtendClaim
  <1>7. ASSUME NEW u \in Upkeeper, NEW new \in Run, NEW delayed \in BOOLEAN,
               NEW tooOld \in BOOLEAN, FailPicked(u, new, delayed, tooOld)
        PROVE  OverKept
    <2>1. picked[u] \in Run /\ runs[picked[u]].state = "running"
      BY <1>0, <1>7 DEF FailPicked, PromptInv, PickedAgrees, TypeOK
    <2> QED
      BY <1>7, <2>1, DoFailRunOverTask DEF FailPicked
  <1>8. ASSUME NEW t \in Task, NEW r \in Run, SpawnTask(t, r) PROVE OverKept
    <2>1. ~OverTask(t) /\ tasks'[t].state = "pending"
      BY <1>0, <1>8 DEF SpawnTask, OverTask, TypeOK
    <2>2. NewRun(t, 0, FALSE).task = t
      BY NewRunType
    <2>3. /\ \A u \in Task : u # t => tasks'[u] = tasks[u]
          /\ \A s \in Run : runs'[s] = runs[s] \/ runs'[s].task = t
      BY <1>0, <1>8, <2>2 DEF SpawnTask, TypeOK
    <2> QED
      BY <2>1, <2>3, OverElsewhere
  <1>9. ASSUME NEW t \in Task, CancelTask(t) PROVE OverKept
    <2>1. \A r \in Run : /\ runs'[r].task = runs[r].task
                         /\ Live(r)' => Live(r)
      <3>1. \A r \in Run : /\ Cancelled(runs[r]).task = runs[r].task
                           /\ Cancelled(runs[r]).state = "cancelled"
                           /\ Cancelled(runs[r]).wait = runs[r].wait
        BY <1>0, CancelledRow DEF TypeOK
      <3> QED
        BY <1>9, <3>1 DEF CancelTask, Live, Active
    <2>2. \A u \in Task : tasks'[u].state = IF u = t THEN "cancelled" ELSE tasks[u].state
      BY <1>0, <1>9 DEF CancelTask, TypeOK, TaskRow
    <2>3. tasks[t].state # "deleted"
      BY <1>9 DEF CancelTask, Cancellable, NoRow
    <2> QED
      BY <2>1, <2>2, <2>3 DEF OverKept, TasksOver, OverTask
  <1>10. ASSUME NEW u \in Upkeeper, NEW batch \in SUBSET Run, CancelAged(u, batch) PROVE OverKept
    <2>1. \A r \in Run : /\ runs'[r].task = runs[r].task
                         /\ Live(r)' => Live(r)
      <3>1. \A r \in Run : /\ Cancelled(runs[r]).task = runs[r].task
                           /\ Cancelled(runs[r]).state = "cancelled"
                           /\ Cancelled(runs[r]).wait = runs[r].wait
        BY <1>0, CancelledRow DEF TypeOK
      <3> QED
        BY <1>10, <3>1, CancelAgedIs DEF Live, Active
    <2>2. \A t \in Task : tasks'[t].state = IF \E r \in batch : runs[r].task = t
                                            THEN "cancelled" ELSE tasks[t].state
      <3>1. tasks' = [t \in Task |-> IF \E r \in batch : runs[r].task = t
                                     THEN [tasks[t] EXCEPT !.state = "cancelled"]
                                     ELSE tasks[t]]
        BY <1>10, CancelAgedIs
      <3>2. \A t \in Task : [tasks[t] EXCEPT !.state = "cancelled"].state = "cancelled"
        BY <1>0 DEF TypeOK, TaskRow
      <3> QED
        BY <3>1, <3>2
    <2>3. \A t \in Task : (\E r \in batch : runs[r].task = t) => tasks[t].state # "deleted"
      BY <1>10, CancelAgedIs
    <2> QED
      BY <2>1, <2>2, <2>3 DEF OverKept, TasksOver, OverTask
  <1>11. ASSUME NEW e \in Event, EmitEvent(e) PROVE OverKept
    <2>1. \A r \in Run : Woken(runs[r]).task = runs[r].task
      BY <1>0, WokenRow DEF TypeOK
    <2>2. \A r \in Run : runs'[r] = IF r \in Waiters(e) THEN Woken(runs[r]) ELSE runs[r]
      BY <1>11 DEF EmitEvent
    <2>3. \A r \in Waiters(e) : r \in Run /\ Live(r)
      BY NoneAssumption DEF Waiters, Live
    <2>4. \A t \in Task : tasks'[t] = tasks[t] \/
            (tasks'[t].state = "pending" /\ \E r \in Waiters(e) : runs[r].task = t)
      BY <1>0, <1>11 DEF EmitEvent, TypeOK, TaskRow
    <2>5. ASSUME NEW t \in Task, OverTask(t) PROVE OverTask(t)' /\ tasks'[t] = tasks[t]
      <3>1. \A r \in Waiters(e) : runs[r].task # t
        BY <2>3, <2>5 DEF OverTask
      <3> QED
        BY <2>1, <2>2, <2>4, <2>5, <3>1 DEF OverTask, Live
    <2> QED
      BY <2>4, <2>5 DEF OverKept, TasksOver
  <1>12. ASSUME NEW batch \in SUBSET Task, CleanupTasks(batch) PROVE OverKept
    <2>1. \A r \in Run : /\ Deleted(runs[r]).task = runs[r].task
                         /\ Deleted(runs[r]).state = "deleted"
                         /\ Deleted(runs[r]).wait = None
      BY <1>0, DeletedRow DEF TypeOK
    <2>2. \A r \in Run : runs'[r] = IF runs[r].task \in batch THEN Deleted(runs[r]) ELSE runs[r]
      BY <1>12 DEF CleanupTasks
    <2>3. \A t \in Task : tasks'[t].state = IF t \in batch THEN "deleted" ELSE tasks[t].state
      BY <1>0, <1>12 DEF CleanupTasks, TypeOK, TaskRow
    <2> QED
      BY <2>1, <2>2, <2>3 DEF OverKept, TasksOver, OverTask, Live, Active
  <1>13. ASSUME NEW r \in Run, RunBecomesDue(r) \/ ClaimLapses(r) PROVE OverKept
    <2>1. \A s \in Run : /\ runs'[s].task = runs[s].task
                         /\ runs'[s].state = runs[s].state /\ runs'[s].wait = runs[s].wait
      BY <1>0, <1>13 DEF RunBecomesDue, ClaimLapses, TypeOK, RunRow
    <2> QED
      BY <1>13, <2>1, OverSame DEF RunBecomesDue, ClaimLapses
  <1>14. ASSUME UNCHANGED <<tasks, runs>> PROVE OverKept
    BY <1>14, OverSame
  <1> QED
    BY <1>1, <1>2, <1>3, <1>4, <1>5, <1>6, <1>7, <1>8, <1>9, <1>10, <1>11, <1>12, <1>13, <1>14,
       NothingAged
    DEF Next, WorkerStep, WorkerTaskStep, WorkerLoses, UpkeepStep, UpkeepFails, PickExpired,
        UpkeepAborts, ClientStep, ClientTaskStep, CleanupEvents, TimePasses, vars

(* While deadlines are met, a completed task has no run left to execute,   *)
(* nor one that an event could put back in the queue, and neither has one  *)
(* that was cleaned up: complete_run settles its only one, and what        *)
(* inserts or wakes a run finds the task running or waiting                *)
(* (storage.rs:747, 861, 1268).                                            *)
THEOREM TasksOverHolds == ASSUME Deadlines PROVE Spec => []TasksOver
  <1>1. Init => PromptInv /\ TasksOver
    BY PromptInit DEF Init, TasksOver
  <1>2. PromptInv /\ TasksOver /\ [Next]_vars => (PromptInv /\ TasksOver)'
    BY PromptStep, OverStep DEF OverKept, TasksOver
  <1> QED
    BY <1>1, <1>2, PTL DEF Spec

(* A task that is over stays over: completed, cancelled or deleted with no *)
(* run left that is live, it is brought back by nothing, be it an event, a *)
(* failure, upkeep or a worker that is late.  A cancelled task that waited *)
(* for an event is not over in this sense, see finding 2.                  *)
THEOREM OverStaysOverHolds ==
  ASSUME Deadlines PROVE Spec => OverStaysOver
  <1>1. Init => PromptInv /\ TasksOver
    BY PromptInit DEF Init, TasksOver
  <1>2. PromptInv /\ TasksOver /\ [Next]_vars => (PromptInv /\ TasksOver)'
    BY PromptStep, OverStep DEF OverKept, TasksOver
  <1>3. PromptInv /\ TasksOver /\ [Next]_vars => [\A t \in Task : OverTask(t) => OverTask(t)']_vars
    BY OverStep DEF OverKept
  <1> QED
    BY <1>1, <1>2, <1>3, PTL DEF Spec, OverStaysOver

==============================================================================
