----------------------------- MODULE TaskStore -----------------------------
(***************************************************************************)
(* The durable core of taskturbine: the tables tasks, runs, events and     *)
(* checkpoints, and the operations of Storage                              *)
(* (taskturbine-core/src/storage.rs) that workers, the upkeep loop, the    *)
(* command line and event emitters call on them.                           *)
(*                                                                         *)
(* One action is one committed transaction.  Every operation modelled here *)
(* either takes the row locks it needs before it reads what it acts on, or *)
(* is a single SQL statement.  Where rows are read without a lock and      *)
(* updated later by their ids alone, there are two actions: PickExpired    *)
(* and FailPicked, ReadAged and CancelRead.                                *)
(*                                                                         *)
(* await_event and emit_event are several statements, and not atomic in    *)
(* every execution.  EventTransactions has them as they are.  Here they    *)
(* are one step each, AwaitEvent and EmitEvent, and only while Deadlines   *)
(* hold: AtomicEvents of that module is the refinement that justifies it,  *)
(* as long as cleanup_events does not delete the row of an event between   *)
(* the two statements of await_event (CleanupRaces of that module).  What  *)
(* is said of executions where deadlines are missed is, in this module,    *)
(* about tasks without events.                                             *)
(*                                                                         *)
(* Time is abstracted to the two comparisons with NOW() that the tables    *)
(* carry: a run is "due" once available_at has passed, and a claim is      *)
(* "held" until claim_expires_at passes and "lapsed" afterwards.  Ages     *)
(* (cancellation_max_age, the cutoffs of the cleanups) are chosen freely.  *)
(***************************************************************************)
EXTENDS Naturals, FiniteSets

CONSTANTS
  Task,          \* task ids (a UUID is never used twice)
  Run,           \* run ids
  Worker,        \* worker processes, the claimed_by of a run
  Upkeeper,      \* processes running the upkeep loop
  Event,         \* event names of the usecase
  MaxAttempts,   \* max_attempts of every task
  ClaimQty,      \* qty of claim_task
  AttemptBound,  \* bound of the model: a run is not claimed beyond this attempt
  PromptWorkers, \* TRUE: no claim lapses while its worker is executing the run
  PromptEvents,  \* TRUE: no wait for an event reaches its timeout
  PromptCancels, \* TRUE: nothing changes while max-age cancellation is under way
  None           \* SQL NULL

ASSUME MaxAttemptsAssumption == MaxAttempts \in Nat
ASSUME BoundAssumption == AttemptBound \in Nat /\ ClaimQty \in Nat
ASSUME PromptAssumption ==
  PromptWorkers \in BOOLEAN /\ PromptEvents \in BOOLEAN /\ PromptCancels \in BOOLEAN
ASSUME NoneAssumption == None \notin Task \cup Run \cup Worker \cup Event

VARIABLES
  tasks,         \* table tasks
  runs,          \* table runs
  payload,       \* table events: the payload of each event name
  ckpts,         \* table checkpoints: the $awaitEvent steps that are recorded
  held,          \* the runs each worker process has claimed and not yet settled
  picked,        \* the expired claim each upkeep transaction has read
  aged           \* the candidates max-age cancellation has read in each upkeep loop

vars == <<tasks, runs, payload, ckpts, held, picked, aged>>

(* The timing that applications rely on: claims outlive executions, waits  *)
(* are over before they time out, one upkeep loop runs, and no claim falls *)
(* into the statement that cancels by age.                                 *)
Deadlines ==
  /\ PromptWorkers /\ PromptEvents /\ PromptCancels
  /\ \A u, v \in Upkeeper : u = v

----------------------------------------------------------------------------
(* The tables.  A row that was never inserted is "absent"; a deleted row   *)
(* keeps its id, which no later row can take.                              *)

Active   == {"pending", "running", "sleeping"}
Settled  == {"completed", "failed", "cancelled"}
NoRow    == {"absent", "deleted"}
TaskState == Active \cup Settled

TaskRow == [state : TaskState \cup NoRow, attempts : Nat]

RunRow ==
  [task    : Task \cup {None},
   state   : TaskState \cup NoRow,
   attempt : Nat,
   owner   : Worker \cup {None},             \* claimed_by
   claim   : {"none", "held", "lapsed"},     \* claim_expires_at
   due     : BOOLEAN,                        \* available_at <= NOW()
   wait    : Event \cup {None}]              \* wait_event_name

NoRun == [task |-> None, state |-> "absent", attempt |-> 0, owner |-> None,
          claim |-> "none", due |-> FALSE, wait |-> None]

(* Mutant of NewRun: the row does not name its task. *)
NewRunWithoutTask(t, attempt, delayed) ==
  [NoRun EXCEPT !.attempt = attempt, !.due = ~delayed, !.state = "pending"]

(* An INSERT INTO runs: available now, or after a delay. *)
NewRun(t, attempt, delayed) ==
  [NoRun EXCEPT !.task = t, !.attempt = attempt, !.due = ~delayed,
                !.state = IF delayed THEN "sleeping" ELSE "pending"]

(* The updates of a row of runs. *)
Claimed(row, w) ==
  [row EXCEPT !.state = "running", !.owner = w, !.claim = "held", !.attempt = @ + 1]

Completed(row) == [row EXCEPT !.state = "completed", !.wait = None]

(* Mutant of Failed: the run keeps its state. *)
FailedInNameOnly(row) == [row EXCEPT !.wait = None]

Failed(row) == [row EXCEPT !.state = "failed", !.wait = None]

Suspended(row, wait) ==
  [row EXCEPT !.state = "sleeping", !.owner = None, !.claim = "none",
              !.due = FALSE, !.wait = wait]

(* Mutant of Woken: the run still waits for the event. *)
WokenStillWaiting(row) ==
  [row EXCEPT !.state = "pending", !.owner = None, !.claim = "none", !.due = TRUE]

Woken(row) ==
  [row EXCEPT !.state = "pending", !.owner = None, !.claim = "none",
              !.due = TRUE, !.wait = None]

Cancelled(row) == [row EXCEPT !.state = "cancelled"]

Deleted(row) == [NoRun EXCEPT !.task = row.task, !.state = "deleted"]

RunsOf(t) == {r \in Run : runs[r].task = t /\ runs[r].state \notin NoRow}

(* Mutant of Claimable: only the state of the task is looked at. *)
ClaimableByTask(r) ==
  /\ runs[r].state \in Active
  /\ tasks[runs[r].task].state \in Active
  /\ runs[r].due

Claimable(r) ==
  /\ runs[r].state \in {"pending", "sleeping"}
  /\ tasks[runs[r].task].state \in {"pending", "sleeping"}
  /\ runs[r].due

(* A row belongs to a task; what was never inserted is empty. *)
WellFormed(row) ==
  /\ row.task = None <=> row.state = "absent"
  /\ row.state = "absent" => row.wait = None

TypeOK ==
  /\ tasks \in [Task -> TaskRow]
  /\ runs \in [Run -> RunRow]
  /\ \A r \in Run : WellFormed(runs[r])
  /\ payload \in [Event -> {"absent", "sentinel", "emitted"}]
  /\ ckpts \subseteq Task \X Event
  /\ held \in [Worker -> SUBSET Run]
  /\ \A w \in Worker : \A r \in held[w] : runs[r].task # None
  /\ picked \in [Upkeeper -> Run \cup {None}]
  /\ \A u \in Upkeeper : picked[u] # None => runs[picked[u]].task # None
  /\ aged \in [Upkeeper -> SUBSET Run]
  /\ \A u \in Upkeeper : \A r \in aged[u] : runs[r].task # None

Init ==
  /\ tasks = [t \in Task |-> [state |-> "absent", attempts |-> 0]]
  /\ runs = [r \in Run |-> NoRun]
  /\ payload = [e \in Event |-> "absent"]
  /\ ckpts = {}
  /\ held = [w \in Worker |-> {}]
  /\ picked = [u \in Upkeeper |-> None]
  /\ aged = [u \in Upkeeper |-> {}]

----------------------------------------------------------------------------
(* Spawning and claiming *)

SpawnTask(t, r) ==
  /\ tasks[t].state = "absent" /\ runs[r].state = "absent"
  /\ tasks' = [tasks EXCEPT ![t] = [state |-> "pending", attempts |-> 0]]
  /\ runs' = [runs EXCEPT ![r] = NewRun(t, 0, FALSE)]
  /\ UNCHANGED <<payload, ckpts, held, picked, aged>>

MaxOf(a, b) == IF a >= b THEN a ELSE b

(* The candidates are claimed together.  When one statement claims two     *)
(* runs of a task, UPDATE ... FROM applies the attempt of one of them, and *)
(* which one is not specified: counted[t].                                 *)
ClaimTask(w, batch) ==
  /\ batch # {} /\ Cardinality(batch) <= ClaimQty
  /\ \A r \in batch : Claimable(r) /\ runs[r].attempt < AttemptBound
  /\ runs' = [r \in Run |-> IF r \in batch THEN Claimed(runs[r], w) ELSE runs[r]]
  /\ LET claimed == {runs[r].task : r \in batch}
     IN \E counted \in [claimed -> batch] :
          /\ \A t \in claimed : runs[counted[t]].task = t
          /\ tasks' = [t \in Task |->
               IF t \in claimed
               THEN [state |-> "running",
                     attempts |-> MaxOf(tasks[t].attempts,
                                        runs[counted[t]].attempt + 1)]
               ELSE tasks[t]]
  /\ held' = [held EXCEPT ![w] = @ \cup batch]
  /\ UNCHANGED <<payload, ckpts, picked, aged>>

----------------------------------------------------------------------------
(* What a worker does with a run it has claimed.  None of these but        *)
(* ExtendClaim compares claimed_by with the caller.                        *)

Drops(w, r) == held' = [held EXCEPT ![w] = @ \ {r}]

CompleteRun(w, r) ==
  /\ r \in held[w]
  /\ \/ /\ runs[r].state = "running"
        /\ runs' = [runs EXCEPT ![r] = Completed(runs[r])]
        /\ tasks' = [tasks EXCEPT ![runs[r].task].state = "completed"]
     \/ /\ runs[r].state # "running"              \* NotRunning or NotFound
        /\ UNCHANGED <<tasks, runs>>
  /\ Drops(w, r)
  /\ UNCHANGED <<payload, ckpts, picked, aged>>

(* Mutant of AttemptsRemain: one attempt too many. *)
AttemptsRemainOffByOne(next) == next <= MaxAttempts + 1

AttemptsRemain(next) == next <= MaxAttempts

(* do_fail_run: the run fails, and while attempts remain the task is       *)
(* cancelled (it would be retried past its maximum age) or a new run is    *)
(* inserted.  With no attempt left the task row keeps its state.           *)
DoFailRun(r, new, delayed, tooOld) ==
  LET t == runs[r].task
      next == tasks[t].attempts + 1
      failed == [runs EXCEPT ![r] = Failed(runs[r])]
  IN \/ /\ AttemptsRemain(next) /\ ~tooOld
        /\ runs[new].state = "absent"
        /\ tasks' = [tasks EXCEPT ![t] =
             [state |-> IF delayed THEN "sleeping" ELSE "pending", attempts |-> next]]
        /\ runs' = [failed EXCEPT ![new] = NewRun(t, next, delayed)]
     \/ /\ AttemptsRemain(next) /\ tooOld
        /\ tasks' = [tasks EXCEPT ![t] = [state |-> "cancelled", attempts |-> next]]
        /\ runs' = failed
     \/ /\ ~AttemptsRemain(next)
        /\ tasks' = tasks
        /\ runs' = failed

FailRun(w, r, new, delayed, tooOld) ==
  /\ r \in held[w]
  /\ \/ /\ runs[r].state \in {"running", "sleeping"}
        /\ DoFailRun(r, new, delayed, tooOld)
     \/ /\ runs[r].state \notin {"running", "sleeping"}
        /\ UNCHANGED <<tasks, runs>>
  /\ Drops(w, r)
  /\ UNCHANGED <<payload, ckpts, picked, aged>>

SuspendRun(r, wait) ==
  /\ runs' = [runs EXCEPT ![r] = Suspended(runs[r], wait)]
  /\ tasks' = [tasks EXCEPT ![runs[r].task].state = "sleeping"]

Suspendable(r) == runs[r].state = "running"

ScheduleRun(w, r) ==
  /\ r \in held[w]
  /\ \/ Suspendable(r) /\ SuspendRun(r, None)
     \/ ~Suspendable(r) /\ UNCHANGED <<tasks, runs>>
  /\ Drops(w, r)
  /\ UNCHANGED <<payload, ckpts, picked, aged>>

(* A recorded checkpoint or a run that is not running returns without a    *)
(* committed change, and the worker goes on with the run it holds.         *)
AwaitEvent(w, r, e) ==
  /\ Deadlines
  /\ r \in held[w]
  /\ <<runs[r].task, e>> \notin ckpts
  /\ Suspendable(r)
  /\ \/ /\ payload[e] = "emitted"
        /\ ckpts' = ckpts \cup {<<runs[r].task, e>>}
        /\ UNCHANGED <<tasks, runs, payload, held>>
     \/ /\ payload[e] # "emitted"
        /\ payload' = [payload EXCEPT ![e] = "sentinel"]
        /\ SuspendRun(r, e)
        /\ Drops(w, r)
        /\ UNCHANGED ckpts
  /\ UNCHANGED <<picked, aged>>

ExtendClaim(w, r) ==
  /\ r \in held[w]
  /\ runs[r].owner = w /\ runs[r].state = "running"
  /\ runs[r].claim = "lapsed"
  /\ runs' = [runs EXCEPT ![r].claim = "held"]
  /\ UNCHANGED <<tasks, payload, ckpts, held, picked, aged>>

(* What a worker has claimed is not settled by it: the process stops, or   *)
(* goes on with its other runs, when a claim is cancelled or a batch is    *)
(* dropped by shutdown, or an executor panics.  The tables keep the claim. *)
WorkerLoses(w, lost) ==
  /\ lost # {} /\ lost \subseteq held[w]
  /\ held' = [held EXCEPT ![w] = @ \ lost]
  /\ UNCHANGED <<tasks, runs, payload, ckpts, picked, aged>>

----------------------------------------------------------------------------
(* Events and cancellation *)

Waiters(e) == {r \in Run : runs[r].wait = e}

EmitEvent(e) ==
  /\ Deadlines
  /\ payload' = [payload EXCEPT ![e] = "emitted"]
  /\ runs' = [r \in Run |-> IF r \in Waiters(e) THEN Woken(runs[r]) ELSE runs[r]]
  /\ tasks' = [t \in Task |->
       IF \E r \in Waiters(e) : runs[r].task = t
       THEN [tasks[t] EXCEPT !.state = "pending"]
       ELSE tasks[t]]
  /\ UNCHANGED <<ckpts, held, picked, aged>>

(* Mutant of Cancellable: a running task can be cancelled. *)
CancellableWhenever(t) == tasks[t].state \notin NoRow

Cancellable(t) == tasks[t].state \notin NoRow \cup {"running"}

CancelTask(t) ==
  /\ Cancellable(t)
  /\ tasks' = [tasks EXCEPT ![t].state = "cancelled"]
  /\ runs' = [r \in Run |->
       IF r \in RunsOf(t) /\ runs[r].state # "completed"
       THEN Cancelled(runs[r])
       ELSE runs[r]]
  /\ UNCHANGED <<payload, ckpts, held, picked, aged>>

----------------------------------------------------------------------------
(* Upkeep: cancellation by age.  The statement reads its candidates, rows   *)
(* of a join, without a lock; LIMIT may take some runs of a task and leave *)
(* the others.                                                             *)

AgedCandidates(batch) ==
  /\ batch # {}
  /\ \A r \in batch : /\ runs[r].state \notin NoRow
                      /\ tasks[runs[r].task].state \in {"pending", "sleeping"}

(* Mutant of CancelRows: the tasks are left as they are. *)
CancelRunsOnly(batch) ==
  /\ runs' = [r \in Run |->
       IF r \in batch /\ runs[r].state \notin NoRow THEN Cancelled(runs[r]) ELSE runs[r]]
  /\ UNCHANGED tasks

(* It updates them by id alone, whatever became of them in between.        *)
CancelRows(batch) ==
  LET found == {r \in batch : runs[r].state \notin NoRow}
  IN /\ runs' = [r \in Run |-> IF r \in found THEN Cancelled(runs[r]) ELSE runs[r]]
     /\ tasks' = [t \in Task |->
          IF \E r \in found : runs[r].task = t
          THEN [tasks[t] EXCEPT !.state = "cancelled"]
          ELSE tasks[t]]

(* handle_cancellation_max_age, when nothing changes while it runs.        *)
CancelAged(u, batch) ==
  /\ aged[u] = {} /\ picked[u] = None
  /\ AgedCandidates(batch)
  /\ CancelRows(batch)
  /\ UNCHANGED <<payload, ckpts, held, picked, aged>>

(* Otherwise others take steps between its snapshot and its updates, which *)
(* PromptCancels excludes.                                                 *)
ReadAged(u, batch) ==
  /\ ~PromptCancels
  /\ aged[u] = {} /\ picked[u] = None
  /\ AgedCandidates(batch)
  /\ aged' = [aged EXCEPT ![u] = batch]
  /\ UNCHANGED <<tasks, runs, payload, ckpts, held, picked>>

CancelRead(u) ==
  /\ aged[u] # {}
  /\ CancelRows(aged[u])
  /\ aged' = [aged EXCEPT ![u] = {}]
  /\ UNCHANGED <<payload, ckpts, held, picked>>

----------------------------------------------------------------------------
(* Upkeep of expired claims (cleanup_limit = 1).  The SELECT takes no lock. *)

(* Mutant of Expired: a run that a worker has started is not looked at. *)
ExpiredUnstarted(r) == runs[r].claim = "lapsed" /\ runs[r].state \in {"pending", "sleeping"}

Expired(r) == runs[r].claim = "lapsed" /\ runs[r].state \in Active

PickExpired(u, r) ==
  /\ picked[u] = None /\ aged[u] = {}
  /\ Expired(r)
  /\ picked' = [picked EXCEPT ![u] = r]
  /\ UNCHANGED <<tasks, runs, payload, ckpts, held, aged>>

(* do_fail_run without validation: the state the run has by now is not     *)
(* looked at.                                                              *)
FailPicked(u, new, delayed, tooOld) ==
  /\ picked[u] # None
  /\ runs[picked[u]].state \notin NoRow
  /\ DoFailRun(picked[u], new, delayed, tooOld)
  /\ picked' = [picked EXCEPT ![u] = None]
  /\ UNCHANGED <<payload, ckpts, held, aged>>

(* NotFound for a run that was cleaned up, a lost connection, a deadlock   *)
(* victim: the transaction is rolled back.                                 *)
UpkeepAborts(u) ==
  /\ picked[u] # None \/ aged[u] # {}
  /\ picked' = [picked EXCEPT ![u] = None]
  /\ aged' = [aged EXCEPT ![u] = {}]
  /\ UNCHANGED <<tasks, runs, payload, ckpts, held>>

----------------------------------------------------------------------------
(* Garbage collection *)

CleanupTasks(batch) ==
  /\ batch # {}
  /\ \A t \in batch : tasks[t].state \in Settled
  /\ tasks' = [t \in Task |->
       IF t \in batch THEN [tasks[t] EXCEPT !.state = "deleted"] ELSE tasks[t]]
  /\ runs' = [r \in Run |->
       IF runs[r].task \in batch THEN Deleted(runs[r]) ELSE runs[r]]
  /\ ckpts' = {c \in ckpts : c[1] \notin batch}
  /\ UNCHANGED <<payload, held, picked, aged>>

CleanupEvents(batch) ==
  /\ \E e \in batch : payload[e] # "absent"
  /\ payload' = [e \in Event |-> IF e \in batch THEN "absent" ELSE payload[e]]
  /\ UNCHANGED <<tasks, runs, ckpts, held, picked, aged>>

----------------------------------------------------------------------------
(* The passing of time *)

RunBecomesDue(r) ==
  /\ runs[r].state \in Active /\ ~runs[r].due
  /\ PromptEvents => runs[r].wait = None
  /\ runs' = [runs EXCEPT ![r].due = TRUE]
  /\ UNCHANGED <<tasks, payload, ckpts, held, picked, aged>>

(* PromptWorkers: a worker that still executes the run has time left.      *)
ClaimLapses(r) ==
  /\ runs[r].state \in Active /\ runs[r].claim = "held"
  /\ PromptWorkers => \A w \in Worker : r \notin held[w]
  /\ runs' = [runs EXCEPT ![r].claim = "lapsed"]
  /\ UNCHANGED <<tasks, payload, ckpts, held, picked, aged>>

----------------------------------------------------------------------------
WorkerTaskStep(w) ==
  \/ \E batch \in SUBSET Run : ClaimTask(w, batch)
  \/ \E r \in Run : \/ CompleteRun(w, r)
                    \/ ScheduleRun(w, r)
                    \/ ExtendClaim(w, r)
                    \/ \E new \in Run, delayed, tooOld \in BOOLEAN :
                         FailRun(w, r, new, delayed, tooOld)
  \/ \E lost \in SUBSET Run : WorkerLoses(w, lost)

WorkerStep(w) ==
  \/ WorkerTaskStep(w)
  \/ \E r \in Run, e \in Event : AwaitEvent(w, r, e)

UpkeepFails(u) ==
  \E new \in Run, delayed, tooOld \in BOOLEAN : FailPicked(u, new, delayed, tooOld)

UpkeepStep(u) ==
  \/ \E batch \in SUBSET Run : CancelAged(u, batch) \/ ReadAged(u, batch)
  \/ CancelRead(u)
  \/ \E r \in Run : PickExpired(u, r)
  \/ UpkeepFails(u)
  \/ UpkeepAborts(u)

ClientTaskStep ==
  \/ \E t \in Task, r \in Run : SpawnTask(t, r)
  \/ \E t \in Task : CancelTask(t)
  \/ \E batch \in SUBSET Task : CleanupTasks(batch)

ClientStep ==
  \/ ClientTaskStep
  \/ \E e \in Event : EmitEvent(e)
  \/ \E batch \in (SUBSET Event) \ {{}} : CleanupEvents(batch)

TimePasses == \E r \in Run : RunBecomesDue(r) \/ ClaimLapses(r)

Next ==
  \/ \E w \in Worker : WorkerStep(w)
  \/ \E u \in Upkeeper : UpkeepStep(u)
  \/ ClientStep
  \/ TimePasses

Spec == Init /\ [][Next]_vars

(* The clock advances; every upkeep loop ticks again and again, whatever   *)
(* became of the previous tick, and looks for expired claims each time;    *)
(* and a transaction that is started over and over commits in the end.     *)
Fairness ==
  /\ \A r \in Run : WF_vars(ClaimLapses(r))
  /\ \A u \in Upkeeper : /\ SF_vars(\E r \in Run : PickExpired(u, r))
                         /\ SF_vars(UpkeepFails(u))
                         /\ WF_vars(CancelRead(u))

FairSpec == Spec /\ Fairness
=============================================================================
