-------------------------- MODULE DurableStepsProofs --------------------------
(***************************************************************************)
(* Durable execution, for every program and any number of workers, tasks   *)
(* and runs: a completed task has executed every one of its steps, and     *)
(* while deadlines are met a committed step is not executed again and      *)
(* keeps its result, no sleep is slept twice, and get-task shows nothing   *)
(* of a completed task that is not true of it.                             *)
(***************************************************************************)
EXTENDS AdminQueries, TaskStoreProofs

(* The steps of a program whose names are apart; of another program what   *)
(* is said of Steps says nothing.                                          *)
Steps == {i \in Position : NamesApart /\ Program[i].kind = "step"}

LEMMA StepsApart ==
  ASSUME NEW i \in Steps, NEW j \in Numbered, KeyOf(i) = KeyOf(j)
  PROVE  i = j
<1>1. i \in Numbered /\ NamesApart
  BY DEF Steps, Numbered
<1> QED
  BY <1>1 DEF NamesApart

LEMMA StepsNumbered ==
  /\ Steps \subseteq Numbered /\ Numbered \subseteq Position
  /\ \A i \in Numbered : KeyOf(i) \in Key
  /\ Position \subseteq Nat
BY LengthAssumption DEF Steps, Numbered, Position, Key

----------------------------------------------------------------------------
(* Every step is an operation of TaskStore, or none                        *)

(* The operations that do not complete a task. *)
OtherOperation ==
  \/ \E w \in Worker, batch \in SUBSET Run : ClaimTask(w, batch)
  \/ \E w \in Worker, r \in Run : ScheduleRun(w, r)
  \/ \E w \in Worker, r \in Run, new \in Run, delayed, tooOld \in BOOLEAN :
       FailRun(w, r, new, delayed, tooOld)
  \/ \E w \in Worker, r \in Run, e \in Event : AwaitEvent(w, r, e)
  \/ \E w \in Worker, lost \in SUBSET Run : WorkerLoses(w, lost)
  \/ \E u \in Upkeeper : UpkeepStep(u)
  \/ ClientStep
  \/ TimePasses

LEMMA ExecutingKinds ==
  ASSUME NEW w \in Worker, NEW r \in Run, Executing(w, r)
  PROVE  UNCHANGED vars \/ OtherOperation \/ TaskCompleted(w, r)
<1>1. CASE \E new \in Run, delayed, tooOld \in BOOLEAN : TaskFailed(w, r, new, delayed, tooOld)
  BY <1>1 DEF TaskFailed, OtherOperation
<1>2. CASE SleepScheduled(w, r)
  BY <1>2 DEF SleepScheduled, OtherOperation
<1>3. CASE EventAwaited(w, r)
  <2>1. exec[w][r].at \in Position /\ Program[exec[w][r].at].kind = "await"
    BY <1>3 DEF EventAwaited, EventRead, EventWaited, Calling
  <2>2. Program[exec[w][r].at].name \in Event
    BY <2>1, ProgramAssumption
  <2>3. vars' = vars \/ AwaitEvent(w, r, Program[exec[w][r].at].name)
    BY <1>3 DEF EventAwaited, EventRead, EventWaited
  <2> QED
    BY <2>2, <2>3 DEF OtherOperation
<1>4. \/ vars' = vars
      \/ SleepScheduled(w, r) \/ EventAwaited(w, r) \/ TaskCompleted(w, r)
      \/ \E new \in Run, delayed, tooOld \in BOOLEAN : TaskFailed(w, r, new, delayed, tooOld)
  BY DEF Executing, ExecuteTask, LoadCheckpoints, StepCached, StepExecuted,
         StepStored, SetCheckpoint, SleepPassed, SleepNotFound, SleepRecorded
<1> QED
  BY <1>1, <1>2, <1>3, <1>4

LEMMA StepKinds ==
  ASSUME [DNext]_<<vars, dvars>>
  PROVE  \/ UNCHANGED vars
         \/ OtherOperation
         \/ \E w \in Worker, r \in Run : TaskCompleted(w, r)
<1>1. ASSUME NEW w \in Worker, NEW lost \in SUBSET Run, ExecutionsLost(w, lost) PROVE OtherOperation
  BY <1>1 DEF ExecutionsLost, OtherOperation
<1>2. ASSUME NEW batch \in SUBSET Task, TasksCleanedUp(batch) PROVE OtherOperation
  BY <1>2 DEF TasksCleanedUp, OtherOperation, ClientStep, ClientTaskStep
<1>3. ASSUME Elsewhere PROVE OtherOperation
  BY <1>3 DEF Elsewhere, OtherOperation, ClientStep, ClientTaskStep
<1> QED
  BY <1>1, <1>2, <1>3, ExecutingKinds DEF DNext

LEMMA StepRefines == [DNext]_<<vars, dvars>> => [Next]_vars
<1>1. OtherOperation => Next
  BY DEF OtherOperation, Next, WorkerStep, WorkerTaskStep
<1>2. ASSUME NEW w \in Worker, NEW r \in Run, TaskCompleted(w, r) PROVE Next
  BY <1>2 DEF TaskCompleted, Next, WorkerStep, WorkerTaskStep
<1> QED
  BY <1>1, <1>2, StepKinds

(* Whatever a task function does between its claim and its end, for the    *)
(* tables it is a sequence of operations of Storage: what is proved of     *)
(* TaskStore holds of durable execution (context.rs, app.rs:454).          *)
THEOREM DurableStepsAreStore == DSpec => Spec
<1>1. DInit => Init
  BY DEF DInit
<1> QED
  BY <1>1, StepRefines, PTL DEF DSpec, Spec

(* What the history invariants need to know of the tables. *)
TablesKept ==
  /\ \A s \in Run : runs[s].task # None => runs'[s].task = runs[s].task
  /\ \A t \in Task : tasks'[t].state = "completed" => tasks[t].state = "completed"

LEMMA DoFailRunKeeps ==
  ASSUME TypeOK, NEW r \in Run, NEW new \in Run,
         NEW delayed \in BOOLEAN, NEW tooOld \in BOOLEAN,
         runs[r].state \notin NoRow, DoFailRun(r, new, delayed, tooOld)
  PROVE  TablesKept
<1>1. \A s \in Run : runs[s].task # None => runs'[s].task = runs[s].task
  BY DoFailRunType
<1>2. \A t \in Task : tasks'[t].state = "completed" => tasks[t].state = "completed"
  BY DEF DoFailRun, TypeOK
<1> QED
  BY <1>1, <1>2 DEF TablesKept

LEMMA SuspendRunKeeps ==
  ASSUME TypeOK, NEW r \in Run, runs[r].task # None,
         NEW wait \in Event \cup {None}, SuspendRun(r, wait)
  PROVE  TablesKept
<1>1. \A s \in Run : runs[s].task # None => runs'[s].task = runs[s].task
  BY SuspendRunType
<1>2. \A t \in Task : tasks'[t].state = "completed" => tasks[t].state = "completed"
  BY DEF SuspendRun, TypeOK, TaskRow
<1> QED
  BY <1>1, <1>2 DEF TablesKept

LEMMA OtherKeepsTables == ASSUME TypeOK, OtherOperation PROVE TablesKept
<1>1. ASSUME NEW w \in Worker, NEW batch \in SUBSET Run, ClaimTask(w, batch)
      PROVE  TablesKept
  <2>1. \A r \in batch : Claimed(runs[r], w).task = runs[r].task
    BY ClaimedRow DEF TypeOK
  <2>2. \A t \in Task : tasks'[t] = tasks[t] \/ tasks'[t].state = "running"
    BY <1>1 DEF ClaimTask
  <2>3. \A r \in Run : runs'[r].task = runs[r].task
    BY <1>1, <2>1 DEF ClaimTask
  <2> QED
    BY <2>2, <2>3 DEF TablesKept
<1>2. ASSUME NEW w \in Worker, NEW r \in Run, ScheduleRun(w, r) PROVE TablesKept
  <2>1. runs[r].task # None
    BY <1>2 DEF ScheduleRun, TypeOK
  <2> QED
    BY <1>2, <2>1, SuspendRunKeeps DEF ScheduleRun, TablesKept
<1>3. ASSUME NEW w \in Worker, NEW r \in Run, NEW new \in Run, NEW delayed \in BOOLEAN,
             NEW tooOld \in BOOLEAN, FailRun(w, r, new, delayed, tooOld)
      PROVE  TablesKept
  BY <1>3, DoFailRunKeeps DEF FailRun, TablesKept, NoRow
<1>4. ASSUME NEW w \in Worker, NEW r \in Run, NEW e \in Event, AwaitEvent(w, r, e)
      PROVE  TablesKept
  <2>1. runs[r].task # None
    BY <1>4 DEF AwaitEvent, TypeOK
  <2> QED
    BY <1>4, <2>1, SuspendRunKeeps DEF AwaitEvent, TablesKept
<1>5. ASSUME NEW w \in Worker, NEW lost \in SUBSET Run, WorkerLoses(w, lost) PROVE TablesKept
  BY <1>5 DEF WorkerLoses, TablesKept
<1>6. ASSUME NEW u \in Upkeeper, UpkeepStep(u) PROVE TablesKept
  <2>1. ASSUME NEW new \in Run, NEW delayed \in BOOLEAN, NEW tooOld \in BOOLEAN,
               FailPicked(u, new, delayed, tooOld)
        PROVE  TablesKept
    <3>1. picked[u] \in Run
      BY <2>1 DEF FailPicked, TypeOK
    <3> QED
      BY <2>1, <3>1, DoFailRunKeeps DEF FailPicked
  <2>2. ASSUME NEW batch \in SUBSET Run, CancelRows(batch) PROVE TablesKept
    <3>1. \A t \in Task : tasks'[t].state = "completed" => tasks[t].state = "completed"
      BY <2>2 DEF CancelRows, TypeOK, TaskRow
    <3> QED
      BY <2>2, <3>1, CancelRowsKeep DEF TablesKept
  <2>3. ASSUME \/ CancelRead(u)
               \/ \E batch \in SUBSET Run : CancelAged(u, batch) \/ ReadAged(u, batch)
        PROVE  TablesKept
    <3>1. aged[u] \in SUBSET Run
      BY DEF TypeOK
    <3> QED
      BY <2>2, <2>3, <3>1 DEF CancelAged, ReadAged, CancelRead, TablesKept
  <2> QED
    BY <1>6, <2>1, <2>3
    DEF UpkeepStep, PickExpired, UpkeepFails, UpkeepAborts, TablesKept
<1>7. CASE ClientStep
  <2>1. ASSUME NEW t \in Task, NEW r \in Run, SpawnTask(t, r) PROVE TablesKept
    <3>1. runs[r].task = None
      BY <2>1 DEF SpawnTask, TypeOK, WellFormed
    <3> QED
      BY <2>1, <3>1 DEF SpawnTask, TypeOK, TablesKept
  <2>2. ASSUME NEW t \in Task, CancelTask(t) PROVE TablesKept
    BY <2>2, CancelledRow DEF CancelTask, TypeOK, TaskRow, TablesKept
  <2>3. ASSUME NEW batch \in SUBSET Task, CleanupTasks(batch) PROVE TablesKept
    BY <2>3, DeletedRow DEF CleanupTasks, TypeOK, TaskRow, TablesKept
  <2>4. ASSUME NEW e \in Event, EmitEvent(e) PROVE TablesKept
    BY <2>4, WokenRow DEF EmitEvent, TypeOK, TaskRow, TablesKept
  <2>5. ASSUME NEW batch \in SUBSET Event, CleanupEvents(batch) PROVE TablesKept
    BY <2>5 DEF CleanupEvents, TablesKept
  <2> QED
    BY <1>7, <2>1, <2>2, <2>3, <2>4, <2>5 DEF ClientStep, ClientTaskStep
<1>8. CASE TimePasses
  BY <1>8 DEF TimePasses, RunBecomesDue, ClaimLapses, TypeOK, RunRow, TablesKept
<1> QED
  BY <1>1, <1>2, <1>3, <1>4, <1>5, <1>6, <1>7, <1>8 DEF OtherOperation

----------------------------------------------------------------------------
(* A completed task has executed every step, whatever the deadlines        *)

(* What is behind the point an execution has reached, or in its cache, was *)
(* executed for the task.                                                  *)
Reached(w, r) ==
  exec[w][r] # Idle =>
    /\ exec[w][r].phase = "ran" => exec[w][r].at \in ran[TaskOf(r)]
    /\ \A i \in Steps :
         i < exec[w][r].at \/ exec[w][r].cache[KeyOf(i)] # None => i \in ran[TaskOf(r)]

StepsInv ==
  /\ DTypeOK
  /\ \A w \in Worker, r \in Run : Reached(w, r)
  /\ \A t \in Task, i \in Steps : saved[t][KeyOf(i)] # None => i \in ran[t]
  /\ NamesApart => EveryStepRan

LEMMA ExecutionTyped ==
  ASSUME DTypeOK, NEW w \in Worker, NEW r \in Run
  PROVE  /\ exec[w][r] # Idle => exec[w][r] \in Execution /\ r \in held[w]
         /\ r \in held[w] => TaskOf(r) \in Task
         /\ Idle \notin Execution
<1>1. exec[w][r] \in Execution \cup {Idle}
  BY DEF DTypeOK
<1>2. ASSUME NEW x \in Execution PROVE x # Idle
  <2>1. x.at \in 1 .. Length + 1
    BY DEF Execution
  <2>2. x.at # 0
    BY <2>1
  <2> QED
    BY <2>2 DEF Idle
<1>3. r \in held[w] => TaskOf(r) \in Task
  BY DEF DTypeOK, TypeOK, RunRow, TaskOf
<1> QED
  BY <1>1, <1>2, <1>3 DEF DTypeOK

LEMMA ContinuesTyped ==
  ASSUME DTypeOK, NEW w \in Worker, NEW r \in Run, NEW x \in Execution \cup {Idle},
         Continues(w, r, x)
  PROVE  /\ exec' \in [Worker -> [Run -> Execution \cup {Idle}]]
         /\ \A v \in Worker, s \in Run :
              exec'[v][s] = IF v = w /\ s = r THEN x ELSE exec[v][s]
<1> DEFINE E == Execution \cup {Idle}
<1>1. exec \in [Worker -> [Run -> E]] /\ x \in E
  BY DEF DTypeOK
<1>2. exec' = [exec EXCEPT ![w][r] = x]
  BY DEF Continues
<1> HIDE DEF E
<1>3. /\ exec' \in [Worker -> [Run -> E]]
      /\ \A v \in Worker, s \in Run :
           exec'[v][s] = IF v = w /\ s = r THEN x ELSE exec[v][s]
  BY <1>1, <1>2
<1> QED
  BY <1>3 DEF E

(* A step of TaskStore, or none, that settles and suspends nothing. *)
Unmoved == [Next]_vars /\ UNCHANGED <<tasks, runs, held>>

(* A step of one execution that goes on.                                   *)
LEMMA LocalStep ==
  ASSUME StepsInv, Unmoved, NEW w \in Worker, NEW r \in Run, r \in held[w],
         NEW x \in Execution, Continues(w, r, x),
         saved' \in [Task -> [Key -> Recorded \cup {None}]],
         ran' \in [Task -> SUBSET Position], slept' = slept,
         \A t \in Task : ran[t] \subseteq ran'[t],
         \A t \in Task, i \in Steps : saved'[t][KeyOf(i)] # None => i \in ran'[t],
         x.phase = "ran" => x.at \in ran'[TaskOf(r)],
         \A i \in Steps :
           i < x.at \/ x.cache[KeyOf(i)] # None => i \in ran'[TaskOf(r)]
  PROVE  StepsInv'
<1>1. /\ exec' \in [Worker -> [Run -> Execution \cup {Idle}]]
      /\ \A v \in Worker, s \in Run :
           exec'[v][s] = IF v = w /\ s = r THEN x ELSE exec[v][s]
  BY ContinuesTyped DEF StepsInv
<1>2. tasks' = tasks /\ runs' = runs /\ held' = held
  BY DEF Unmoved
<1>3. TypeOK'
  BY TypeStep DEF StepsInv, DTypeOK, Unmoved
<1>4. DTypeOK'
  BY <1>1, <1>2, <1>3 DEF DTypeOK, StepsInv
<1>5. ASSUME NEW v \in Worker, NEW s \in Run PROVE Reached(v, s)'
  <2>1. CASE v = w /\ s = r
    BY <1>1, <1>2, <2>1 DEF Reached, TaskOf
  <2>2. CASE ~(v = w /\ s = r)
    <3>1. exec'[v][s] = exec[v][s] /\ TaskOf(s)' = TaskOf(s)
      BY <1>1, <1>2, <2>2 DEF TaskOf
    <3>2. exec[v][s] # Idle => TaskOf(s) \in Task
      BY ExecutionTyped DEF StepsInv
    <3> QED
      BY <3>1, <3>2 DEF Reached, StepsInv
  <2> QED
    BY <2>1, <2>2
<1>6. NamesApart => EveryStepRan'
  BY <1>2 DEF EveryStepRan, StepsInv, DTypeOK
<1> QED
  BY <1>4, <1>5, <1>6 DEF StepsInv

(* A step that ends executions or leaves them as they are.                 *)
LEMMA StoreStep ==
  ASSUME StepsInv, [Next]_vars,
         \A s \in Run : runs[s].task # None => runs'[s].task = runs[s].task,
         exec' \in [Worker -> [Run -> Execution \cup {Idle}]],
         \A v \in Worker, s \in Run :
           exec'[v][s] # Idle => exec'[v][s] = exec[v][s] /\ s \in held'[v],
         saved' \in [Task -> [Key -> Recorded \cup {None}]],
         \A t \in Task : saved'[t] \in {saved[t], Blank},
         ran' = ran, slept' \in [Task -> SUBSET Position],
         \A t \in Task : tasks'[t].state = "completed" =>
           tasks[t].state = "completed" \/ \A i \in Steps : i \in ran[t]
  PROVE  StepsInv'
<1>1. DTypeOK'
  BY TypeStep DEF DTypeOK, StepsInv
<1>2. ASSUME NEW v \in Worker, NEW s \in Run PROVE Reached(v, s)'
  <2>1. CASE exec'[v][s] = Idle
    BY <2>1 DEF Reached, Idle
  <2>2. CASE exec'[v][s] # Idle
    <3>1. exec'[v][s] = exec[v][s] /\ exec[v][s] # Idle
      BY <2>2
    <3>2. TaskOf(s)' = TaskOf(s)
      BY <3>1, ExecutionTyped, NoneAssumption DEF TaskOf, StepsInv
    <3> QED
      BY <3>1, <3>2 DEF Reached, StepsInv
  <2> QED
    BY <2>1, <2>2
<1>3. ASSUME NEW t \in Task, NEW i \in Steps, saved'[t][KeyOf(i)] # None
      PROVE  i \in ran'[t]
  <2>1. KeyOf(i) \in Key
    BY StepsNumbered
  <2>2. Blank[KeyOf(i)] = None
    BY <2>1 DEF Blank
  <2> QED
    BY <1>3, <2>2 DEF StepsInv
<1>4. NamesApart => EveryStepRan'
  BY DEF EveryStepRan, StepsInv, Steps
<1> QED
  BY <1>1, <1>2, <1>3, <1>4 DEF StepsInv

(* The execution r of w, at a call.                                        *)
LEMMA AtCall ==
  ASSUME DTypeOK, NEW w \in Worker, NEW r \in Run, NEW kind, NEW phase,
         Calling(w, r, kind, phase)
  PROVE  /\ exec[w][r] \in Execution /\ r \in held[w] /\ TaskOf(r) \in Task
         /\ exec[w][r].at \in Position /\ exec[w][r].at + 1 \in 1 .. Length + 1
         /\ kind # "await" => exec[w][r].at \in Numbered /\ Here(w, r) \in Key
         /\ exec[w][r].at \in Steps <=> NamesApart /\ kind = "step"
<1>1. exec[w][r].at \in Position /\ Program[exec[w][r].at].kind = kind
  BY DEF Calling
<1>2. exec[w][r].at + 1 \in 1 .. Length + 1
  BY <1>1, LengthAssumption DEF Position
<1> QED
  BY <1>1, <1>2, ExecutionTyped, StepsNumbered DEF Calling, Here, Numbered, Steps

(* Going on to the next call. *)
LEMMA NextCall ==
  ASSUME StepsInv, Unmoved, UNCHANGED <<saved, ran, slept>>,
         NEW w \in Worker, NEW r \in Run, NEW kind, Calling(w, r, kind, "call"),
         kind = "step" => \/ exec[w][r].cache[Here(w, r)] # None
                          \/ saved[TaskOf(r)][Here(w, r)] # None,
         Continues(w, r, [exec[w][r] EXCEPT !.at = @ + 1])
  PROVE  StepsInv'
<1> DEFINE x == [exec[w][r] EXCEPT !.at = exec[w][r].at + 1]
<1>1. /\ exec[w][r] \in Execution /\ r \in held[w] /\ TaskOf(r) \in Task
      /\ exec[w][r].at + 1 \in 1 .. Length + 1
      /\ exec[w][r].at \in Steps <=> NamesApart /\ kind = "step"
      /\ exec[w][r] # Idle /\ exec[w][r].phase = "call"
  BY AtCall, ExecutionTyped DEF StepsInv, Calling
<1>2. /\ x \in Execution /\ x.at = exec[w][r].at + 1
      /\ x.phase = "call" /\ x.cache = exec[w][r].cache
  BY <1>1 DEF Execution
<1>3. ASSUME NEW i \in Steps, i < x.at \/ x.cache[KeyOf(i)] # None
      PROVE  i \in ran[TaskOf(r)]
  <2>1. i \in Nat /\ exec[w][r].at \in Nat
    BY <1>1, StepsNumbered DEF Calling
  <2>2. CASE i = exec[w][r].at
    BY <1>1, <2>2 DEF StepsInv, Reached, Here
  <2>3. CASE i # exec[w][r].at
    BY <1>1, <1>2, <1>3, <2>1, <2>3 DEF StepsInv, Reached
  <2> QED
    BY <2>2, <2>3
<1>4. Continues(w, r, x)
  OBVIOUS
<1> HIDE DEF x
<1> QED
  BY <1>1, <1>2, <1>3, <1>4, LocalStep DEF StepsInv, DTypeOK

LEMMA StepsInvInit == DInit => StepsInv
<1> SUFFICES ASSUME DInit PROVE StepsInv
  OBVIOUS
<1>1. Blank \in [Key -> Recorded \cup {None}]
  BY DEF Blank
<1>2. DTypeOK
  BY <1>1, TypeInit DEF DInit, DTypeOK
<1>3. \A i \in Steps : Blank[KeyOf(i)] = None
  BY StepsNumbered DEF Blank
<1>4. EveryStepRan
  BY DEF DInit, Init, EveryStepRan
<1> QED
  BY <1>2, <1>3, <1>4 DEF StepsInv, DInit, Reached

(* The steps of an execution between its calls of TaskStore.               *)
LEMMA ExecutingKeepsSteps ==
  ASSUME StepsInv, NEW w \in Worker, NEW r \in Run, Executing(w, r), Unmoved,
         ~SleepScheduled(w, r), ~TaskCompleted(w, r), ~EventAwaited(w, r),
         ~\E new \in Run, delayed, tooOld \in BOOLEAN : TaskFailed(w, r, new, delayed, tooOld)
  PROVE  StepsInv'
<1> USE DEF StepsInv
<1>0. /\ DTypeOK /\ Reached(w, r)
      /\ saved \in [Task -> [Key -> Recorded \cup {None}]]
      /\ ran \in [Task -> SUBSET Position]
  BY DEF DTypeOK
<1>1. CASE ExecuteTask(w, r)
  <2>1. /\ NewContext \in Execution /\ NewContext.at = 1
        /\ NewContext.phase = "call" /\ NewContext.cache = Blank
    BY LengthAssumption DEF NewContext, Execution, Blank
  <2>2. ASSUME NEW i \in Steps PROVE ~(i < 1) /\ Blank[KeyOf(i)] = None
    <3>1. KeyOf(i) \in Key
      BY StepsNumbered
    <3> QED
      BY <3>1, LengthAssumption DEF Blank, Steps, Position
  <2> QED
    BY <1>0, <1>1, <2>1, <2>2, LocalStep DEF ExecuteTask
<1>2. CASE LoadCheckpoints(w, r)
  <2> DEFINE found == saved[TaskOf(r)]
             added == [k \in Key |-> IF found[k] # None THEN found[k] ELSE exec[w][r].cache[k]]
             x == [exec[w][r] EXCEPT !.loaded = TRUE, !.cache = added]
  <2>1. PICK kind : Calling(w, r, kind, "call")
    BY <1>2 DEF LoadCheckpoints, LooksInCache
  <2>2. exec[w][r] \in Execution /\ r \in held[w] /\ TaskOf(r) \in Task
    BY <1>0, <2>1, AtCall
  <2>3. added \in [Key -> Recorded \cup {None}]
    BY <1>0, <2>2 DEF Execution
  <2>4. /\ x \in Execution /\ x.at = exec[w][r].at
        /\ x.phase = exec[w][r].phase /\ x.cache = added
    <3> HIDE DEF added
    <3> QED
      BY <2>2, <2>3 DEF Execution
  <2>5. x.phase = "call" /\ exec[w][r] # Idle
    BY <2>1, <2>4 DEF Calling
  <2>6. ASSUME NEW i \in Steps, i < x.at \/ added[KeyOf(i)] # None
        PROVE  i \in ran[TaskOf(r)]
    BY <1>0, <2>2, <2>4, <2>5, <2>6, StepsNumbered DEF Reached
  <2>7. Continues(w, r, x) /\ UNCHANGED <<saved, ran, slept>>
    BY <1>2 DEF LoadCheckpoints
  <2> HIDE DEF x, added
  <2> QED
    BY <1>0, <2>2, <2>4, <2>5, <2>6, <2>7, LocalStep
<1>3. CASE StepCached(w, r)
  BY <1>3, NextCall DEF StepCached, Lookup, AskedTable
<1>4. ASSUME NEW v \in Value, StepExecuted(w, r, v) PROVE StepsInv'
  <2> DEFINE x == [exec[w][r] EXCEPT !.phase = "ran", !.result = v]
             t == TaskOf(r)
  <2>1. Calling(w, r, "step", "call")
    BY <1>4 DEF StepExecuted
  <2>2. /\ exec[w][r] \in Execution /\ r \in held[w] /\ t \in Task
        /\ exec[w][r].at \in Position /\ exec[w][r] # Idle
    BY <1>0, <2>1, AtCall DEF Calling
  <2>3. /\ x \in Execution /\ x.at = exec[w][r].at
        /\ x.phase = "ran" /\ x.cache = exec[w][r].cache
    BY <2>2 DEF Execution
  <2>4. /\ ran' = [ran EXCEPT ![t] = @ \cup {exec[w][r].at}]
        /\ Continues(w, r, x) /\ UNCHANGED <<saved, slept>>
    BY <1>4 DEF StepExecuted
  <2>5. /\ ran' \in [Task -> SUBSET Position]
        /\ \A u \in Task : ran[u] \subseteq ran'[u]
        /\ exec[w][r].at \in ran'[t]
    BY <1>0, <2>2, <2>4
  <2>6. \A u \in Task, i \in Steps : saved'[u][KeyOf(i)] # None => i \in ran'[u]
    BY <2>4, <2>5
  <2>7. \A i \in Steps : i < x.at \/ x.cache[KeyOf(i)] # None => i \in ran'[t]
    BY <1>0, <2>2, <2>3, <2>5 DEF Reached
  <2> HIDE DEF x
  <2> QED
    BY <1>0, <2>2, <2>3, <2>4, <2>5, <2>6, <2>7, LocalStep
<1>5. CASE StepStored(w, r)
  <2> DEFINE result == Stored(w, exec[w][r].result)
             x == [exec[w][r] EXCEPT !.phase = "call", !.at = exec[w][r].at + 1, !.result = None,
                                     !.cache[Here(w, r)] = result]
             t == TaskOf(r)
  <2>1. Calling(w, r, "step", "ran")
    BY <1>5 DEF StepStored, SetCheckpoint, Cached
  <2>2. /\ exec[w][r] \in Execution /\ r \in held[w] /\ t \in Task
        /\ exec[w][r].at \in Numbered /\ exec[w][r] # Idle
        /\ exec[w][r].at + 1 \in 1 .. Length + 1 /\ Here(w, r) \in Key
    BY <1>0, <2>1, AtCall DEF Calling
  <2>3. result \in Recorded \cup {None} /\ exec[w][r].cache \in [Key -> Recorded \cup {None}]
    BY <2>2 DEF Execution, Recorded, Stored
  <2>4. /\ x \in Execution /\ x.at = exec[w][r].at + 1 /\ x.phase = "call"
        /\ x.cache = [exec[w][r].cache EXCEPT ![Here(w, r)] = result]
    BY <2>2, <2>3 DEF Execution
  <2>5. exec[w][r].at \in ran[t]
    BY <1>0, <2>1, <2>2 DEF Reached, Calling
  <2>6. /\ saved' = [saved EXCEPT ![t][Here(w, r)] = result]
        /\ Continues(w, r, x) /\ UNCHANGED <<ran, slept>>
    BY <1>5 DEF StepStored, SetCheckpoint, Cached
  <2>7. saved' \in [Task -> [Key -> Recorded \cup {None}]]
    BY <1>0, <2>2, <2>3, <2>6
  <2>8. \A i \in Steps : KeyOf(i) = Here(w, r) => i = exec[w][r].at
    BY <2>2, StepsApart DEF Here
  <2>9. \A u \in Task, i \in Steps : saved'[u][KeyOf(i)] # None => i \in ran[u]
    BY <1>0, <2>2, <2>5, <2>6, <2>8, StepsNumbered
  <2> HIDE DEF x, result
  <2>10. ASSUME NEW i \in Steps, i < x.at \/ x.cache[KeyOf(i)] # None
         PROVE  i \in ran[t]
    <3>1. i \in Nat /\ exec[w][r].at \in Nat /\ KeyOf(i) \in Key
      BY <2>2, StepsNumbered
    <3>2. CASE i = exec[w][r].at
      BY <2>5, <3>2
    <3>3. CASE i # exec[w][r].at
      <4>1. x.cache[KeyOf(i)] = exec[w][r].cache[KeyOf(i)]
        BY <2>3, <2>4, <2>8, <3>1, <3>3
      <4>2. i < exec[w][r].at \/ exec[w][r].cache[KeyOf(i)] # None
        BY <2>4, <2>10, <3>1, <3>3, <4>1
      <4> QED
        BY <1>0, <2>2, <4>2 DEF Reached
    <3> QED
      BY <3>2, <3>3
  <2> QED
    BY <1>0, <2>2, <2>4, <2>6, <2>7, <2>9, <2>10, LocalStep
<1>6. CASE SleepPassed(w, r)
  BY <1>6, NextCall DEF SleepPassed
<1>7. CASE SleepNotFound(w, r)
  <2> DEFINE x == [exec[w][r] EXCEPT !.phase = "drowsy"]
  <2>1. exec[w][r] \in Execution /\ r \in held[w] /\ exec[w][r] # Idle
    BY <1>0, <1>7, AtCall DEF SleepNotFound, Calling
  <2>2. /\ x \in Execution /\ x.at = exec[w][r].at
        /\ x.phase = "drowsy" /\ x.cache = exec[w][r].cache
    BY <2>1 DEF Execution
  <2>3. Continues(w, r, x) /\ UNCHANGED <<saved, ran, slept>>
    BY <1>7 DEF SleepNotFound
  <2> HIDE DEF x
  <2> QED
    BY <1>0, <2>1, <2>2, <2>3, LocalStep DEF Reached
<1>8. CASE SleepRecorded(w, r)
  <2> DEFINE x == [exec[w][r] EXCEPT !.phase = "suspend"]
             t == TaskOf(r)
  <2>1. Calling(w, r, "sleep", "drowsy")
    BY <1>8 DEF SleepRecorded, SetCheckpoint
  <2>2. /\ exec[w][r] \in Execution /\ r \in held[w] /\ exec[w][r] # Idle /\ t \in Task
        /\ exec[w][r].at \in Numbered /\ exec[w][r].at \notin Steps /\ Here(w, r) \in Key
    BY <1>0, <2>1, AtCall DEF Calling
  <2>3. /\ x \in Execution /\ x.at = exec[w][r].at
        /\ x.phase = "suspend" /\ x.cache = exec[w][r].cache
    BY <2>2 DEF Execution
  <2>4. /\ saved' = [saved EXCEPT ![t][Here(w, r)] = Slept]
        /\ Continues(w, r, x) /\ UNCHANGED <<ran, slept>>
    BY <1>8 DEF SleepRecorded, SetCheckpoint
  <2>5. saved' \in [Task -> [Key -> Recorded \cup {None}]]
    BY <1>0, <2>2, <2>4 DEF Recorded
  <2>6. \A i \in Steps : KeyOf(i) # Here(w, r)
    BY <2>2, StepsApart DEF Here
  <2>7. \A u \in Task, i \in Steps : saved'[u][KeyOf(i)] # None => i \in ran[u]
    BY <1>0, <2>2, <2>4, <2>6, StepsNumbered
  <2> HIDE DEF x
  <2> QED
    BY <1>0, <2>2, <2>3, <2>4, <2>5, <2>7, LocalStep DEF Reached
<1> QED
  BY <1>1, <1>2, <1>3, <1>4, <1>5, <1>6, <1>7, <1>8 DEF Executing

(* The end of an execution. *)
LEMMA EndsTyped ==
  ASSUME DTypeOK, NEW w \in Worker, NEW r \in Run, Ends(w, r), Drops(w, r)
  PROVE  /\ exec' \in [Worker -> [Run -> Execution \cup {Idle}]]
         /\ \A v \in Worker, s \in Run :
              exec'[v][s] # Idle => exec'[v][s] = exec[v][s] /\ s \in held'[v]
<1>1. /\ exec' \in [Worker -> [Run -> Execution \cup {Idle}]]
      /\ \A v \in Worker, s \in Run :
           exec'[v][s] = IF v = w /\ s = r THEN Idle ELSE exec[v][s]
  BY ContinuesTyped DEF Ends, Continues
<1>2. \A v \in Worker, s \in Run : ~(v = w /\ s = r) /\ s \in held[v] => s \in held'[v]
  BY DEF Drops, DTypeOK, TypeOK
<1> QED
  BY <1>1, <1>2 DEF DTypeOK

LEMMA StepsInvStep == ASSUME StepsInv, [DNext]_<<vars, dvars>> PROVE StepsInv'
<1>0. /\ DTypeOK /\ [Next]_vars
      /\ saved \in [Task -> [Key -> Recorded \cup {None}]]
      /\ ran \in [Task -> SUBSET Position] /\ slept \in [Task -> SUBSET Position]
      /\ exec \in [Worker -> [Run -> Execution \cup {Idle}]]
      /\ \A w \in Worker, r \in Run : exec[w][r] # Idle => r \in held[w]
  BY StepRefines DEF StepsInv, DTypeOK
<1>1. OtherOperation => TablesKept
  BY OtherKeepsTables DEF StepsInv, DTypeOK
<1>2. UNCHANGED vars => Unmoved
  BY <1>0 DEF vars, Unmoved
<1>3. ASSUME NEW w \in Worker, NEW r \in Run, SleepScheduled(w, r) PROVE StepsInv'
  <2>1. OtherOperation /\ Ends(w, r) /\ Drops(w, r) /\ UNCHANGED <<saved, ran>>
    BY <1>3 DEF SleepScheduled, ScheduleRun, OtherOperation
  <2>2. slept' \in [Task -> SUBSET Position]
    <3>1. exec[w][r].at \in Position /\ TaskOf(r) \in Task
      BY <1>0, <1>3, AtCall DEF SleepScheduled
    <3> QED
      BY <1>0, <1>3, <3>1 DEF SleepScheduled
  <2> QED
    BY <1>0, <1>1, <2>1, <2>2, EndsTyped, StoreStep DEF TablesKept
<1>4. ASSUME NEW w \in Worker, NEW r \in Run, EventAwaited(w, r) PROVE StepsInv'
  <2> DEFINE e == Program[exec[w][r].at].name
  <2>1. /\ Calling(w, r, "await", "call") /\ UNCHANGED <<saved, ran, slept>>
        /\ exec[w][r].at \in Position /\ Program[exec[w][r].at].kind = "await"
    BY <1>4 DEF EventAwaited, EventRead, EventWaited, Calling
  <2>2. e \in Event
    BY <2>1, ProgramAssumption
  <2>3. CASE Continues(w, r, [exec[w][r] EXCEPT !.at = @ + 1])
    <3>1. \/ UNCHANGED vars
          \/ AwaitEvent(w, r, e) /\ (payload[e] = "emitted" \/ Ends(w, r))
      BY <1>4 DEF EventAwaited, EventRead, EventWaited
    <3>2. ~Ends(w, r)
      <4> DEFINE x == [exec[w][r] EXCEPT !.at = exec[w][r].at + 1]
      <4>1. exec[w][r] \in Execution /\ exec[w][r].at + 1 \in 1 .. Length + 1
        BY <1>0, <2>1, AtCall
      <4>2. x \in Execution
        BY <4>1 DEF Execution
      <4>3. Continues(w, r, x)
        BY <2>3
      <4> HIDE DEF x
      <4>4. exec'[w][r] = x /\ x # Idle
        BY <1>0, <4>2, <4>3, ContinuesTyped, ExecutionTyped
      <4> QED
        BY <1>0, <4>4, ContinuesTyped DEF Ends, Continues
    <3>3. Unmoved
      BY <1>0, <1>2, <3>1, <3>2 DEF AwaitEvent, Unmoved
    <3> QED
      BY <2>1, <2>3, <3>3, NextCall
  <2>4. CASE ~Continues(w, r, [exec[w][r] EXCEPT !.at = @ + 1])
    <3>1. AwaitEvent(w, r, e) /\ payload[e] # "emitted" /\ Ends(w, r)
      BY <1>4, <2>4 DEF EventAwaited, EventRead, EventWaited
    <3>2. OtherOperation /\ Drops(w, r)
      BY <2>2, <3>1 DEF AwaitEvent, OtherOperation
    <3> QED
      BY <1>0, <1>1, <2>1, <3>1, <3>2, EndsTyped, StoreStep DEF TablesKept
  <2> QED
    BY <2>3, <2>4
<1>5. ASSUME NEW w \in Worker, NEW r \in Run, TaskCompleted(w, r) PROVE StepsInv'
  <2> DEFINE t == TaskOf(r)
  <2>1. /\ CompleteRun(w, r) /\ Drops(w, r) /\ Ends(w, r) /\ UNCHANGED <<saved, ran, slept>>
        /\ exec[w][r] # Idle /\ exec[w][r].at = Length + 1
    BY <1>5 DEF TaskCompleted, CompleteRun
  <2>2. \A i \in Steps : i \in ran[t]
    BY <2>1, LengthAssumption DEF StepsInv, Reached, Steps, Position
  <2>3. t \in Task
    BY <1>0, <2>1, ExecutionTyped
  <2>4. \A u \in Task : u # t => tasks'[u] = tasks[u]
    BY <1>0, <2>1, <2>3 DEF CompleteRun, DTypeOK, TypeOK, TaskOf
  <2>5. \A s \in Run : runs'[s].task = runs[s].task
    <3>1. runs \in [Run -> RunRow] /\ Completed(runs[r]).task = runs[r].task
      BY <1>0, CompletedRow DEF DTypeOK, TypeOK
    <3>2. runs' = runs \/ runs' = [runs EXCEPT ![r] = Completed(runs[r])]
      BY <2>1 DEF CompleteRun
    <3> QED
      BY <3>1, <3>2
  <2> QED
    BY <1>0, <2>1, <2>2, <2>4, <2>5, EndsTyped, StoreStep
<1>6. ASSUME NEW w \in Worker, NEW r \in Run, NEW new \in Run, NEW delayed \in BOOLEAN,
             NEW tooOld \in BOOLEAN, TaskFailed(w, r, new, delayed, tooOld)
      PROVE  StepsInv'
  <2>1. OtherOperation /\ Drops(w, r) /\ Ends(w, r) /\ UNCHANGED <<saved, ran, slept>>
    BY <1>6 DEF TaskFailed, FailRun, OtherOperation
  <2> QED
    BY <1>0, <1>1, <2>1, EndsTyped, StoreStep DEF TablesKept
<1>7. ASSUME NEW w \in Worker, NEW lost \in SUBSET Run, ExecutionsLost(w, lost) PROVE StepsInv'
  <2>1. OtherOperation /\ UNCHANGED <<saved, ran, slept>>
    BY <1>7 DEF ExecutionsLost, OtherOperation
  <2>2. /\ exec' = [exec EXCEPT ![w] = [r \in Run |-> IF r \in lost THEN Idle ELSE @[r]]]
        /\ held' = [held EXCEPT ![w] = @ \ lost]
    BY <1>7 DEF ExecutionsLost, WorkerLoses
  <2>3. /\ exec' \in [Worker -> [Run -> Execution \cup {Idle}]]
        /\ \A v \in Worker, s \in Run :
             exec'[v][s] # Idle => exec'[v][s] = exec[v][s] /\ (v # w \/ s \notin lost)
    BY <1>0, <2>2
  <2>4. \A v \in Worker : held'[v] = IF v = w THEN held[v] \ lost ELSE held[v]
    BY <1>0, <2>2 DEF DTypeOK, TypeOK
  <2>5. \A v \in Worker, s \in Run :
          exec'[v][s] # Idle => exec'[v][s] = exec[v][s] /\ s \in held'[v]
    BY <1>0, <2>3, <2>4, ExecutionTyped
  <2> QED
    BY <1>0, <1>1, <2>1, <2>3, <2>5, StoreStep DEF TablesKept
<1>8. ASSUME NEW batch \in SUBSET Task, TasksCleanedUp(batch) PROVE StepsInv'
  <2>1. OtherOperation /\ held' = held /\ UNCHANGED <<exec, ran, slept>>
    BY <1>8 DEF TasksCleanedUp, CleanupTasks, OtherOperation, ClientStep, ClientTaskStep
  <2>2. saved' = [t \in Task |-> IF t \in batch THEN Blank ELSE saved[t]]
    BY <1>8 DEF TasksCleanedUp
  <2>3. Blank \in [Key -> Recorded \cup {None}]
    BY DEF Blank
  <2>4. /\ saved' \in [Task -> [Key -> Recorded \cup {None}]]
        /\ \A t \in Task : saved'[t] \in {saved[t], Blank}
    BY <1>0, <2>2, <2>3
  <2> QED
    BY <1>0, <1>1, <2>1, <2>4, StoreStep DEF TablesKept
<1>9. CASE Elsewhere
  <2>1. OtherOperation /\ UNCHANGED dvars
    BY <1>9 DEF Elsewhere, OtherOperation, ClientStep, ClientTaskStep
  <2>2. \A v \in Worker : held[v] \subseteq held'[v]
    <3>1. ASSUME NEW w \in Worker, NEW batch \in SUBSET Run, ClaimTask(w, batch)
          PROVE  \A v \in Worker : held[v] \subseteq held'[v]
      <4>1. held' = [held EXCEPT ![w] = @ \cup batch] /\ held \in [Worker -> SUBSET Run]
        BY <1>0, <3>1 DEF ClaimTask, DTypeOK, TypeOK
      <4> QED
        BY <4>1
    <3>2. ASSUME NEW u \in Upkeeper, UpkeepStep(u) PROVE held' = held
      BY <3>2 DEF UpkeepStep, PickExpired, UpkeepFails, FailPicked, UpkeepAborts,
                  CancelAged, ReadAged, CancelRead
    <3>3. ASSUME TimePasses PROVE held' = held
      BY <3>3 DEF TimePasses, RunBecomesDue, ClaimLapses
    <3> QED
      BY <1>9, <3>1, <3>2, <3>3
      DEF Elsewhere, SpawnTask, CancelTask, EmitEvent, CleanupEvents
  <2> QED
    BY <1>0, <1>1, <2>1, <2>2, StoreStep DEF TablesKept, dvars
<1>10. CASE UNCHANGED <<vars, dvars>>
  BY <1>0, <1>10, StoreStep DEF vars, dvars, StepsInv
<1>11. ASSUME NEW w \in Worker, NEW r \in Run, Executing(w, r) PROVE StepsInv'
  <2>1. CASE SleepScheduled(w, r) \/ EventAwaited(w, r) \/ TaskCompleted(w, r)
             \/ \E new \in Run, delayed, tooOld \in BOOLEAN : TaskFailed(w, r, new, delayed, tooOld)
    BY <1>3, <1>4, <1>5, <1>6, <2>1
  <2>2. CASE ~(SleepScheduled(w, r) \/ EventAwaited(w, r) \/ TaskCompleted(w, r)
               \/ \E new \in Run, delayed, tooOld \in BOOLEAN : TaskFailed(w, r, new, delayed, tooOld))
    <3>1. UNCHANGED vars
      BY <1>11, <2>2 DEF Executing, ExecuteTask, LoadCheckpoints, StepCached, StepExecuted,
                         StepStored, SetCheckpoint, SleepPassed, SleepNotFound, SleepRecorded
    <3> QED
      BY <1>2, <1>11, <2>2, <3>1, ExecutingKeepsSteps
  <2> QED
    BY <2>1, <2>2
<1> QED
  BY <1>7, <1>8, <1>9, <1>10, <1>11 DEF DNext

(* The tables, the executions and their histories keep their types, and a  *)
(* worker has an execution under way only of a run it was given.           *)
THEOREM DurableTypes == DSpec => []DTypeOK
<1>1. StepsInv => DTypeOK
  BY DEF StepsInv
<1> QED
  BY <1>1, StepsInvInit, StepsInvStep, PTL DEF DSpec

(* A task that is completed has executed every one of its steps, however   *)
(* often it was interrupted, whoever executed it and whatever was late: as *)
(* long as the names of the program are apart, no call takes the           *)
(* checkpoint of another for its own (context.rs:138, models.rs:343).      *)
THEOREM EveryStepRanHolds ==
  ASSUME NamesApart
  PROVE  DSpec => []EveryStepRan
<1>1. StepsInv => EveryStepRan
  BY DEF StepsInv
<1> QED
  BY <1>1, StepsInvInit, StepsInvStep, PTL DEF DSpec

----------------------------------------------------------------------------
(* While deadlines are met, the cache of an execution is what the table    *)
(* says, and what it is about to write is not there yet                    *)

Fresh(w, r) ==
  exec[w][r] # Idle =>
    /\ exec[w][r].phase # "suspend" =>
         \A k \in Key : exec[w][r].loaded \/ exec[w][r].cache[k] # None
           => exec[w][r].cache[k] = saved[TaskOf(r)][k]
    /\ exec[w][r].phase \in {"ran", "drowsy"} => saved[TaskOf(r)][Here(w, r)] = None

FreshInv == \A w \in Worker, r \in Run : Fresh(w, r)

DurableInv == DTypeOK /\ PromptInv /\ FreshInv

(* A step of the one execution of a task touches no other.                 *)
LEMMA FreshMove ==
  ASSUME DurableInv, Unmoved, NEW w \in Worker, NEW r \in Run, r \in held[w],
         NEW x \in Execution, Continues(w, r, x),
         \A t \in Task : t # TaskOf(r) => saved'[t] = saved[t],
         x.phase # "suspend" =>
           \A k \in Key : x.loaded \/ x.cache[k] # None => x.cache[k] = saved'[TaskOf(r)][k],
         x.phase \in {"ran", "drowsy"} => saved'[TaskOf(r)][KeyOf(x.at)] = None
  PROVE  FreshInv'
<1> SUFFICES ASSUME NEW v \in Worker, NEW s \in Run PROVE Fresh(v, s)'
  BY DEF FreshInv
<1>1. /\ exec'[v][s] = IF v = w /\ s = r THEN x ELSE exec[v][s]
      /\ \A u \in Run : TaskOf(u)' = TaskOf(u)
  BY ContinuesTyped DEF DurableInv, Unmoved, TaskOf
<1>2. CASE v = w /\ s = r
  BY <1>1, <1>2 DEF Fresh, Here
<1>3. CASE ~(v = w /\ s = r)
  <2>1. exec'[v][s] = exec[v][s]
    BY <1>1, <1>3
  <2>2. ASSUME exec[v][s] # Idle PROVE saved'[TaskOf(s)] = saved[TaskOf(s)]
    <3>1. s \in held[v] /\ TaskOf(s) \in Task
      BY <2>2, ExecutionTyped DEF DurableInv
    <3>2. TaskOf(s) # TaskOf(r)
      BY <1>3, <3>1, PromptInvSuffices DEF DurableInv, ExclusiveExecution, TaskOf
    <3> QED
      BY <3>1, <3>2
  <2> QED
    BY <1>1, <2>1, <2>2 DEF Fresh, FreshInv, DurableInv, Here
<1> QED
  BY <1>2, <1>3

(* Nor does a step that ends executions, or one of somebody else.          *)
LEMMA FreshEnd ==
  ASSUME DurableInv,
         \A s \in Run : runs[s].task # None => runs'[s].task = runs[s].task,
         \A v \in Worker, s \in Run : exec'[v][s] # Idle => exec'[v][s] = exec[v][s],
         \A v \in Worker, s \in Run : exec[v][s] # Idle => saved'[TaskOf(s)] = saved[TaskOf(s)]
  PROVE  FreshInv'
<1> SUFFICES ASSUME NEW v \in Worker, NEW s \in Run, exec'[v][s] # Idle PROVE Fresh(v, s)'
  BY DEF FreshInv, Fresh, Idle
<1>1. exec'[v][s] = exec[v][s] /\ exec[v][s] # Idle
  OBVIOUS
<1>2. TaskOf(s)' = TaskOf(s) /\ saved'[TaskOf(s)] = saved[TaskOf(s)]
  BY <1>1, ExecutionTyped, NoneAssumption DEF TaskOf, DurableInv
<1> QED
  BY <1>1, <1>2 DEF Fresh, FreshInv, DurableInv, Here

LEMMA FreshNextCall ==
  ASSUME DurableInv, Unmoved, saved' = saved,
         NEW w \in Worker, NEW r \in Run, NEW kind, Calling(w, r, kind, "call"),
         Continues(w, r, [exec[w][r] EXCEPT !.at = @ + 1])
  PROVE  FreshInv'
<1> DEFINE x == [exec[w][r] EXCEPT !.at = exec[w][r].at + 1]
<1>1. /\ exec[w][r] \in Execution /\ r \in held[w]
      /\ exec[w][r].at + 1 \in 1 .. Length + 1
      /\ exec[w][r] # Idle /\ exec[w][r].phase = "call" /\ Fresh(w, r)
  BY AtCall DEF DurableInv, FreshInv, Calling
<1>2. /\ x \in Execution /\ x.phase = "call"
      /\ x.cache = exec[w][r].cache /\ x.loaded = exec[w][r].loaded
  BY <1>1 DEF Execution
<1>3. Continues(w, r, x)
  OBVIOUS
<1> HIDE DEF x
<1> QED
  BY <1>1, <1>2, <1>3, FreshMove DEF Fresh

(* What is recorded stays recorded until the task is deleted. *)
SavedKept ==
  \A t \in Task, k \in Key :
    saved[t][k] # None => saved'[t][k] = saved[t][k] \/ tasks'[t].state = "deleted"

(* What is not found is not there: no worker is written in Python, or none *)
(* of them meets a failed load.                                            *)
ReadsBack == Python = {} \/ ~LoadFails

LEMMA ReadableBack ==
  ASSUME ReadsBack, NEW w \in Worker, NEW r \in Run, Fresh(w, r), NotFound(w, r),
         exec[w][r] # Idle, exec[w][r].phase = "call", Here(w, r) \in Key
  PROVE  saved[TaskOf(r)][Here(w, r)] = None
<1>1. Answered(w, r) /\ Lookup(w, r) = None
  BY DEF ReadsBack, NotFound
<1>2. CASE w \in Asyncio
  BY <1>1, <1>2 DEF Lookup, AskedTable
<1>3. CASE w \notin Asyncio
  BY <1>1, <1>3 DEF Lookup, AskedTable, Answered, Fresh
<1> QED
  BY <1>2, <1>3

LEMMA ExecutingKeepsFresh ==
  ASSUME DurableInv, ReadsBack, NEW w \in Worker, NEW r \in Run, Executing(w, r), Unmoved,
         ~SleepScheduled(w, r), ~TaskCompleted(w, r), ~EventAwaited(w, r),
         ~\E new \in Run, delayed, tooOld \in BOOLEAN : TaskFailed(w, r, new, delayed, tooOld)
  PROVE  FreshInv' /\ SavedKept
<1> DEFINE t == TaskOf(r)
<1>0. /\ DTypeOK /\ Fresh(w, r)
      /\ saved \in [Task -> [Key -> Recorded \cup {None}]]
  BY DEF DTypeOK, DurableInv, FreshInv
<1>1. CASE ExecuteTask(w, r)
  <2>1. /\ NewContext \in Execution /\ NewContext.phase = "call"
        /\ ~NewContext.loaded /\ \A k \in Key : NewContext.cache[k] = None
    BY LengthAssumption DEF NewContext, Execution, Blank
  <2> QED
    BY <1>1, <2>1, FreshMove DEF ExecuteTask, SavedKept
<1>2. CASE LoadCheckpoints(w, r)
  <2> DEFINE found == saved[t]
             added == [k \in Key |-> IF found[k] # None THEN found[k] ELSE exec[w][r].cache[k]]
             x == [exec[w][r] EXCEPT !.loaded = TRUE, !.cache = added]
  <2>1. PICK kind : Calling(w, r, kind, "call")
    BY <1>2 DEF LoadCheckpoints, LooksInCache
  <2>2. /\ exec[w][r] \in Execution /\ r \in held[w] /\ t \in Task
        /\ exec[w][r].phase = "call" /\ exec[w][r] # Idle
    BY <1>0, <2>1, AtCall DEF Calling
  <2>3. \A k \in Key : exec[w][r].cache[k] # None => exec[w][r].cache[k] = found[k]
    BY <1>0, <2>2 DEF Fresh
  <2>4. \A k \in Key : added[k] = found[k]
    BY <2>3
  <2>5. added = found
    <3>1. added = [k \in Key |-> found[k]]
      BY <2>4
    <3>2. found = [k \in Key |-> found[k]]
      BY <1>0, <2>2
    <3> QED
      BY <3>1, <3>2
  <2>6. x \in Execution /\ x.phase = "call" /\ x.loaded /\ x.cache = found
    <3>1. found \in [Key -> Recorded \cup {None}]
      BY <1>0, <2>2
    <3> HIDE DEF added
    <3> QED
      BY <2>2, <2>5, <3>1 DEF Execution
  <2>7. Continues(w, r, x) /\ saved' = saved
    BY <1>2 DEF LoadCheckpoints
  <2> HIDE DEF x, added
  <2> QED
    BY <2>2, <2>6, <2>7, FreshMove DEF SavedKept
<1>3. CASE StepCached(w, r)
  BY <1>3, FreshNextCall DEF StepCached, SavedKept
<1>4. ASSUME NEW v \in Value, StepExecuted(w, r, v) PROVE FreshInv' /\ SavedKept
  <2> DEFINE x == [exec[w][r] EXCEPT !.phase = "ran", !.result = v]
  <2>1. /\ Calling(w, r, "step", "call") /\ NotFound(w, r)
        /\ Continues(w, r, x) /\ saved' = saved
    BY <1>4 DEF StepExecuted
  <2>2. /\ exec[w][r] \in Execution /\ r \in held[w] /\ exec[w][r] # Idle
        /\ exec[w][r].phase = "call" /\ Here(w, r) \in Key
    BY <1>0, <2>1, AtCall DEF Calling
  <2>3. saved[t][KeyOf(exec[w][r].at)] = None
    BY <1>0, <2>1, <2>2, ReadableBack DEF Here
  <2>4. /\ x \in Execution /\ x.phase = "ran" /\ x.loaded = exec[w][r].loaded
        /\ x.cache = exec[w][r].cache /\ x.at = exec[w][r].at
    BY <2>2 DEF Execution
  <2> HIDE DEF x
  <2> QED
    BY <1>0, <2>1, <2>2, <2>3, <2>4, FreshMove DEF Fresh, SavedKept
<1>5. CASE StepStored(w, r)
  <2> DEFINE result == Stored(w, exec[w][r].result)
             x == [exec[w][r] EXCEPT !.phase = "call", !.at = exec[w][r].at + 1, !.result = None,
                                     !.cache[Here(w, r)] = result]
  <2>1. Calling(w, r, "step", "ran")
    BY <1>5 DEF StepStored, SetCheckpoint, Cached
  <2>2. /\ exec[w][r] \in Execution /\ r \in held[w] /\ t \in Task
        /\ exec[w][r] # Idle /\ exec[w][r].phase = "ran"
        /\ exec[w][r].at + 1 \in 1 .. Length + 1 /\ Here(w, r) \in Key
    BY <1>0, <2>1, AtCall DEF Calling
  <2>3. result \in Recorded \cup {None} /\ exec[w][r].cache \in [Key -> Recorded \cup {None}]
    BY <2>2 DEF Execution, Recorded, Stored
  <2>4. /\ \A k \in Key : exec[w][r].loaded \/ exec[w][r].cache[k] # None
                            => exec[w][r].cache[k] = saved[t][k]
        /\ saved[t][Here(w, r)] = None
    BY <1>0, <2>2 DEF Fresh
  <2>5. /\ x \in Execution /\ x.phase = "call" /\ x.loaded = exec[w][r].loaded
        /\ x.cache = [exec[w][r].cache EXCEPT ![Here(w, r)] = result]
    BY <2>2, <2>3 DEF Execution
  <2>6. saved' = [saved EXCEPT ![t][Here(w, r)] = result] /\ Continues(w, r, x)
    BY <1>5 DEF StepStored, SetCheckpoint, Cached
  <2> HIDE DEF x, result
  <2>7. /\ saved'[t] = [saved[t] EXCEPT ![Here(w, r)] = result]
        /\ \A u \in Task : u # t => saved'[u] = saved[u]
    BY <1>0, <2>2, <2>6
  <2>8. SavedKept
    BY <1>0, <2>2, <2>4, <2>7 DEF SavedKept
  <2>9. ASSUME NEW k \in Key, x.loaded \/ x.cache[k] # None
        PROVE  x.cache[k] = saved'[t][k]
    BY <1>0, <2>2, <2>3, <2>4, <2>5, <2>7, <2>9
  <2> QED
    BY <2>2, <2>5, <2>6, <2>7, <2>8, <2>9, FreshMove
<1>6. CASE SleepPassed(w, r)
  BY <1>6, FreshNextCall DEF SleepPassed, SavedKept
<1>7. CASE SleepNotFound(w, r)
  <2> DEFINE x == [exec[w][r] EXCEPT !.phase = "drowsy"]
  <2>1. /\ Calling(w, r, "sleep", "call") /\ saved[t][Here(w, r)] = None
        /\ Continues(w, r, x) /\ saved' = saved
    <3>1. /\ Calling(w, r, "sleep", "call") /\ SleepMissing(w, r)
          /\ Continues(w, r, x) /\ saved' = saved
      BY <1>7 DEF SleepNotFound
    <3>2. exec[w][r] # Idle /\ exec[w][r].phase = "call" /\ Here(w, r) \in Key
      BY <1>0, <3>1, AtCall DEF Calling
    <3> QED
      BY <1>0, <3>1, <3>2, ReadableBack DEF SleepMissing
  <2>2. /\ exec[w][r] \in Execution /\ r \in held[w] /\ exec[w][r] # Idle
        /\ exec[w][r].phase = "call"
    BY <1>0, <2>1, AtCall DEF Calling
  <2>3. /\ x \in Execution /\ x.at = exec[w][r].at /\ x.loaded = exec[w][r].loaded
        /\ x.phase = "drowsy" /\ x.cache = exec[w][r].cache
    BY <2>2 DEF Execution
  <2> HIDE DEF x
  <2> QED
    BY <1>0, <2>1, <2>2, <2>3, FreshMove DEF Fresh, Here, SavedKept
<1>8. CASE SleepRecorded(w, r)
  <2> DEFINE x == [exec[w][r] EXCEPT !.phase = "suspend"]
  <2>1. Calling(w, r, "sleep", "drowsy")
    BY <1>8 DEF SleepRecorded, SetCheckpoint
  <2>2. /\ exec[w][r] \in Execution /\ r \in held[w] /\ exec[w][r] # Idle /\ t \in Task
        /\ exec[w][r].phase = "drowsy" /\ Here(w, r) \in Key
    BY <1>0, <2>1, AtCall DEF Calling
  <2>3. /\ x \in Execution /\ x.loaded = exec[w][r].loaded
        /\ x.phase = "suspend" /\ x.cache = exec[w][r].cache
    BY <2>2 DEF Execution
  <2>4. saved' = [saved EXCEPT ![t][Here(w, r)] = Slept] /\ Continues(w, r, x)
    BY <1>8 DEF SleepRecorded, SetCheckpoint
  <2>5. \A u \in Task : u # t => saved'[u] = saved[u]
    BY <1>0, <2>2, <2>4
  <2>6. SavedKept
    BY <1>0, <2>2, <2>4 DEF SavedKept, Fresh
  <2> HIDE DEF x
  <2> QED
    BY <1>0, <2>2, <2>3, <2>4, <2>5, <2>6, FreshMove DEF Fresh
<1> QED
  BY <1>1, <1>2, <1>3, <1>4, <1>5, <1>6, <1>7, <1>8 DEF Executing

LEMMA DurableStep ==
  ASSUME DurableInv, Deadlines, ReadsBack, DTypeOK', [DNext]_<<vars, dvars>>
  PROVE  DurableInv' /\ SavedKept
<1>0. /\ DTypeOK /\ [Next]_vars /\ PromptInv'
      /\ saved \in [Task -> [Key -> Recorded \cup {None}]]
      /\ exec \in [Worker -> [Run -> Execution \cup {Idle}]]
  BY StepRefines, PromptStep DEF DurableInv, DTypeOK
<1>1. /\ OtherOperation => TablesKept
      /\ UNCHANGED vars => Unmoved
  BY <1>0, OtherKeepsTables DEF DTypeOK, vars, Unmoved
<1>2. SUFFICES FreshInv' /\ SavedKept
  BY <1>0 DEF DurableInv
<1>3. ASSUME NEW w \in Worker, NEW r \in Run, Ends(w, r), saved' = saved,
             \A s \in Run : runs[s].task # None => runs'[s].task = runs[s].task
      PROVE  FreshInv' /\ SavedKept
  <2>1. \A v \in Worker, s \in Run : exec'[v][s] # Idle => exec'[v][s] = exec[v][s]
    BY <1>0, <1>3, ContinuesTyped DEF Ends, Continues
  <2> QED
    BY <1>3, <2>1, FreshEnd DEF SavedKept
<1>4. ASSUME NEW w \in Worker, NEW r \in Run, SleepScheduled(w, r)
      PROVE  FreshInv' /\ SavedKept
  BY <1>1, <1>3, <1>4 DEF SleepScheduled, OtherOperation, TablesKept
<1>5. ASSUME NEW w \in Worker, NEW r \in Run, EventAwaited(w, r)
      PROVE  FreshInv' /\ SavedKept
  <2> DEFINE e == Program[exec[w][r].at].name
  <2>1. /\ Calling(w, r, "await", "call") /\ saved' = saved
        /\ exec[w][r].at \in Position /\ Program[exec[w][r].at].kind = "await"
    BY <1>5 DEF EventAwaited, EventRead, EventWaited, Calling
  <2>2. e \in Event
    BY <2>1, ProgramAssumption
  <2>3. CASE Ends(w, r)
    <3>1. UNCHANGED vars \/ OtherOperation
      BY <1>5, <2>2 DEF EventAwaited, EventRead, EventWaited, OtherOperation
    <3> QED
      BY <1>1, <1>3, <2>1, <2>3, <3>1 DEF TablesKept, Unmoved
  <2>4. CASE ~Ends(w, r)
    <3>1. /\ Continues(w, r, [exec[w][r] EXCEPT !.at = @ + 1])
          /\ UNCHANGED vars \/ (AwaitEvent(w, r, e) /\ payload[e] = "emitted")
      BY <1>5, <2>4 DEF EventAwaited, EventRead, EventWaited
    <3>2. Unmoved
      BY <1>0, <1>1, <3>1 DEF AwaitEvent, Unmoved
    <3> QED
      BY <2>1, <3>1, <3>2, FreshNextCall DEF SavedKept
  <2> QED
    BY <2>3, <2>4
<1>6. ASSUME NEW w \in Worker, NEW r \in Run, TaskCompleted(w, r)
      PROVE  FreshInv' /\ SavedKept
  <2>1. CompleteRun(w, r) /\ Ends(w, r) /\ saved' = saved
    BY <1>6 DEF TaskCompleted
  <2>2. \A s \in Run : runs'[s].task = runs[s].task
    <3>1. runs \in [Run -> RunRow] /\ Completed(runs[r]).task = runs[r].task
      BY <1>0, CompletedRow DEF DTypeOK, TypeOK
    <3>2. runs' = runs \/ runs' = [runs EXCEPT ![r] = Completed(runs[r])]
      BY <2>1 DEF CompleteRun
    <3> QED
      BY <3>1, <3>2
  <2> QED
    BY <1>3, <2>1, <2>2
<1>7. ASSUME NEW w \in Worker, NEW r \in Run, NEW new \in Run, NEW delayed \in BOOLEAN,
             NEW tooOld \in BOOLEAN, TaskFailed(w, r, new, delayed, tooOld)
      PROVE  FreshInv' /\ SavedKept
  BY <1>1, <1>3, <1>7 DEF TaskFailed, OtherOperation, TablesKept
<1>8. ASSUME NEW w \in Worker, NEW lost \in SUBSET Run, ExecutionsLost(w, lost) PROVE FreshInv' /\ SavedKept
  <2>1. OtherOperation /\ saved' = saved /\ exec' = [exec EXCEPT ![w] = [r \in Run |-> IF r \in lost THEN Idle ELSE @[r]]]
    BY <1>8 DEF ExecutionsLost, OtherOperation
  <2>2. \A v \in Worker, s \in Run : exec'[v][s] # Idle => exec'[v][s] = exec[v][s]
    BY <1>0, <2>1
  <2> QED
    BY <1>1, <2>1, <2>2, FreshEnd DEF TablesKept, SavedKept
<1>9. ASSUME NEW batch \in SUBSET Task, TasksCleanedUp(batch)
      PROVE  FreshInv' /\ SavedKept
  <2>1. /\ OtherOperation /\ exec' = exec
        /\ saved' = [t \in Task |-> IF t \in batch THEN Blank ELSE saved[t]]
        /\ \A t \in batch : tasks[t].state \in Settled /\ tasks'[t].state = "deleted"
    <3>1. CleanupTasks(batch) /\ tasks \in [Task -> TaskRow]
      BY <1>0, <1>9 DEF TasksCleanedUp, DTypeOK, TypeOK
    <3>2. \A t \in batch : tasks'[t].state = "deleted"
      BY <3>1 DEF CleanupTasks, TaskRow
    <3> QED
      BY <1>9, <3>1, <3>2 DEF TasksCleanedUp, CleanupTasks, OtherOperation, ClientStep, ClientTaskStep
  <2>2. ASSUME NEW v \in Worker, NEW s \in Run, exec[v][s] # Idle
        PROVE  saved'[TaskOf(s)] = saved[TaskOf(s)]
    <3>1. s \in held[v] /\ TaskOf(s) \in Task
      BY <1>0, <2>2, ExecutionTyped
    <3>2. tasks[TaskOf(s)].state = "running"
      BY <3>1 DEF DurableInv, PromptInv, HeldAgrees, RowAgrees, TaskOf
    <3> QED
      BY <2>1, <3>1, <3>2 DEF Settled
  <2>3. SavedKept
    BY <2>1 DEF SavedKept
  <2> QED
    BY <1>1, <2>1, <2>2, <2>3, FreshEnd DEF TablesKept
<1>10. CASE Elsewhere
  <2>1. OtherOperation /\ UNCHANGED dvars
    BY <1>10 DEF Elsewhere, OtherOperation, ClientStep, ClientTaskStep
  <2> QED
    BY <1>1, <2>1, FreshEnd DEF TablesKept, dvars, SavedKept
<1>11. CASE UNCHANGED <<vars, dvars>>
  BY <1>11, FreshEnd DEF vars, dvars, SavedKept
<1>12. ASSUME NEW w \in Worker, NEW r \in Run, Executing(w, r) PROVE FreshInv' /\ SavedKept
  <2>1. CASE SleepScheduled(w, r) \/ EventAwaited(w, r) \/ TaskCompleted(w, r)
             \/ \E new \in Run, delayed, tooOld \in BOOLEAN : TaskFailed(w, r, new, delayed, tooOld)
    BY <1>4, <1>5, <1>6, <1>7, <2>1
  <2>2. CASE ~(SleepScheduled(w, r) \/ EventAwaited(w, r) \/ TaskCompleted(w, r)
               \/ \E new \in Run, delayed, tooOld \in BOOLEAN : TaskFailed(w, r, new, delayed, tooOld))
    <3>1. UNCHANGED vars
      BY <1>12, <2>2 DEF Executing, ExecuteTask, LoadCheckpoints, StepCached, StepExecuted,
                         StepStored, SetCheckpoint, SleepPassed, SleepNotFound, SleepRecorded
    <3> QED
      BY <1>1, <1>12, <2>2, <3>1, ExecutingKeepsFresh
  <2> QED
    BY <2>1, <2>2
<1> QED
  BY <1>8, <1>9, <1>10, <1>11, <1>12 DEF DNext

(* Only StepExecuted executes the function of a step. *)
LEMMA StepsExecuted ==
  ASSUME DTypeOK, [DNext]_<<vars, dvars>>, NEW w \in Worker, NEW r \in Run,
         Calling(w, r, "step", "call"), Calling(w, r, "step", "ran")'
  PROVE  \E v \in Value : StepExecuted(w, r, v)
<1>0. /\ exec \in [Worker -> [Run -> Execution \cup {Idle}]]
      /\ exec[w][r] # Idle /\ exec[w][r].phase = "call" /\ exec[w][r] \in Execution
      /\ Program[exec[w][r].at].kind = "step"
      /\ exec'[w][r] # Idle /\ exec'[w][r].phase = "ran"
  BY AtCall DEF DTypeOK, Calling
<1>1. PICK v \in Worker, s \in Run : Executing(v, s)
  <2>1. ASSUME exec' = exec PROVE FALSE
    BY <1>0, <2>1
  <2>2. ASSUME NEW v \in Worker, NEW lost \in SUBSET Run, ExecutionsLost(v, lost) PROVE FALSE
    BY <1>0, <2>2 DEF ExecutionsLost
  <2> QED
    BY <2>1, <2>2 DEF DNext, TasksCleanedUp, Elsewhere, dvars
<1>2. ASSUME NEW x \in Execution \cup {Idle}, Continues(v, s, x)
      PROVE  v = w /\ s = r /\ exec'[w][r] = x
  BY <1>0, <1>2, ContinuesTyped
<1>3. ~Ends(v, s)
  BY <1>0, <1>2 DEF Ends, Continues
<1>4. ~ExecuteTask(v, s)
  <2>1. NewContext \in Execution /\ NewContext.phase = "call"
    BY LengthAssumption DEF NewContext, Execution, Blank
  <2> QED
    BY <1>0, <1>2, <2>1 DEF ExecuteTask
<1>5. ASSUME NEW kind, NEW phase, Calling(v, s, kind, phase), NEW x \in Execution,
             Continues(v, s, x)
      PROVE  kind = "step" /\ phase = "call" /\ v = w /\ s = r /\ x.phase = "ran"
  BY <1>0, <1>2, <1>5 DEF Calling
<1>6. ASSUME NEW kind, Calling(v, s, kind, "call"),
             Continues(v, s, [exec[v][s] EXCEPT !.at = @ + 1])
      PROVE  FALSE
  <2> DEFINE x == [exec[v][s] EXCEPT !.at = exec[v][s].at + 1]
  <2>1. exec[v][s] \in Execution /\ exec[v][s].at + 1 \in 1 .. Length + 1
    BY <1>6, AtCall
  <2>2. x \in Execution /\ x.phase = exec[v][s].phase
    BY <2>1 DEF Execution
  <2> HIDE DEF x
  <2>3. Continues(v, s, x)
    BY <1>6 DEF x
  <2> QED
    BY <1>5, <1>6, <2>2, <2>3 DEF Calling
<1>7. ~LoadCheckpoints(v, s)
  <2> SUFFICES ASSUME LoadCheckpoints(v, s) PROVE FALSE
    OBVIOUS
  <2> DEFINE found == saved[TaskOf(s)]
             added == [k \in Key |-> IF found[k] # None THEN found[k] ELSE exec[v][s].cache[k]]
             x == [exec[v][s] EXCEPT !.loaded = TRUE, !.cache = added]
  <2>1. PICK kind : Calling(v, s, kind, "call")
    BY DEF LoadCheckpoints, LooksInCache
  <2>2. exec[v][s] \in Execution /\ TaskOf(s) \in Task
    BY <2>1, AtCall
  <2>3. added \in [Key -> Recorded \cup {None}]
    BY <2>2 DEF Execution, DTypeOK
  <2>4. x \in Execution /\ x.phase = exec[v][s].phase
    <3> HIDE DEF added
    <3> QED
      BY <2>2, <2>3 DEF Execution
  <2>5. Continues(v, s, x)
    BY DEF LoadCheckpoints
  <2> HIDE DEF x, added
  <2> QED
    BY <1>5, <2>1, <2>4, <2>5 DEF Calling
<1>8. ~StepStored(v, s)
  <2> SUFFICES ASSUME StepStored(v, s) PROVE FALSE
    OBVIOUS
  <2> DEFINE result == Stored(v, exec[v][s].result)
             x == [exec[v][s] EXCEPT !.phase = "call", !.at = exec[v][s].at + 1, !.result = None,
                                     !.cache[Here(v, s)] = result]
  <2>1. Calling(v, s, "step", "ran") /\ Continues(v, s, x)
    BY DEF StepStored, SetCheckpoint, Cached
  <2>2. /\ exec[v][s] \in Execution /\ exec[v][s].at + 1 \in 1 .. Length + 1
        /\ result \in Recorded \cup {None}
    BY <2>1, AtCall DEF Execution, Recorded, Stored
  <2>3. x \in Execution
    BY <2>2 DEF Execution
  <2> HIDE DEF x
  <2> QED
    BY <1>5, <2>1, <2>3
<1>9. ~SleepNotFound(v, s) /\ ~SleepRecorded(v, s)
  <2>1. ASSUME NEW phase, NEW found \in {"drowsy", "suspend"}, Calling(v, s, "sleep", phase),
               Continues(v, s, [exec[v][s] EXCEPT !.phase = found])
        PROVE  FALSE
    <3> DEFINE x == [exec[v][s] EXCEPT !.phase = found]
    <3>1. exec[v][s] \in Execution
      BY <2>1, AtCall
    <3>2. x \in Execution
      BY <3>1 DEF Execution
    <3> HIDE DEF x
    <3>3. Continues(v, s, x)
      BY <2>1 DEF x
    <3> QED
      BY <1>5, <2>1, <3>2, <3>3
  <2> QED
    BY <2>1 DEF SleepNotFound, SleepRecorded, SetCheckpoint
<1>10. ~SleepScheduled(v, s) /\ ~TaskCompleted(v, s)
  BY <1>3 DEF SleepScheduled, TaskCompleted
<1>11. ~EventAwaited(v, s)
  BY <1>3, <1>6 DEF EventAwaited, EventRead, EventWaited
<1>12. ~StepCached(v, s) /\ ~SleepPassed(v, s)
  BY <1>6 DEF StepCached, SleepPassed
<1>13. ASSUME NEW new \in Run, NEW delayed \in BOOLEAN, NEW tooOld \in BOOLEAN
       PROVE  ~TaskFailed(v, s, new, delayed, tooOld)
  BY <1>3 DEF TaskFailed
<1>14. PICK value \in Value : StepExecuted(v, s, value)
  BY <1>1, <1>4, <1>7, <1>8, <1>9, <1>10, <1>11, <1>12, <1>13 DEF Executing
<1>15. v = w /\ s = r
  <2> DEFINE x == [exec[v][s] EXCEPT !.phase = "ran", !.result = value]
  <2>1. Calling(v, s, "step", "call") /\ Continues(v, s, x)
    BY <1>14 DEF StepExecuted
  <2>2. exec[v][s] \in Execution
    BY <2>1, AtCall
  <2>3. x \in Execution
    BY <2>2 DEF Execution
  <2> HIDE DEF x
  <2> QED
    BY <1>2, <2>1, <2>3
<1> QED
  BY <1>14, <1>15

(* What follows from the invariants, for a state and for a step.           *)
LEMMA DurableHolds ==
  ASSUME Deadlines, ReadsBack
  PROVE  DSpec => []CacheCurrent /\ CommittedStepNotRepeated /\ ResultsStable
<1> DEFINE Once == \A w \in Worker, r \in Run :
             Calling(w, r, "step", "call") /\ Calling(w, r, "step", "ran")'
               => saved[TaskOf(r)][Here(w, r)] = None
           Stable == \A t \in Task, k \in Key :
             saved[t][k] # None => saved'[t][k] = saved[t][k] \/ tasks'[t].state = "deleted"
<1>1. DInit => StepsInv /\ DurableInv
  <2>1. ASSUME DInit PROVE PromptInv /\ FreshInv
    BY <2>1, PromptInit DEF DInit, FreshInv, Fresh
  <2> QED
    BY <2>1, StepsInvInit DEF StepsInv, DurableInv
<1>2. StepsInv /\ DurableInv /\ [DNext]_<<vars, dvars>> => (StepsInv /\ DurableInv)'
  BY StepsInvStep, DurableStep DEF StepsInv
<1>3. DurableInv => CacheCurrent
  BY DEF DurableInv, FreshInv, Fresh, CacheCurrent
<1>4. StepsInv /\ DurableInv /\ [DNext]_<<vars, dvars>> => [Stable]_<<vars, dvars>>
  BY StepsInvStep, DurableStep DEF StepsInv, SavedKept
<1>5. DurableInv /\ [DNext]_<<vars, dvars>> => [Once]_<<vars, dvars>>
  <2> SUFFICES ASSUME DurableInv, [DNext]_<<vars, dvars>>, NEW w \in Worker, NEW r \in Run,
                      Calling(w, r, "step", "call"), Calling(w, r, "step", "ran")'
               PROVE  saved[TaskOf(r)][Here(w, r)] = None
    OBVIOUS
  <2>1. PICK v \in Value : StepExecuted(w, r, v)
    BY StepsExecuted DEF DurableInv
  <2>2. /\ NotFound(w, r) /\ exec[w][r] # Idle /\ exec[w][r].phase = "call"
        /\ Here(w, r) \in Key /\ Fresh(w, r)
    BY <2>1, AtCall DEF StepExecuted, Calling, DurableInv, FreshInv
  <2> QED
    BY <2>2, ReadableBack
<1> QED
  BY <1>1, <1>2, <1>3, <1>4, <1>5, PTL
  DEF DSpec, CommittedStepNotRepeated, ResultsStable

(* While deadlines are met and checkpoints can be read, the cache of an    *)
(* execution is what the table of checkpoints says, with no lock that      *)
(* would keep another attempt from writing to it (context.rs:122).         *)
THEOREM CacheCurrentHolds ==
  ASSUME Deadlines, ReadsBack
  PROVE  DSpec => []CacheCurrent
  BY DurableHolds, PTL

(* The function of a step whose checkpoint is committed is not executed    *)
(* again, by an attempt of a worker in Rust or in Python                   *)
(* (context.rs:189, context.py:119).                                       *)
THEOREM CommittedStepHolds ==
  ASSUME Deadlines, ReadsBack
  PROVE  DSpec => CommittedStepNotRepeated
  BY DurableHolds, PTL

(* The result of a step stays the same for every later attempt.            *)
THEOREM ResultsStableHolds ==
  ASSUME Deadlines, ReadsBack
  PROVE  DSpec => ResultsStable
  BY DurableHolds, PTL

----------------------------------------------------------------------------
(* While deadlines are met, what is behind an execution is recorded, and   *)
(* so is what its task has slept                                           *)

Behind(w, r) ==
  exec[w][r] # Idle =>
    /\ \A i \in Numbered : i < exec[w][r].at => saved[TaskOf(r)][KeyOf(i)] # None
    /\ exec[w][r].phase # "call" => exec[w][r].at \in Numbered
    /\ exec[w][r].phase = "ran" => exec[w][r].result # None
    /\ exec[w][r].phase = "suspend" => saved[TaskOf(r)][Here(w, r)] # None
    /\ exec[w][r].phase \in {"drowsy", "suspend"} => exec[w][r].at \notin slept[TaskOf(r)]

BehindInv == \A w \in Worker, r \in Run : Behind(w, r)

SleptSaved ==
  \A t \in Task : \A i \in slept[t] :
    i \in Numbered /\ (tasks[t].state = "deleted" \/ saved[t][KeyOf(i)] # None)

HasAll(t) == \A k \in Key : saved[t][k] # None

CompletedHasAll == \A t \in Task : tasks[t].state = "completed" => HasAll(t)

ProgressInv ==
  DurableInv /\ TasksOver /\ BehindInv /\ SleptSaved /\ CompletedHasAll

(* The checkpoints of a task that is executed are not removed. *)
LEMMA ExecutedKept ==
  ASSUME DurableInv', SavedKept, NEW w \in Worker, NEW r \in Run,
         exec'[w][r] # Idle, TaskOf(r)' = TaskOf(r)
  PROVE  /\ TaskOf(r) \in Task
         /\ \A k \in Key : saved[TaskOf(r)][k] # None => saved'[TaskOf(r)][k] # None
<1>1. r \in held'[w]
  BY DEF DurableInv, DTypeOK
<1>2. runs'[r].state = "running" /\ TaskOf(r)' \in Task
  BY <1>1, NoneAssumption DEF DurableInv, DTypeOK, PromptInv, HeldAgrees, TaskOf, TypeOK, RunRow
<1>3. tasks'[TaskOf(r)].state = "running"
  BY <1>2 DEF DurableInv, PromptInv, RowAgrees, TaskOf
<1> QED
  BY <1>2, <1>3 DEF SavedKept

(* An execution that is where it was. *)
LEMMA BehindKept ==
  ASSUME DurableInv, DurableInv', SavedKept, NEW w \in Worker, NEW r \in Run, Behind(w, r),
         exec'[w][r] = exec[w][r],
         exec[w][r] # Idle => slept'[TaskOf(r)] = slept[TaskOf(r)],
         runs[r].task # None => runs'[r].task = runs[r].task
  PROVE  Behind(w, r)'
<1> SUFFICES ASSUME exec[w][r] # Idle PROVE Behind(w, r)'
  BY DEF Behind, Idle
<1>1. TaskOf(r)' = TaskOf(r)
  BY ExecutionTyped, NoneAssumption DEF TaskOf, DurableInv
<1>2. \A k \in Key : saved[TaskOf(r)][k] # None => saved'[TaskOf(r)][k] # None
  BY <1>1, ExecutedKept
<1>3. \A i \in Numbered : KeyOf(i) \in Key
  BY StepsNumbered
<1> QED
  BY <1>1, <1>2, <1>3 DEF Behind, Here

(* A step of one execution that goes on. *)
LEMMA BehindMove ==
  ASSUME DurableInv, DurableInv', SavedKept, BehindInv, Unmoved, slept' = slept,
         NEW w \in Worker, NEW r \in Run, NEW x \in Execution, Continues(w, r, x),
         \A i \in Numbered : i < x.at => saved'[TaskOf(r)][KeyOf(i)] # None,
         x.phase # "call" => x.at \in Numbered,
         x.phase = "ran" => x.result # None,
         x.phase = "suspend" => saved'[TaskOf(r)][KeyOf(x.at)] # None,
         x.phase \in {"drowsy", "suspend"} => x.at \notin slept[TaskOf(r)]
  PROVE  BehindInv'
<1> SUFFICES ASSUME NEW v \in Worker, NEW s \in Run PROVE Behind(v, s)'
  BY DEF BehindInv
<1>1. /\ exec'[v][s] = IF v = w /\ s = r THEN x ELSE exec[v][s]
      /\ \A u \in Run : TaskOf(u)' = TaskOf(u) /\ runs'[u].task = runs[u].task
  BY ContinuesTyped DEF DurableInv, Unmoved, TaskOf
<1>2. CASE v = w /\ s = r
  BY <1>1, <1>2 DEF Behind, Here
<1>3. CASE ~(v = w /\ s = r)
  BY <1>1, <1>3, BehindKept DEF BehindInv
<1> QED
  BY <1>2, <1>3

(* A step that ends executions, or one of somebody else. *)
LEMMA BehindEnd ==
  ASSUME DurableInv, DurableInv', SavedKept, BehindInv,
         \A s \in Run : runs[s].task # None => runs'[s].task = runs[s].task,
         \A v \in Worker, s \in Run : exec'[v][s] # Idle =>
           exec'[v][s] = exec[v][s] /\ slept'[TaskOf(s)] = slept[TaskOf(s)]
  PROVE  BehindInv'
<1> SUFFICES ASSUME NEW v \in Worker, NEW s \in Run, exec'[v][s] # Idle PROVE Behind(v, s)'
  BY DEF BehindInv, Behind, Idle
<1> QED
  BY BehindKept DEF BehindInv

LEMMA BehindNextCall ==
  ASSUME DurableInv, DurableInv', SavedKept, BehindInv, Unmoved, slept' = slept, saved' = saved,
         NEW w \in Worker, NEW r \in Run, NEW kind, Calling(w, r, kind, "call"),
         Continues(w, r, [exec[w][r] EXCEPT !.at = @ + 1]),
         exec[w][r].at \in Numbered => saved[TaskOf(r)][Here(w, r)] # None
  PROVE  BehindInv'
<1> DEFINE x == [exec[w][r] EXCEPT !.at = exec[w][r].at + 1]
<1>1. /\ exec[w][r] \in Execution /\ exec[w][r].at \in Position
      /\ exec[w][r].at + 1 \in 1 .. Length + 1
      /\ exec[w][r] # Idle /\ exec[w][r].phase = "call" /\ Behind(w, r)
  BY AtCall DEF DurableInv, BehindInv, Calling
<1>2. x \in Execution /\ x.phase = "call" /\ x.at = exec[w][r].at + 1
  BY <1>1 DEF Execution
<1>3. Continues(w, r, x)
  OBVIOUS
<1>4. \A i \in Numbered : i < x.at => i < exec[w][r].at \/ i = exec[w][r].at
  BY <1>1, <1>2, LengthAssumption DEF Numbered, Position
<1>5. \A i \in Numbered : i < x.at => saved'[TaskOf(r)][KeyOf(i)] # None
  BY <1>1, <1>4 DEF Behind, Here
<1> HIDE DEF x
<1> QED
  BY <1>2, <1>3, <1>5, BehindMove

(* What is found is in the table. *)
LEMMA FoundThere ==
  ASSUME NEW w \in Worker, NEW r \in Run, Fresh(w, r), Lookup(w, r) # None,
         exec[w][r] # Idle, exec[w][r].phase = "call", Here(w, r) \in Key
  PROVE  saved[TaskOf(r)][Here(w, r)] # None
BY DEF Lookup, AskedTable, Fresh

LEMMA ExecutingKeepsBehind ==
  ASSUME ProgressInv, ReadsBack, DurableInv', SavedKept, slept' = slept, Unmoved,
         NEW w \in Worker, NEW r \in Run, Executing(w, r),
         ~SleepScheduled(w, r), ~TaskCompleted(w, r), ~EventAwaited(w, r),
         ~\E new \in Run, delayed, tooOld \in BOOLEAN : TaskFailed(w, r, new, delayed, tooOld)
  PROVE  BehindInv'
<1> DEFINE t == TaskOf(r)
           here == Here(w, r)
<1>0. /\ DTypeOK /\ DurableInv /\ BehindInv /\ Fresh(w, r) /\ Behind(w, r)
      /\ saved \in [Task -> [Key -> Recorded \cup {None}]]
  BY DEF DTypeOK, ProgressInv, DurableInv, FreshInv, BehindInv
<1>1. CASE ExecuteTask(w, r)
  <2>1. /\ NewContext \in Execution /\ NewContext.phase = "call"
        /\ \A i \in Numbered : ~(i < NewContext.at)
    BY LengthAssumption DEF NewContext, Execution, Blank, Numbered, Position
  <2> QED
    BY <1>0, <1>1, <2>1, BehindMove DEF ExecuteTask
<1>2. CASE LoadCheckpoints(w, r)
  <2> DEFINE found == saved[t]
             added == [k \in Key |-> IF found[k] # None THEN found[k] ELSE exec[w][r].cache[k]]
             x == [exec[w][r] EXCEPT !.loaded = TRUE, !.cache = added]
  <2>1. PICK kind : Calling(w, r, kind, "call")
    BY <1>2 DEF LoadCheckpoints, LooksInCache
  <2>2. /\ exec[w][r] \in Execution /\ r \in held[w] /\ t \in Task
        /\ exec[w][r].phase = "call" /\ exec[w][r] # Idle
    BY <1>0, <2>1, AtCall DEF Calling
  <2>3. added \in [Key -> Recorded \cup {None}]
    BY <1>0, <2>2 DEF Execution
  <2>4. x \in Execution /\ x.phase = "call" /\ x.at = exec[w][r].at
    <3> HIDE DEF added
    <3> QED
      BY <2>2, <2>3 DEF Execution
  <2>5. Continues(w, r, x) /\ saved' = saved
    BY <1>2 DEF LoadCheckpoints
  <2> HIDE DEF x, added
  <2> QED
    BY <1>0, <2>2, <2>4, <2>5, BehindMove DEF Behind
<1>3. CASE StepCached(w, r)
  <2>1. /\ Calling(w, r, "step", "call") /\ Lookup(w, r) # None /\ saved' = saved
        /\ Continues(w, r, [exec[w][r] EXCEPT !.at = @ + 1])
    BY <1>3 DEF StepCached
  <2>2. exec[w][r] # Idle /\ exec[w][r].phase = "call" /\ here \in Key
    BY <1>0, <2>1, AtCall DEF Calling
  <2>3. saved[t][here] # None
    BY <1>0, <2>1, <2>2, FoundThere
  <2> QED
    BY <1>0, <2>1, <2>3, BehindNextCall
<1>4. ASSUME NEW v \in Value, StepExecuted(w, r, v) PROVE BehindInv'
  <2> DEFINE x == [exec[w][r] EXCEPT !.phase = "ran", !.result = v]
  <2>1. Calling(w, r, "step", "call") /\ Continues(w, r, x) /\ saved' = saved
    BY <1>4 DEF StepExecuted
  <2>2. exec[w][r] \in Execution /\ exec[w][r] # Idle /\ exec[w][r].at \in Numbered
    BY <1>0, <2>1, AtCall DEF Calling
  <2>3. /\ x \in Execution /\ x.phase = "ran" /\ x.at = exec[w][r].at
        /\ x.result # None
    BY <2>2, ValueAssumption DEF Execution
  <2> HIDE DEF x
  <2> QED
    BY <1>0, <2>1, <2>2, <2>3, BehindMove DEF Behind
<1>5. CASE StepStored(w, r)
  <2> DEFINE result == Stored(w, exec[w][r].result)
             x == [exec[w][r] EXCEPT !.phase = "call", !.at = exec[w][r].at + 1, !.result = None,
                                     !.cache[Here(w, r)] = result]
  <2>1. Calling(w, r, "step", "ran")
    BY <1>5 DEF StepStored, SetCheckpoint, Cached
  <2>2. /\ exec[w][r] \in Execution /\ r \in held[w] /\ t \in Task
        /\ exec[w][r] # Idle /\ exec[w][r].phase = "ran" /\ exec[w][r].at \in Position
        /\ exec[w][r].at + 1 \in 1 .. Length + 1 /\ here \in Key
    BY <1>0, <2>1, AtCall DEF Calling
  <2>3. /\ result \in Recorded \cup {None} /\ exec[w][r].cache \in [Key -> Recorded \cup {None}]
        /\ result # None
    BY <1>0, <2>2, ValueAssumption DEF Execution, Recorded, Stored, Behind
  <2>4. x \in Execution /\ x.phase = "call" /\ x.at = exec[w][r].at + 1
    BY <2>2, <2>3 DEF Execution
  <2>5. saved' = [saved EXCEPT ![t][here] = result] /\ Continues(w, r, x)
    BY <1>5 DEF StepStored, SetCheckpoint, Cached
  <2> HIDE DEF x, result
  <2>6. saved'[t] = [saved[t] EXCEPT ![here] = result]
    BY <1>0, <2>2, <2>5
  <2>7. \A i \in Numbered : i < x.at => saved'[t][KeyOf(i)] # None
    <3>1. \A i \in Numbered : i < x.at => i < exec[w][r].at \/ i = exec[w][r].at
      BY <2>2, <2>4, LengthAssumption DEF Numbered, Position
    <3>2. \A i \in Numbered : KeyOf(i) \in Key
      BY StepsNumbered
    <3> QED
      BY <1>0, <2>2, <2>3, <2>6, <3>1, <3>2 DEF Behind, Here
  <2> QED
    BY <1>0, <2>4, <2>5, <2>7, BehindMove
<1>6. CASE SleepPassed(w, r)
  <2>1. /\ Calling(w, r, "sleep", "call") /\ SleepFound(w, r) /\ saved' = saved
        /\ Continues(w, r, [exec[w][r] EXCEPT !.at = @ + 1])
    BY <1>6 DEF SleepPassed
  <2>2. exec[w][r] # Idle /\ exec[w][r].phase = "call" /\ here \in Key
    BY <1>0, <2>1, AtCall DEF Calling
  <2>3. saved[t][here] # None
    BY <1>0, <2>1, <2>2, FoundThere DEF SleepFound
  <2> QED
    BY <1>0, <2>1, <2>3, BehindNextCall
<1>7. CASE SleepNotFound(w, r)
  <2> DEFINE x == [exec[w][r] EXCEPT !.phase = "drowsy"]
  <2>1. /\ Calling(w, r, "sleep", "call") /\ SleepMissing(w, r)
        /\ Continues(w, r, x) /\ saved' = saved
    BY <1>7 DEF SleepNotFound
  <2>2. /\ exec[w][r] \in Execution /\ r \in held[w] /\ t \in Task
        /\ exec[w][r] # Idle /\ exec[w][r].phase = "call"
        /\ exec[w][r].at \in Numbered /\ here \in Key
    BY <1>0, <2>1, AtCall DEF Calling
  <2>3. saved[t][here] = None
    BY <1>0, <2>1, <2>2, ReadableBack DEF SleepMissing
  <2>4. exec[w][r].at \notin slept[t]
    <3>1. tasks[t].state = "running"
      BY <2>2 DEF ProgressInv, DurableInv, PromptInv, HeldAgrees, RowAgrees, TaskOf
    <3> QED
      BY <2>2, <2>3, <3>1 DEF ProgressInv, SleptSaved, Here
  <2>5. x \in Execution /\ x.phase = "drowsy" /\ x.at = exec[w][r].at
    BY <2>2 DEF Execution
  <2> HIDE DEF x
  <2> QED
    BY <1>0, <2>1, <2>2, <2>4, <2>5, BehindMove DEF Behind
<1>8. CASE SleepRecorded(w, r)
  <2> DEFINE x == [exec[w][r] EXCEPT !.phase = "suspend"]
  <2>1. Calling(w, r, "sleep", "drowsy") /\ Continues(w, r, x)
    BY <1>8 DEF SleepRecorded, SetCheckpoint
  <2>2. /\ exec[w][r] \in Execution /\ r \in held[w] /\ t \in Task
        /\ exec[w][r] # Idle /\ exec[w][r].phase = "drowsy"
        /\ exec[w][r].at \in Numbered /\ here \in Key
    BY <1>0, <2>1, AtCall DEF Calling
  <2>3. x \in Execution /\ x.phase = "suspend" /\ x.at = exec[w][r].at
    BY <2>2 DEF Execution
  <2>4. saved'[t] = [saved[t] EXCEPT ![here] = Slept]
    BY <1>0, <1>8, <2>2 DEF SleepRecorded, SetCheckpoint
  <2>5. Slept # None /\ \A i \in Numbered : KeyOf(i) \in Key
    BY ValueAssumption, StepsNumbered
  <2>6. \A k \in Key : saved[t][k] # None => saved'[t][k] # None
    BY <1>0, <2>2, <2>4, <2>5
  <2>7. saved'[t][here] # None
    BY <1>0, <2>2, <2>4, <2>5
  <2> HIDE DEF x
  <2> QED
    BY <1>0, <2>1, <2>2, <2>3, <2>5, <2>6, <2>7, BehindMove DEF Behind, Here
<1> QED
  BY <1>1, <1>2, <1>3, <1>4, <1>5, <1>6, <1>7, <1>8 DEF Executing

(* What has been slept stays recorded. *)
LEMMA SleptKept ==
  ASSUME ProgressInv, SavedKept, OverKept, slept' = slept
  PROVE  SleptSaved'
<1>1. \A i \in Numbered : KeyOf(i) \in Key
  BY StepsNumbered
<1> QED
  BY <1>1 DEF ProgressInv, SleptSaved, SavedKept, OverKept

LEMMA SleepScheduledKeeps ==
  ASSUME ProgressInv, DurableInv', SavedKept, OverKept, TablesKept,
         NEW w \in Worker, NEW r \in Run, SleepScheduled(w, r)
  PROVE  BehindInv' /\ SleptSaved'
<1> DEFINE t == TaskOf(r)
           at == exec[w][r].at
<1>0. /\ DTypeOK /\ DurableInv /\ Behind(w, r)
      /\ exec \in [Worker -> [Run -> Execution \cup {Idle}]]
      /\ slept \in [Task -> SUBSET Position]
  BY DEF DTypeOK, ProgressInv, DurableInv, BehindInv
<1>1. /\ Calling(w, r, "sleep", "suspend") /\ Ends(w, r) /\ saved' = saved
      /\ slept' = [slept EXCEPT ![t] = IF Suspendable(r) THEN @ \cup {at} ELSE @]
  BY DEF SleepScheduled
<1>2. /\ r \in held[w] /\ t \in Task /\ at \in Numbered
      /\ saved[t][KeyOf(at)] # None
  BY <1>0, <1>1, AtCall DEF Calling, Behind, Here
<1>3. \A u \in Task : u # t => slept'[u] = slept[u]
  BY <1>0, <1>1, <1>2
<1>4. slept'[t] \subseteq slept[t] \cup {at}
  BY <1>0, <1>1, <1>2
<1>5. ASSUME NEW v \in Worker, NEW s \in Run, exec'[v][s] # Idle
      PROVE  exec'[v][s] = exec[v][s] /\ slept'[TaskOf(s)] = slept[TaskOf(s)]
  <2>1. exec'[v][s] = exec[v][s] /\ ~(v = w /\ s = r)
    BY <1>0, <1>1, <1>5, ContinuesTyped DEF Ends, Continues
  <2>2. s \in held[v] /\ TaskOf(s) \in Task
    BY <1>0, <1>5, <2>1, ExecutionTyped
  <2>3. TaskOf(s) # t
    BY <1>0, <1>2, <2>1, <2>2, PromptInvSuffices DEF DurableInv, ExclusiveExecution, TaskOf
  <2> QED
    BY <1>3, <2>1, <2>2, <2>3
<1>6. BehindInv'
  BY <1>0, <1>5, BehindEnd DEF ProgressInv, TablesKept
<1>7. SleptSaved'
  <2> SUFFICES ASSUME NEW u \in Task, NEW i \in slept'[u]
               PROVE  i \in Numbered /\ (tasks'[u].state = "deleted" \/ saved'[u][KeyOf(i)] # None)
    BY DEF SleptSaved
  <2>1. CASE i \in slept[u]
    BY <1>1, <2>1 DEF ProgressInv, SleptSaved, OverKept
  <2>2. CASE i \notin slept[u]
    BY <1>1, <1>2, <1>3, <1>4, <2>2
  <2> QED
    BY <2>1, <2>2
<1> QED
  BY <1>6, <1>7

(* A task is completed by an execution that is behind the last call. *)
LEMMA CompletedKept ==
  ASSUME ProgressInv, SavedKept, [DNext]_<<vars, dvars>>
  PROVE  CompletedHasAll'
<1> SUFFICES ASSUME NEW t \in Task, tasks'[t].state = "completed" PROVE HasAll(t)'
  BY DEF CompletedHasAll
<1>1. CASE tasks[t].state = "completed"
  BY <1>1 DEF ProgressInv, CompletedHasAll, HasAll, SavedKept
<1>2. CASE tasks[t].state # "completed"
  <2>1. PICK w \in Worker, r \in Run : TaskCompleted(w, r)
    <3>1. TypeOK
      BY DEF ProgressInv, DurableInv, PromptInv
    <3>2. ~UNCHANGED vars /\ ~OtherOperation
      BY <1>2, <3>1, OtherKeepsTables DEF TablesKept, vars
    <3> QED
      BY <3>2, StepKinds
  <2>2. /\ exec[w][r] # Idle /\ exec[w][r].at = Length + 1
        /\ CompleteRun(w, r) /\ saved' = saved
    BY <2>1 DEF TaskCompleted
  <2>3. TaskOf(r) = t
    BY <1>2, <2>2 DEF CompleteRun, ProgressInv, DurableInv, PromptInv, TypeOK, TaskOf
  <2>4. \A i \in Numbered : i < Length + 1
    BY LengthAssumption DEF Numbered, Position
  <2>5. \A i \in Numbered : saved[t][KeyOf(i)] # None
    BY <2>2, <2>3, <2>4 DEF ProgressInv, BehindInv, Behind
  <2> QED
    BY <2>2, <2>5 DEF HasAll, Key
<1> QED
  BY <1>1, <1>2

LEMMA ProgressInit == DInit => ProgressInv
<1> SUFFICES ASSUME DInit PROVE ProgressInv
  OBVIOUS
<1>1. DurableInv
  <2>1. PromptInv /\ FreshInv
    BY PromptInit DEF DInit, FreshInv, Fresh
  <2> QED
    BY <2>1, StepsInvInit DEF StepsInv, DurableInv
<1>2. \A t \in Task : tasks[t].state = "absent"
  BY DEF DInit, Init
<1>3. BehindInv /\ SleptSaved
  BY DEF DInit, BehindInv, Behind, SleptSaved
<1> QED
  BY <1>1, <1>2, <1>3 DEF ProgressInv, TasksOver, CompletedHasAll

LEMMA ProgressStep ==
  ASSUME ProgressInv, Deadlines, ReadsBack, DTypeOK', [DNext]_<<vars, dvars>>
  PROVE  ProgressInv' /\ SavedKept /\ OverKept
<1>1. DurableInv' /\ SavedKept
  BY DurableStep DEF ProgressInv
<1>2. OverKept
  BY StepRefines, OverStep DEF ProgressInv, DurableInv
<1>3. TasksOver'
  BY <1>2 DEF OverKept, TasksOver
<1>4. CompletedHasAll'
  BY <1>1, CompletedKept
<1>5. SUFFICES BehindInv' /\ SleptSaved'
  BY <1>1, <1>2, <1>3, <1>4 DEF ProgressInv
<1>6. /\ OtherOperation => TablesKept
      /\ DurableInv /\ BehindInv /\ [Next]_vars
      /\ exec \in [Worker -> [Run -> Execution \cup {Idle}]]
      /\ UNCHANGED vars => Unmoved /\ TablesKept
  BY StepRefines, OtherKeepsTables
  DEF ProgressInv, DurableInv, DTypeOK, vars, Unmoved, TablesKept
<1>7. SUFFICES slept' = slept => BehindInv'
  <2>1. CASE slept' = slept
    BY <1>1, <1>2, <1>7, <2>1, SleptKept
  <2>2. CASE slept' # slept
    <3>1. PICK w \in Worker, r \in Run : Executing(w, r)
      BY <2>2 DEF DNext, ExecutionsLost, TasksCleanedUp, Elsewhere, dvars
    <3>2. SleepScheduled(w, r)
      BY <2>2, <3>1
      DEF Executing, ExecuteTask, LoadCheckpoints, StepCached, StepExecuted, StepStored,
          SleepPassed, SleepNotFound, SleepRecorded, EventAwaited, TaskCompleted, TaskFailed
    <3> QED
      BY <1>1, <1>2, <1>6, <3>2, SleepScheduledKeeps DEF OtherOperation, SleepScheduled
  <2> QED
    BY <2>1, <2>2
<1>8. SUFFICES ASSUME slept' = slept PROVE BehindInv'
  OBVIOUS
<1>9. ASSUME \A v \in Worker, s \in Run : exec'[v][s] # Idle => exec'[v][s] = exec[v][s],
             \A s \in Run : runs[s].task # None => runs'[s].task = runs[s].task
      PROVE  BehindInv'
  BY <1>1, <1>6, <1>8, <1>9, BehindEnd
<1>10. ASSUME NEW w \in Worker, NEW r \in Run, Executing(w, r) PROVE BehindInv'
  <2>1. CASE Ends(w, r)
    <3>1. \A v \in Worker, s \in Run : exec'[v][s] # Idle => exec'[v][s] = exec[v][s]
      BY <1>6, <2>1, ContinuesTyped DEF Ends, Continues, DurableInv
    <3>2. \A s \in Run : runs[s].task # None => runs'[s].task = runs[s].task
      <4>1. CASE TaskCompleted(w, r)
        <5>1. runs \in [Run -> RunRow] /\ Completed(runs[r]).task = runs[r].task
          BY <1>6, CompletedRow DEF DurableInv, PromptInv, TypeOK
        <5>2. runs' = runs \/ runs' = [runs EXCEPT ![r] = Completed(runs[r])]
          BY <4>1 DEF TaskCompleted, CompleteRun
        <5> QED
          BY <5>1, <5>2
      <4>2. CASE ~TaskCompleted(w, r)
        BY <1>6, <1>10, <4>2, ExecutingKinds DEF TablesKept
      <4> QED
        BY <4>1, <4>2
    <3> QED
      BY <1>9, <3>1, <3>2
  <2>2. CASE EventAwaited(w, r) /\ ~Ends(w, r)
    <3> DEFINE e == Program[exec[w][r].at].name
    <3>1. /\ Calling(w, r, "await", "call") /\ saved' = saved
          /\ Continues(w, r, [exec[w][r] EXCEPT !.at = @ + 1])
          /\ UNCHANGED vars \/ (AwaitEvent(w, r, e) /\ payload[e] = "emitted")
      BY <2>2 DEF EventAwaited, EventRead, EventWaited
    <3>2. Unmoved
      BY <1>6, <3>1 DEF AwaitEvent, Unmoved
    <3>3. exec[w][r].at \notin Numbered
      BY <3>1 DEF Calling, Numbered
    <3> QED
      BY <1>1, <1>6, <1>8, <3>1, <3>2, <3>3, BehindNextCall
  <2>3. CASE ~(SleepScheduled(w, r) \/ EventAwaited(w, r) \/ TaskCompleted(w, r)
               \/ \E new \in Run, delayed, tooOld \in BOOLEAN : TaskFailed(w, r, new, delayed, tooOld))
    <3>1. UNCHANGED vars
      BY <1>10, <2>3 DEF Executing, ExecuteTask, LoadCheckpoints, StepCached, StepExecuted,
                         StepStored, SetCheckpoint, SleepPassed, SleepNotFound, SleepRecorded
    <3> QED
      BY <1>1, <1>6, <1>8, <1>10, <2>3, <3>1, ExecutingKeepsBehind
  <2> QED
    BY <2>1, <2>2, <2>3 DEF SleepScheduled, TaskCompleted, TaskFailed
<1>11. ASSUME NEW w \in Worker, NEW lost \in SUBSET Run, ExecutionsLost(w, lost) PROVE BehindInv'
  <2>1. OtherOperation /\ exec' = [exec EXCEPT ![w] = [r \in Run |-> IF r \in lost THEN Idle ELSE @[r]]]
    BY <1>11 DEF ExecutionsLost, OtherOperation
  <2>2. \A v \in Worker, s \in Run : exec'[v][s] # Idle => exec'[v][s] = exec[v][s]
    BY <1>6, <2>1
  <2> QED
    BY <1>6, <1>9, <2>1, <2>2 DEF TablesKept
<1>12. ASSUME exec' = exec, OtherOperation \/ UNCHANGED vars PROVE BehindInv'
  BY <1>6, <1>9, <1>12 DEF TablesKept
<1>13. ASSUME NEW batch \in SUBSET Task, TasksCleanedUp(batch) PROVE BehindInv'
  BY <1>12, <1>13 DEF TasksCleanedUp, OtherOperation, ClientStep, ClientTaskStep
<1>14. CASE Elsewhere
  BY <1>12, <1>14 DEF Elsewhere, OtherOperation, ClientStep, ClientTaskStep, dvars
<1> QED
  BY <1>10, <1>11, <1>12, <1>13, <1>14 DEF DNext, vars, dvars

(* A sleep that the task was put to sleep for is not slept again, by       *)
(* whatever attempt (context.rs:282, context.py:97): the checkpoint is     *)
(* written before the run is suspended.                                    *)
THEOREM SleptOnceHolds ==
  ASSUME Deadlines, ReadsBack
  PROVE  DSpec => SleptOnce
<1> DEFINE Once == \A w \in Worker, r \in Run :
             SleepScheduled(w, r) /\ Suspendable(r) => exec[w][r].at \notin slept[TaskOf(r)]
<1>1. DInit => StepsInv /\ ProgressInv
  BY StepsInvInit, ProgressInit
<1>2. StepsInv /\ ProgressInv /\ [DNext]_<<vars, dvars>> => (StepsInv /\ ProgressInv)'
  BY StepsInvStep, ProgressStep DEF StepsInv
<1>3. ProgressInv => [Once]_<<vars, dvars>>
  BY DEF ProgressInv, BehindInv, Behind, SleepScheduled, Calling
<1> QED
  BY <1>1, <1>2, <1>3, PTL DEF DSpec, SleptOnce

----------------------------------------------------------------------------
(* What get-task shows                                                     *)

(* What has been read of a completed task stays true of it. *)
ViewAgrees ==
  view # NoView =>
    /\ view \in TaskDetails
    /\ view.completed =>
         /\ view.read > 0 /\ OverTask(view.task)
         /\ tasks[view.task].state = "deleted" \/ HasAll(view.task)
         /\ view.read > 1 => ~view.active
         /\ view.read > 2 => tasks[view.task].state = "deleted" \/ ~view.missing

AdminInv == StepsInv /\ ProgressInv /\ ViewAgrees

(* The statements of task_get, in their order. *)
LEMMA ReadsInOrder ==
  ASSUME ViewAgrees, view # NoView, view.read < 3
  PROVE  /\ view.read + 1 \in 0 .. 3
         /\ Reads("tasks") => view.read = 0
         /\ Reads("runs") => view.read = 1
         /\ Reads("checkpoints") => view.read = 2
<1>1. view.read \in 0 .. 3
  BY DEF ViewAgrees, TaskDetails
<1>2. view.read \in {0, 1, 2}
  BY <1>1
<1> QED
  BY <1>2 DEF Reads, Tables

LEMMA ReadsAgree ==
  ASSUME AdminInv, ReadsTask \/ ReadsRuns \/ ReadsCheckpoints, UNCHANGED <<vars, dvars>>
  PROVE  ViewAgrees'
<1> DEFINE t == view.task
           n == view.read + 1
<1>0. /\ view # NoView /\ view.read < 3 /\ view \in TaskDetails /\ t \in Task
      /\ ViewAgrees /\ TasksOver /\ CompletedHasAll
      /\ tasks' = tasks /\ runs' = runs /\ saved' = saved
  BY DEF ReadsTask, ReadsRuns, ReadsCheckpoints, Reads, AdminInv, ViewAgrees, TaskDetails,
         ProgressInv, vars, dvars
<1>1. n \in 0 .. 3
  BY <1>0, ReadsInOrder
<1>2. CASE ReadsTask
  <2> DEFINE state == tasks[t].state
             completed == state = "completed"
             x == [view EXCEPT !.read = n, !.completed = completed]
  <2>1. n = 1 /\ (view' = NoView \/ view' = x)
    BY <1>0, <1>2, ReadsInOrder DEF ReadsTask
  <2>2. completed \in BOOLEAN
    OBVIOUS
  <2>3. completed => OverTask(t) /\ HasAll(t)
    BY <1>0 DEF TasksOver, CompletedHasAll
  <2> HIDE DEF completed, n
  <2>4. x \in TaskDetails /\ x.task = t /\ x.read = n /\ x.completed = completed
    BY <1>0, <1>1, <2>2 DEF TaskDetails
  <2> HIDE DEF x
  <2> QED
    BY <1>0, <2>1, <2>3, <2>4 DEF ViewAgrees, OverTask, HasAll, Live
<1>3. CASE ReadsRuns
  <2> DEFINE active == {r \in Run : runs[r].task = t /\ runs[r].state \in Active}
             some == active # {}
             x == [view EXCEPT !.read = n, !.active = some]
  <2>1. n = 2 /\ view' = x
    BY <1>0, <1>3, ReadsInOrder DEF ReadsRuns
  <2>2. some \in BOOLEAN
    OBVIOUS
  <2>3. OverTask(t) => ~some
    BY DEF OverTask, Live
  <2> HIDE DEF some, n
  <2>4. /\ x \in TaskDetails /\ x.task = t /\ x.read = n /\ x.completed = view.completed
        /\ x.active = some
    BY <1>0, <1>1, <2>2 DEF TaskDetails
  <2> HIDE DEF x
  <2> QED
    BY <1>0, <2>1, <2>3, <2>4 DEF ViewAgrees, OverTask, HasAll, Live
<1>4. CASE ReadsCheckpoints
  <2> DEFINE missing == {k \in Key : saved[t][k] = None}
             some == missing # {}
             x == [view EXCEPT !.read = n, !.missing = some]
  <2>1. view.read = 2 /\ n = 3 /\ view' = x
    BY <1>0, <1>4, ReadsInOrder DEF ReadsCheckpoints
  <2>2. some \in BOOLEAN
    OBVIOUS
  <2>3. HasAll(t) => ~some
    BY DEF HasAll
  <2> HIDE DEF some, n
  <2>4. /\ x \in TaskDetails /\ x.task = t /\ x.read = n /\ x.completed = view.completed
        /\ x.active = view.active /\ x.missing = some
    BY <1>0, <1>1, <2>2 DEF TaskDetails
  <2> HIDE DEF x
  <2> QED
    BY <1>0, <2>1, <2>3, <2>4 DEF ViewAgrees, OverTask, HasAll, Live
<1> QED
  BY <1>2, <1>3, <1>4

LEMMA QueriesKeep ==
  ASSUME AdminInv, Deadlines, ReadsBack, Queries
  PROVE  AdminInv'
<1>0. UNCHANGED <<vars, dvars>>
  BY DEF Queries
<1>1. StepsInv' /\ ProgressInv'
  <2>1. StepsInv'
    BY <1>0, StepsInvStep DEF AdminInv
  <2> QED
    BY <1>0, <2>1, ProgressStep DEF AdminInv, StepsInv
<1>2. ViewAgrees'
  <2>1. ASSUME NEW t \in Task, TaskGet(t) PROVE ViewAgrees'
    BY <2>1 DEF TaskGet, Asked, ViewAgrees, TaskDetails
  <2>2. CASE Dumps
    BY <2>2 DEF Dumps, ViewAgrees
  <2> QED
    BY <1>0, <2>1, <2>2, ReadsAgree DEF Queries
<1> QED
  BY <1>1, <1>2 DEF AdminInv

LEMMA AdminStep ==
  ASSUME AdminInv, Deadlines, ReadsBack, [ANext]_<<vars, dvars, view>>
  PROVE  AdminInv'
<1>1. ASSUME [DNext]_<<vars, dvars>>, view' = view PROVE AdminInv'
  <2>1. StepsInv'
    BY <1>1, StepsInvStep DEF AdminInv
  <2>2. ProgressInv' /\ SavedKept /\ OverKept
    BY <1>1, <2>1, ProgressStep DEF AdminInv, StepsInv
  <2>3. view # NoView => view.task \in Task
    BY DEF AdminInv, ViewAgrees, TaskDetails
  <2>4. ASSUME NEW t \in Task, HasAll(t) PROVE tasks'[t].state = "deleted" \/ HasAll(t)'
    BY <2>2, <2>4 DEF HasAll, SavedKept
  <2>5. ViewAgrees'
    BY <1>1, <2>2, <2>3, <2>4 DEF AdminInv, ViewAgrees, OverKept
  <2> QED
    BY <2>1, <2>2, <2>5 DEF AdminInv
<1> QED
  BY <1>1, QueriesKeep DEF ANext

(* While deadlines are met, a task that get-task shows completed is shown  *)
(* with no run that is still to be executed and with every checkpoint,     *)
(* though its three statements share no transaction, unless it was cleaned *)
(* up between them (admin_storage.rs): the row of the task is read first.  *)
THEOREM ShownCompleteHolds ==
  ASSUME Deadlines, ReadsBack
  PROVE  ASpec => []ShownComplete
<1>1. AInit => AdminInv
  BY StepsInvInit, ProgressInit DEF AInit, AdminInv, ViewAgrees
<1>2. AdminInv /\ [ANext]_<<vars, dvars, view>> => AdminInv'
  BY AdminStep
<1>3. AdminInv => ShownComplete
  BY DEF AdminInv, ViewAgrees, ShownComplete
<1> QED
  BY <1>1, <1>2, <1>3, PTL DEF ASpec
==============================================================================
