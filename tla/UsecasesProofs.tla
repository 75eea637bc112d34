---------------------------- MODULE UsecasesProofs ----------------------------
(***************************************************************************)
(* Applications that share a database, for every number of them and every  *)
(* configuration: what they do are steps of TaskStore, so that what is     *)
(* proved of it holds for them; usecases do not reach into each other; and *)
(* no two runs of tasks with the same key are executed at the same time.   *)
(***************************************************************************)
EXTENDS TaskStoreProofs, Usecases

----------------------------------------------------------------------------
(* The steps of applications are steps of TaskStore *)

LEMMA Configured ==
  /\ \A w \in Worker, n \in EventName : <<WorkerConfig(w).usecase, n>> \in Event
  /\ \A a \in App, n \in EventName : <<UsecaseOf[a], n>> \in Event
  /\ \A w \in Worker : AppOf[w] \in App /\ WorkerConfig(w).usecase = UsecaseOf[AppOf[w]]
  BY AppAssumption DEF WorkerConfig

LEMMA WorkerSteps ==
  ASSUME NEW w \in Worker, AppWorkerStep(w)
  PROVE  WorkerStep(w)
  <1>1. ASSUME NEW r \in Run, NEW n \in EventName, Awaits(w, r, n)
        PROVE  \E e \in Event : AwaitEvent(w, r, e)
    BY <1>1, Configured DEF Awaits
  <1>2. ASSUME NEW r \in Run, Settles(w, r)
        PROVE  WorkerTaskStep(w)
    BY <1>2 DEF Settles, Completes, Sleeps, Fails, WorkerTaskStep
  <1> QED
    BY <1>1, <1>2 DEF AppWorkerStep, Claims, WorkerStep, WorkerTaskStep

LEMMA EventSteps ==
  ASSUME NEW n \in EventName, EventStep(n)
  PROVE  \E a \in App : Emits(a, n)
  BY Configured DEF EventStep, AppEmits, PythonEmits, AsyncioEmits, ContextEmits

LEMMA CommandSteps ==
  ASSUME NEW a \in App, Command(a)
  PROVE  \/ \E t \in Task : Cancels(a, t)
         \/ \E batch \in SUBSET Task : CleansTasks(a, batch)
         \/ \E names \in SUBSET EventName : CleansEvents(a, names)
         \/ \E n \in EventName : Emits(a, n)
  BY DEF Command, CommandEmits

LEMMA Inserts ==
  ASSUME NEW n \in Name, NEW k \in TaskOptions, Spawns(n, k)
  PROVE  \E h \in Home : Insert(h)
  <1>1. \A h : Insert(h) => h \in Home
    BY AppAssumption DEF Insert
  <1>2. ASSUME NEW a, NEW c, \/ AppSpawn(a, n, k)
                            \/ ChannelSpawn(a, c, n, k)
                            \/ PythonSpawn(a, c, n, k)
                            \/ AsyncioSpawn(a, c, n, k)
                            \/ CommandSpawn(a, c, n, k)
        PROVE  \E h : Insert(h)
    BY <1>2 DEF AppSpawn, ChannelSpawn, PythonSpawn, AsyncioSpawn, CommandSpawn
  <1> QED
    BY <1>1, <1>2 DEF Spawns, ContextSpawn

LEMMA UpkeepSteps ==
  ASSUME NEW u \in Upkeeper, AppUpkeepStep(u)
  PROVE  UpkeepStep(u)
  BY DEF AppUpkeepStep, Picks, CancelsAged, UpkeepStep

(* What is not an INSERT INTO tasks leaves the columns of home alone.      *)
LEMMA UsecasesSteps ==
  ASSUME UNext
  PROVE  (\E h \in Home : Insert(h)) \/ (LaterNext /\ home' = home)
  <1>1. CASE \E n \in Name, k \in TaskOptions : Spawns(n, k)
    BY <1>1, Inserts
  <1>2. CASE /\ \/ \E w \in Worker : AppWorkerStep(w)
                \/ \E n \in EventName : EventStep(n)
                \/ \E u \in Upkeeper : AppUpkeepStep(u)
                \/ \E a \in App : Command(a)
                \/ TimePasses
             /\ UNCHANGED home
    <2>1. ASSUME NEW n \in EventName, NEW a \in App, Emits(a, n)
          PROVE  \E e \in Event : EmitEvent(e)
      BY <2>1, Configured DEF Emits
    <2>2. ASSUME NEW a \in App, Command(a)
          PROVE  LaterNext
      <3>1. ASSUME NEW names \in SUBSET EventName, CleansEvents(a, names)
            PROVE  \E batch \in (SUBSET Event) \ {{}} : CleanupEvents(batch)
        BY <3>1 DEF CleansEvents, CleanupEvents
      <3> QED
        BY <2>1, <2>2, <3>1, CommandSteps DEF Cancels, CleansTasks, LaterNext
    <2>3. ASSUME NEW n \in EventName, EventStep(n) PROVE LaterNext
      BY <2>1, <2>3, EventSteps DEF LaterNext
    <2>4. ASSUME NEW w \in Worker, AppWorkerStep(w) PROVE LaterNext
      BY <2>4, WorkerSteps DEF LaterNext
    <2>5. ASSUME NEW u \in Upkeeper, AppUpkeepStep(u) PROVE LaterNext
      BY <2>5, UpkeepSteps DEF LaterNext
    <2> QED
      BY <1>2, <2>2, <2>3, <2>4, <2>5 DEF LaterNext
  <1> QED
    BY <1>1, <1>2 DEF UNext

(* Whatever applications share a database, and however they are            *)
(* configured, their steps are steps of TaskStore: its theorems hold for   *)
(* each of them (app.rs, lib.rs, asynclib.rs and the command line only     *)
(* reach the tables through Storage).                                      *)
THEOREM UsecasesAreStore == USpec => Spec
  <1>1. UInit => Init
    BY DEF UInit
  <1>2. [UNext]_uvars => [Next]_vars
    <2>1. UNext => Next
      <3>1. \A h : Insert(h) => \E t \in Task, r \in Run : SpawnTask(t, r)
        BY DEF Insert
      <3> QED
        BY <3>1, UsecasesSteps DEF LaterNext, Next, ClientStep, ClientTaskStep
    <2> QED
      BY <2>1 DEF uvars
  <1> QED
    BY <1>1, <1>2, PTL DEF USpec, Spec

----------------------------------------------------------------------------
(* What a step of TaskStore reaches *)

(* A step that shows in the tasks of a batch and in their runs only; a run *)
(* it adds is a run of one of them.                                        *)
Touches(batch) ==
  /\ \A t \in Task \ batch : tasks'[t] = tasks[t]
  /\ \A r \in Run :
       \/ /\ runs'[r].task = runs[r].task
          /\ runs'[r].state = runs[r].state
          /\ runs'[r].attempt = runs[r].attempt
       \/ /\ runs'[r].task \in batch
          /\ runs[r].task \in {None, runs'[r].task}

(* No run waits for an event that did not. *)
NoWaitBegins == \A r \in Run : runs'[r].wait \in {None, runs[r].wait}

LEMMA TouchesStays ==
  ASSUME NEW batch, Touches(batch)
  PROVE  TasksStay
  BY DEF Touches, TasksStay

(* A step that shows in no row. *)
LEMMA TouchesNothing ==
  ASSUME TypeOK, tasks' = tasks,
         \A r \in Run : /\ runs'[r].task = runs[r].task
                        /\ runs'[r].state = runs[r].state
                        /\ runs'[r].attempt = runs[r].attempt
                        /\ runs'[r].wait = runs[r].wait
  PROVE  Touches({}) /\ NoWaitBegins
  BY DEF Touches, NoWaitBegins

LEMMA DoFailRunTouches ==
  ASSUME TypeOK, NEW r \in Run, NEW t \in Task, t = runs[r].task, NEW new \in Run,
         NEW delayed \in BOOLEAN, NEW tooOld \in BOOLEAN,
         DoFailRun(r, new, delayed, tooOld)
  PROVE  Touches({t}) /\ NoWaitBegins
  <1> DEFINE next == tasks[t].attempts + 1
             failed == [runs EXCEPT ![r] = Failed(runs[r])]
  <1>1. next \in Nat /\ t # None
    BY NoneAssumption DEF TypeOK, TaskRow
  <1>2. Failed(runs[r]).wait = None /\ Failed(runs[r]).task = t
    BY FailedRow DEF TypeOK
  <1>3. \A u \in Task : u # t => tasks'[u] = tasks[u]
    BY DEF DoFailRun, TypeOK
  <1>4. CASE AttemptsRemain(next) /\ ~tooOld
    <2>1. /\ runs[new].state = "absent"
          /\ runs' = [failed EXCEPT ![new] = NewRun(t, next, delayed)]
      BY <1>4 DEF DoFailRun
    <2>2. runs[new].task = None
      BY <2>1 DEF TypeOK, WellFormed
    <2>3. /\ runs'[new] = NewRun(t, next, delayed)
          /\ runs'[r] = Failed(runs[r])
          /\ \A s \in Run : s # new /\ s # r => runs'[s] = runs[s]
      BY <1>1, <2>1, <2>2 DEF TypeOK
    <2>4. NewRun(t, next, delayed).task = t /\ NewRun(t, next, delayed).wait = None
      BY <1>1, NewRunType
    <2> QED
      BY <1>2, <1>3, <2>2, <2>3, <2>4 DEF Touches, NoWaitBegins
  <1>5. CASE (AttemptsRemain(next) /\ tooOld) \/ ~AttemptsRemain(next)
    <2>1. /\ runs'[r] = Failed(runs[r])
          /\ \A s \in Run : s # r => runs'[s] = runs[s]
      BY <1>5 DEF TypeOK, DoFailRun
    <2> QED
      BY <1>2, <1>3, <2>1 DEF Touches, NoWaitBegins
  <1> QED
    BY <1>4, <1>5

LEMMA SuspendRunTouches ==
  ASSUME TypeOK, NEW r \in Run, NEW t \in Task, t = runs[r].task,
         NEW wait \in Event \cup {None}, SuspendRun(r, wait)
  PROVE  /\ Touches({t})
         /\ \A s \in Run : runs'[s].wait \in {None, runs[s].wait} \/ (s = r /\ runs'[s].wait = wait)
  <1>1. Suspended(runs[r], wait).task = t /\ Suspended(runs[r], wait).wait = wait
    BY SuspendedRow DEF TypeOK
  <1>2. /\ runs'[r] = Suspended(runs[r], wait)
        /\ \A s \in Run : s # r => runs'[s] = runs[s]
        /\ \A u \in Task : u # t => tasks'[u] = tasks[u]
    BY DEF SuspendRun, TypeOK
  <1> QED
    BY <1>1, <1>2 DEF Touches

LEMMA CompleteRunTouches ==
  ASSUME TypeOK, NEW r \in Run, NEW t \in Task, t = runs[r].task,
         runs' = [runs EXCEPT ![r] = Completed(runs[r])],
         tasks' = [tasks EXCEPT ![runs[r].task].state = "completed"]
  PROVE  Touches({t}) /\ NoWaitBegins
  <1>1. Completed(runs[r]).task = t /\ Completed(runs[r]).wait = None
    BY CompletedRow DEF TypeOK
  <1>2. /\ runs'[r] = Completed(runs[r])
        /\ \A s \in Run : s # r => runs'[s] = runs[s]
        /\ \A u \in Task : u # t => tasks'[u] = tasks[u]
    BY DEF TypeOK
  <1> QED
    BY <1>1, <1>2 DEF Touches, NoWaitBegins

LEMMA ClaimTouches ==
  ASSUME TypeOK, NEW w \in Worker, NEW runBatch \in SUBSET Run, ClaimTask(w, runBatch),
         NEW batch \in SUBSET Task, \A r \in runBatch : runs[r].task \in batch
  PROVE  Touches(batch) /\ NoWaitBegins
  <1>1. \A r \in runBatch : /\ Claimed(runs[r], w).task = runs[r].task
                            /\ Claimed(runs[r], w).wait = runs[r].wait
    BY ClaimedRow DEF TypeOK
  <1>2. /\ \A r \in runBatch : runs'[r] = Claimed(runs[r], w)
        /\ \A r \in Run : r \notin runBatch => runs'[r] = runs[r]
        /\ \A t \in Task : (\A r \in runBatch : runs[r].task # t) => tasks'[t] = tasks[t]
    BY DEF ClaimTask
  <1> QED
    BY <1>1, <1>2 DEF Touches, NoWaitBegins

LEMMA EmitTouches ==
  ASSUME TypeOK, NEW e \in Event, EmitEvent(e),
         NEW batch \in SUBSET Task, \A r \in Waiters(e) : runs[r].task \in batch
  PROVE  Touches(batch) /\ NoWaitBegins
  <1>1. \A r \in Run : Woken(runs[r]).task = runs[r].task /\ Woken(runs[r]).wait = None
    BY WokenRow DEF TypeOK
  <1>2. /\ \A r \in Waiters(e) : r \in Run /\ runs'[r] = Woken(runs[r])
        /\ \A r \in Run : r \notin Waiters(e) => runs'[r] = runs[r]
        /\ \A t \in Task : (\A r \in Waiters(e) : runs[r].task # t) => tasks'[t] = tasks[t]
    BY DEF EmitEvent, Waiters
  <1> QED
    BY <1>1, <1>2 DEF Touches, NoWaitBegins

LEMMA CancelTaskTouches ==
  ASSUME TypeOK, NEW t \in Task, CancelTask(t)
  PROVE  Touches({t}) /\ NoWaitBegins
  <1>1. \A r \in Run : /\ Cancelled(runs[r]).task = runs[r].task
                       /\ Cancelled(runs[r]).wait = runs[r].wait
    BY CancelledRow DEF TypeOK
  <1>2. /\ \A r \in Run : \/ runs'[r] = runs[r]
                          \/ runs[r].task = t /\ runs'[r] = Cancelled(runs[r])
        /\ \A u \in Task : u # t => tasks'[u] = tasks[u]
    BY DEF CancelTask, RunsOf, TypeOK
  <1> QED
    BY <1>1, <1>2 DEF Touches, NoWaitBegins

LEMMA CancelAgedTouches ==
  ASSUME TypeOK, NEW u \in Upkeeper, NEW runBatch \in SUBSET Run, CancelAged(u, runBatch),
         NEW batch \in SUBSET Task, \A r \in runBatch : runs[r].task \in batch
  PROVE  Touches(batch) /\ NoWaitBegins
  <1>1. \A r \in Run : /\ Cancelled(runs[r]).task = runs[r].task
                       /\ Cancelled(runs[r]).wait = runs[r].wait
    BY CancelledRow DEF TypeOK
  <1>2. /\ \A r \in Run : runs'[r] = IF r \in runBatch THEN Cancelled(runs[r]) ELSE runs[r]
        /\ \A t \in Task : (\A r \in runBatch : runs[r].task # t) => tasks'[t] = tasks[t]
    BY CancelAgedIs
  <1> QED
    BY <1>1, <1>2 DEF Touches, NoWaitBegins

LEMMA CleanupTouches ==
  ASSUME TypeOK, NEW batch \in SUBSET Task, CleanupTasks(batch)
  PROVE  Touches(batch) /\ NoWaitBegins
  <1>1. \A r \in Run : Deleted(runs[r]).task = runs[r].task /\ Deleted(runs[r]).wait = None
    BY DeletedRow DEF TypeOK
  <1>2. /\ \A r \in Run : runs'[r] = IF runs[r].task \in batch THEN Deleted(runs[r]) ELSE runs[r]
        /\ \A t \in Task \ batch : tasks'[t] = tasks[t]
    BY DEF CleanupTasks
  <1> QED
    BY <1>1, <1>2 DEF Touches, NoWaitBegins

----------------------------------------------------------------------------
(* Usecases *)

(* As long as a task has a row, no other has its name and key.             *)
KeysUnique ==
  \A s, t \in Task :
    /\ HasRow(s) /\ HasRow(t)
    /\ home[s].key # None /\ home[s].key = home[t].key /\ home[s].name = home[t].name
    => s = t

(* A run waits for an event of the usecase that its task belongs to.       *)
WaitsAtHome ==
  \A r \in Run : runs[r].wait # None => runs[r].wait[1] = home[runs[r].task].usecase

UInv ==
  /\ LifeInv
  /\ UTypeOK
  /\ KeysUnique
  /\ HeldIsOwn
  /\ WaitsAtHome

(* A step that reaches the usecase v only. *)
Reaches(v) ==
  \E batch \in SUBSET Task :
    /\ \A t \in batch : home[t].usecase = v
    /\ Touches(batch)
    /\ \A r \in Run : \/ runs'[r].wait \in {None, runs[r].wait}
                      \/ runs'[r].wait[1] = v /\ runs'[r].task \in batch
    /\ \A w \in Worker : \A r \in held'[w] :
         r \in held[w] \/ (r \in Run /\ runs[r].task \in Task /\ Visible(w, r))

LEMMA ReachesIs ==
  ASSUME NEW v, NEW batch \in SUBSET Task, \A t \in batch : home[t].usecase = v,
         Touches(batch), NoWaitBegins,
         \A w \in Worker : held'[w] \subseteq held[w]
  PROVE  Reaches(v)
  BY DEF Reaches, NoWaitBegins

(* What a worker settles was visible to it when it claimed it.             *)
LEMMA WorkerReaches ==
  ASSUME UInv, NEW w \in Worker, AppWorkerStep(w)
  PROVE  \E v : Reaches(v)
  <1> DEFINE v == WorkerConfig(w).usecase
  <1>0. TypeOK /\ PromptInv
    BY DEF UInv, LifeInv, PromptInv
  <1>1. ASSUME NEW r \in held[w]
        PROVE  /\ r \in Run /\ runs[r].state = "running"
               /\ \E t \in Task : t = runs[r].task /\ home[t].usecase = v
    <2>1. r \in Run /\ runs[r].state = "running"
      BY <1>0 DEF PromptInv, HeldAgrees, TypeOK
    <2>2. runs[r].task \in Task
      BY <1>0, <2>1, ExecutedIsExecuting
    <2>3. home[runs[r].task].usecase = v
      BY DEF UInv, HeldIsOwn, Visible
    <2> QED
      BY <2>1, <2>2, <2>3
  <1> HIDE DEF v
  <1>2. ASSUME NEW r \in Run, Drops(w, r) PROVE \A x \in Worker : held'[x] \subseteq held[x]
    BY <1>0, <1>2 DEF Drops, TypeOK
  <1>3. ASSUME NEW t \in Task, home[t].usecase = v, Touches({t}), NoWaitBegins,
               \A x \in Worker : held'[x] \subseteq held[x]
        PROVE  Reaches(v)
    BY <1>3, ReachesIs
  <1>4. ASSUME NEW batch \in SUBSET Run, Claims(w, batch) PROVE Reaches(v)
    <2>1. /\ ClaimTask(w, batch)
          /\ \A r \in batch : Visible(w, r) /\ runs[r].state # "absent"
      BY <1>4 DEF Claims, ClaimTask, Claimable
    <2>2. \A r \in batch : runs[r].task \in Task /\ home[runs[r].task].usecase = v
      BY <1>0, <2>1, NoneAssumption DEF TypeOK, WellFormed, RunRow, Visible, v
    <2>3. PICK claimed \in SUBSET Task :
            \A t \in Task : t \in claimed <=> \E r \in batch : runs[r].task = t
      <3>1. {t \in Task : \E r \in batch : runs[r].task = t} \in SUBSET Task
        OBVIOUS
      <3> QED
        BY <3>1
    <2>4. Touches(claimed) /\ NoWaitBegins
      BY <1>0, <2>1, <2>2, <2>3, ClaimTouches
    <2>5. \A x \in Worker : held'[x] = IF x = w THEN held[x] \cup batch ELSE held[x]
      BY <1>0, <2>1 DEF ClaimTask, TypeOK
    <2>6. \A t \in claimed : home[t].usecase = v
      BY <2>2, <2>3
    <2> QED
      BY <2>1, <2>2, <2>4, <2>5, <2>6 DEF Reaches, NoWaitBegins
  <1>5. ASSUME UNCHANGED <<tasks, runs>>, \A x \in Worker : held'[x] \subseteq held[x]
        PROVE  Reaches(v)
    <2>1. Touches({}) /\ NoWaitBegins
      BY <1>0, <1>5, TouchesNothing
    <2> QED
      BY <1>5, <2>1, ReachesIs
  <1>6. ASSUME NEW r \in Run, Settles(w, r) PROVE Reaches(v)
    <2>1. r \in held[w] /\ Drops(w, r)
      BY <1>6 DEF Settles, Completes, Sleeps, Fails, CompleteRun, ScheduleRun, FailRun
    <2>2. PICK t \in Task : t = runs[r].task /\ home[t].usecase = v
      BY <1>1, <2>1
    <2>3. CASE Completes(w, r)
      <3>1. /\ runs' = [runs EXCEPT ![r] = Completed(runs[r])]
            /\ tasks' = [tasks EXCEPT ![runs[r].task].state = "completed"]
        BY <1>1, <2>1, <2>3 DEF Completes, CompleteRun
      <3> QED
        BY <1>0, <1>2, <1>3, <2>1, <2>2, <3>1, CompleteRunTouches
    <2>4. CASE Sleeps(w, r)
      <3>1. SuspendRun(r, None)
        BY <1>1, <2>1, <2>4 DEF Sleeps, ScheduleRun, Suspendable
      <3>2. Touches({t}) /\ NoWaitBegins
        BY <1>0, <2>2, <3>1, SuspendRunTouches DEF NoWaitBegins
      <3> QED
        BY <1>2, <1>3, <2>1, <2>2, <3>2
    <2>5. CASE Fails(w, r)
      <3>1. PICK new \in Run, delayed \in BOOLEAN, tooOld \in BOOLEAN :
              FailRun(w, r, new, delayed, tooOld)
        BY <2>5 DEF Fails
      <3>2. DoFailRun(r, new, delayed, tooOld)
        BY <1>1, <2>1, <3>1 DEF FailRun
      <3> QED
        BY <1>0, <1>2, <1>3, <2>1, <2>2, <3>2, DoFailRunTouches
    <2> QED
      BY <1>6, <2>3, <2>4, <2>5 DEF Settles
  <1>7. ASSUME NEW r \in Run, NEW n \in EventName, Awaits(w, r, n) PROVE Reaches(v)
    <2> DEFINE e == <<v, n>>
    <2>1. AwaitEvent(w, r, e) /\ r \in held[w] /\ e \in Event /\ e[1] = v
      BY <1>7, Configured DEF Awaits, AwaitEvent, v
    <2> HIDE DEF e
    <2>2. PICK t \in Task : t = runs[r].task /\ home[t].usecase = v
      BY <1>1, <2>1
    <2>3. CASE UNCHANGED <<tasks, runs, payload, held>>
      BY <1>5, <2>3
    <2>4. CASE SuspendRun(r, e) /\ Drops(w, r)
      <3>1. /\ Touches({t})
            /\ \A s \in Run : runs'[s].wait \in {None, runs[s].wait} \/ (s = r /\ runs'[s].wait = e)
        BY <1>0, <2>1, <2>2, <2>4, SuspendRunTouches
      <3>2. runs'[r].task = t
        BY <2>2, <3>1, TouchesStays, NoneAssumption DEF TasksStay
      <3> QED
        BY <1>2, <2>1, <2>2, <2>4, <3>1, <3>2 DEF Reaches
    <2> QED
      BY <2>1, <2>3, <2>4 DEF AwaitEvent
  <1>8. ASSUME NEW lost \in SUBSET Run, WorkerLoses(w, lost) PROVE Reaches(v)
    BY <1>0, <1>5, <1>8 DEF WorkerLoses, TypeOK
  <1> QED
    BY <1>4, <1>6, <1>7, <1>8 DEF AppWorkerStep

(* The runs that wait for an event are of the usecase of that event.       *)
LEMMA EmitReaches ==
  ASSUME UInv, NEW a \in App, NEW n \in EventName, Emits(a, n)
  PROVE  Reaches(UsecaseOf[a])
  <1> DEFINE v == UsecaseOf[a]
             e == <<v, n>>
  <1>0. TypeOK
    BY DEF UInv, LifeInv, PromptInv
  <1>1. EmitEvent(e) /\ e \in Event /\ e[1] = v
    BY Configured DEF Emits
  <1> HIDE DEF e, v
  <1>2. \A r \in Waiters(e) : runs[r].task \in Task /\ home[runs[r].task].usecase = v
    BY <1>0, <1>1, NoneAssumption
    DEF Waiters, UInv, WaitsAtHome, TypeOK, WellFormed, RunRow
  <1>3. PICK batch \in SUBSET Task :
          \A t \in Task : t \in batch <=> \E r \in Waiters(e) : runs[r].task = t
    <2>1. {t \in Task : \E r \in Waiters(e) : runs[r].task = t} \in SUBSET Task
      OBVIOUS
    <2> QED
      BY <2>1
  <1>4. Touches(batch) /\ NoWaitBegins
    BY <1>0, <1>1, <1>2, <1>3, EmitTouches
  <1>5. \A t \in batch : home[t].usecase = v
    BY <1>2, <1>3
  <1>6. held' = held
    BY <1>1 DEF EmitEvent
  <1>7. Reaches(v)
    BY <1>4, <1>5, <1>6, ReachesIs
  <1> QED
    BY <1>7 DEF v

(* What upkeep fails is one run, what it cancels is of its usecase.        *)
LEMMA UpkeepReaches ==
  ASSUME UInv, NEW u \in Upkeeper, AppUpkeepStep(u)
  PROVE  \E v : Reaches(v)
  <1>0. TypeOK /\ PromptInv
    BY DEF UInv, LifeInv, PromptInv
  <1>1. ASSUME UNCHANGED <<tasks, runs, held>> PROVE Reaches(UsecaseOf[AppOf[u]])
    <2>1. Touches({}) /\ NoWaitBegins
      BY <1>0, <1>1, TouchesNothing
    <2> QED
      BY <1>1, <2>1, ReachesIs
  <1>2. ASSUME NEW r \in Run, Picks(u, r) PROVE \E v : Reaches(v)
    BY <1>1, <1>2 DEF Picks, PickExpired
  <1>3. ASSUME UpkeepFails(u) PROVE \E v : Reaches(v)
    <2>1. PICK new \in Run, delayed \in BOOLEAN, tooOld \in BOOLEAN :
            FailPicked(u, new, delayed, tooOld)
      BY <1>3 DEF UpkeepFails
    <2>2. PICK r \in Run : r = picked[u] /\ runs[r].state = "running"
      BY <1>0, <2>1 DEF FailPicked, PromptInv, PickedAgrees, TypeOK
    <2>3. PICK t \in Task : t = runs[r].task
      BY <1>0, <2>2, ExecutedIsExecuting
    <2>4. DoFailRun(r, new, delayed, tooOld) /\ held' = held
      BY <2>1, <2>2 DEF FailPicked
    <2>5. Touches({t}) /\ NoWaitBegins
      BY <1>0, <2>3, <2>4, DoFailRunTouches
    <2>6. Reaches(home[t].usecase)
      BY <2>4, <2>5, ReachesIs
    <2> QED
      BY <2>6
  <1>4. ASSUME UpkeepAborts(u) PROVE \E v : Reaches(v)
    BY <1>1, <1>4 DEF UpkeepAborts
  <1>5. ASSUME NEW batch \in SUBSET Run, CancelsAged(u, batch) PROVE \E v : Reaches(v)
    <2>1. PICK gone \in SUBSET Task :
            \A t \in Task : t \in gone <=> \E r \in batch : runs[r].task = t
      <3>1. {t \in Task : \E r \in batch : runs[r].task = t} \in SUBSET Task
        OBVIOUS
      <3> QED
        BY <3>1
    <2>2. \A r \in batch : /\ runs[r].task \in Task
                           /\ home[runs[r].task].usecase = UsecaseOf[AppOf[u]]
      <3>1. \A r \in batch : runs[r].state \notin NoRow
        BY <1>5, CancelAgedIs DEF CancelsAged
      <3> QED
        BY <1>0, <1>5, <3>1, NoneAssumption
        DEF CancelsAged, In, TypeOK, WellFormed, RunRow, NoRow
    <2>3. Touches(gone) /\ NoWaitBegins
      BY <1>0, <1>5, <2>1, <2>2, CancelAgedTouches DEF CancelsAged
    <2>4. \A t \in gone : home[t].usecase = UsecaseOf[AppOf[u]]
      BY <2>1, <2>2
    <2>5. held' = held
      BY <1>5 DEF CancelsAged, CancelAged
    <2> QED
      BY <2>3, <2>4, <2>5, ReachesIs
  <1> QED
    BY <1>2, <1>3, <1>4, <1>5 DEF AppUpkeepStep

(* The command line names tasks of its usecase.                            *)
LEMMA CommandReaches ==
  ASSUME UInv, NEW a \in App, Command(a)
  PROVE  Reaches(UsecaseOf[a])
  <1>0. TypeOK
    BY DEF UInv, LifeInv, PromptInv
  <1>1. ASSUME NEW t \in Task, Cancels(a, t) PROVE Reaches(UsecaseOf[a])
    <2>1. Touches({t}) /\ NoWaitBegins /\ held' = held
      BY <1>0, <1>1, CancelTaskTouches DEF Cancels, CancelTask
    <2>2. home[t].usecase = UsecaseOf[a]
      BY <1>1 DEF Cancels, In
    <2> QED
      BY <2>1, <2>2, ReachesIs
  <1>2. ASSUME NEW batch \in SUBSET Task, CleansTasks(a, batch) PROVE Reaches(UsecaseOf[a])
    <2>1. Touches(batch) /\ NoWaitBegins /\ held' = held
      BY <1>0, <1>2, CleanupTouches DEF CleansTasks, CleanupTasks
    <2>2. \A t \in batch : home[t].usecase = UsecaseOf[a]
      BY <1>2 DEF CleansTasks, In
    <2> QED
      BY <2>1, <2>2, ReachesIs
  <1>3. ASSUME NEW names \in SUBSET EventName, CleansEvents(a, names)
        PROVE  Reaches(UsecaseOf[a])
    <2>1. UNCHANGED <<tasks, runs, held>>
      BY <1>3 DEF CleansEvents, CleanupEvents
    <2>2. Touches({}) /\ NoWaitBegins
      BY <1>0, <2>1, TouchesNothing
    <2> QED
      BY <2>1, <2>2, ReachesIs
  <1> QED
    BY <1>1, <1>2, <1>3, CommandSteps, EmitReaches

(* Each step reaches one usecase: that of the process whose step it is.    *)
LEMMA StepReaches ==
  ASSUME UInv, UNext
  PROVE  (\E h \in Home : Insert(h)) \/ (LaterNext /\ home' = home /\ \E v : Reaches(v))
  <1>0. TypeOK
    BY DEF UInv, LifeInv, PromptInv
  <1>1. ASSUME TimePasses PROVE \E v : Reaches(v)
    <2>1. /\ tasks' = tasks /\ held' = held
          /\ \A r \in Run : /\ runs'[r].task = runs[r].task
                            /\ runs'[r].state = runs[r].state
                            /\ runs'[r].attempt = runs[r].attempt
                            /\ runs'[r].wait = runs[r].wait
      BY <1>0, <1>1 DEF TimePasses, RunBecomesDue, ClaimLapses, TypeOK, RunRow
    <2>2. Touches({}) /\ NoWaitBegins
      BY <1>0, <2>1, TouchesNothing
    <2>3. \A v : Reaches(v)
      BY <2>1, <2>2, ReachesIs
    <2> QED
      BY <2>3
  <1>2. ASSUME NEW n \in EventName, EventStep(n) PROVE \E v : Reaches(v)
    BY <1>2, EventSteps, EmitReaches
  <1>3. ASSUME NEW a \in App, Command(a) PROVE \E v : Reaches(v)
    BY <1>3, CommandReaches
  <1>4. CASE \E n \in Name, k \in TaskOptions : Spawns(n, k)
    BY <1>4, Inserts
  <1>5. CASE ~\E n \in Name, k \in TaskOptions : Spawns(n, k)
    <2>1. \E v : Reaches(v)
      BY <1>1, <1>2, <1>3, <1>5, WorkerReaches, UpkeepReaches DEF UNext
    <2> QED
      BY <2>1, UsecasesSteps
  <1> QED
    BY <1>4, <1>5

----------------------------------------------------------------------------
(* The invariant *)

LEMMA UInvInit == UInit => UInv
  <1> SUFFICES ASSUME UInit PROVE UInv
    OBVIOUS
  <1>1. LifeInv /\ Init
    BY LifeInit DEF UInit
  <1>2. TypeOK /\ \A t \in Task : tasks[t].state = "absent" /\ home[t] = None
    BY <1>1 DEF LifeInv, PromptInv, UInit, Init
  <1>3. UTypeOK
    BY <1>2 DEF UTypeOK, UInit
  <1>4. KeysUnique
    BY <1>2 DEF KeysUnique, HasRow, NoRow
  <1>5. HeldIsOwn /\ WaitsAtHome
    BY <1>1 DEF HeldIsOwn, WaitsAtHome, Init, NoRun
  <1> QED
    BY <1>1, <1>3, <1>4, <1>5 DEF UInv

(* A task is inserted while no other row has its name and key.             *)
LEMMA UInvInsert ==
  ASSUME Deadlines, UInv, NEW h \in Home, Insert(h)
  PROVE  UInv'
  <1>1. PICK t \in Task, r \in Run : SpawnTask(t, r) /\ home' = [home EXCEPT ![t] = h]
    BY DEF Insert
  <1>2. PromptInv'
    <2>1. [Next]_vars
      BY <1>1 DEF Next, ClientStep, ClientTaskStep
    <2> QED
      BY <2>1, PromptStep DEF UInv, LifeInv
  <1>3. LifeInv'
    BY <1>1, <1>2, SpawnStep DEF UInv
  <1>4. TypeOK /\ TypeOK' /\ PromptInv
    BY <1>2 DEF UInv, LifeInv, PromptInv
  <1>5. /\ tasks[t].state = "absent" /\ tasks'[t].state = "pending"
        /\ \A u \in Task : u # t => tasks'[u] = tasks[u]
        /\ runs[r].state = "absent" /\ runs'[r].wait = None
        /\ \A s \in Run : s # r => runs'[s] = runs[s]
        /\ held' = held
    BY <1>1, <1>4 DEF SpawnTask, TypeOK, NewRun, NoRun
  <1>6. /\ home'[t] = h
        /\ \A u \in Task : u # t => home'[u] = home[u]
        /\ home' \in [Task -> Home \cup {None}]
    BY <1>1 DEF UInv, UTypeOK
  <1>7. UTypeOK'
    <2>1. ASSUME NEW u \in Task PROVE home'[u] = None <=> tasks'[u].state = "absent"
      <3>1. CASE u = t
        BY <1>5, <1>6, <3>1, AppAssumption
      <3>2. CASE u # t
        BY <1>5, <1>6, <3>2 DEF UInv, UTypeOK
      <3> QED
        BY <3>1, <3>2
    <2> QED
      BY <1>4, <1>6, <2>1 DEF UTypeOK
  <1>8. KeysUnique'
    <2> SUFFICES ASSUME NEW x \in Task, NEW y \in Task,
                        HasRow(x)', HasRow(y)', home'[x].key # None,
                        home'[x].key = home'[y].key, home'[x].name = home'[y].name
                 PROVE  x = y
      BY DEF KeysUnique
    <2>1. ~Taken(h)
      BY DEF Insert
    <2>2. \A u \in Task : u # t /\ HasRow(u)' => HasRow(u)
      BY <1>5 DEF HasRow
    <2>3. CASE x = t /\ y # t
      <3>1. HasRow(y)
        BY <2>2, <2>3
      <3>2. home[y].name = h.name /\ home[y].key = h.key /\ h.key # None
        BY <1>6, <2>3
      <3> QED
        BY <2>1, <3>1, <3>2 DEF Taken
    <2>4. CASE y = t /\ x # t
      <3>1. HasRow(x)
        BY <2>2, <2>4
      <3>2. home[x].name = h.name /\ home[x].key = h.key /\ h.key # None
        BY <1>6, <2>4
      <3> QED
        BY <2>1, <3>1, <3>2 DEF Taken
    <2>5. CASE x # t /\ y # t
      BY <1>6, <2>2, <2>5 DEF UInv, KeysUnique
    <2> QED
      BY <2>3, <2>4, <2>5
  <1>9. \A s \in Run : runs[s].task # t
    BY <1>4, <1>5, NoneAssumption DEF PromptInv, RowAgrees
  <1>10. HeldIsOwn'
    <2> SUFFICES ASSUME NEW w \in Worker, NEW s \in held'[w] PROVE Visible(w, s)'
      BY DEF HeldIsOwn
    <2>1. s \in held[w] /\ s \in Run /\ runs[s].state = "running"
      BY <1>4, <1>5 DEF PromptInv, HeldAgrees, TypeOK
    <2>2. runs[s].task \in Task /\ runs'[s].task = runs[s].task
      BY <1>4, <1>5, <2>1, ExecutedIsExecuting
    <2>3. home'[runs'[s].task] = home[runs[s].task]
      BY <1>6, <1>9, <2>1, <2>2
    <2>4. Visible(w, s)
      BY <2>1 DEF UInv, HeldIsOwn
    <2> QED
      BY <2>3, <2>4 DEF Visible, WorkerConfig
  <1>11. WaitsAtHome'
    <2> SUFFICES ASSUME NEW s \in Run, runs'[s].wait # None
                 PROVE  runs'[s].wait[1] = home'[runs'[s].task].usecase
      BY DEF WaitsAtHome
    <2>1. s # r /\ runs'[s] = runs[s]
      BY <1>5
    <2>2. runs[s].task \in Task /\ runs[s].task # t
      BY <1>4, <1>9, <2>1, NoneAssumption DEF TypeOK, WellFormed, RunRow
    <2> QED
      BY <1>6, <2>1, <2>2 DEF UInv, WaitsAtHome
  <1> QED
    BY <1>3, <1>7, <1>8, <1>10, <1>11 DEF UInv

(* Any other operation: rows may go, but none comes back.                  *)
LEMMA UInvLater ==
  ASSUME Deadlines, UInv, LaterNext \/ UNCHANGED vars, home' = home, NEW v, Reaches(v)
  PROVE  UInv'
  <1>1. LifeInv' /\ NoneBorn
    BY LifeLater, LaterSteps DEF UInv
  <1>2. TypeOK /\ PromptInv /\ TypeOK' /\ PromptInv'
    BY <1>1 DEF UInv, LifeInv, PromptInv
  <1>3. \A t \in Task : /\ tasks'[t].state = "absent" <=> tasks[t].state = "absent"
                        /\ tasks[t].state = "deleted" => tasks'[t].state = "deleted"
    <2>1. \A t \in Task : /\ tasks[t].state \in {"absent", "deleted", "pending", "sleeping",
                                                 "running", "completed", "cancelled"}
                          /\ tasks'[t].state \in {"absent", "deleted", "pending", "sleeping",
                                                  "running", "completed", "cancelled"}
      BY <1>1, <1>2 DEF TypeOK, TaskRow, TaskState, Active, Settled, NoRow, UInv, LifeInv
    <2>2. \A t \in Task : /\ PhaseOf(t) = "new" <=> tasks[t].state = "absent"
                          /\ PhaseOf(t) = "gone" <=> tasks[t].state = "deleted"
      BY <2>1 DEF PhaseOf
    <2>3. \A t \in Task : /\ PhaseOf(t)' = "new" <=> tasks'[t].state = "absent"
                          /\ PhaseOf(t)' = "gone" <=> tasks'[t].state = "deleted"
      BY <2>1 DEF PhaseOf
    <2> QED
      BY <1>1, <2>2, <2>3 DEF NoneBorn
  <1>4. UTypeOK'
    BY <1>2, <1>3 DEF UInv, UTypeOK
  <1>5. KeysUnique'
    <2>1. \A t \in Task : HasRow(t)' => HasRow(t)
      BY <1>3 DEF HasRow, NoRow
    <2> QED
      BY <2>1 DEF UInv, KeysUnique
  <1>6. PICK batch \in SUBSET Task :
          /\ \A t \in batch : home[t].usecase = v
          /\ Touches(batch)
          /\ \A r \in Run : \/ runs'[r].wait \in {None, runs[r].wait}
                            \/ runs'[r].wait[1] = v /\ runs'[r].task \in batch
          /\ \A w \in Worker : \A r \in held'[w] :
               r \in held[w] \/ (r \in Run /\ runs[r].task \in Task /\ Visible(w, r))
    BY DEF Reaches
  <1>7. TasksStay
    BY <1>6, TouchesStays
  <1>8. HeldIsOwn'
    <2> SUFFICES ASSUME NEW w \in Worker, NEW r \in held'[w] PROVE Visible(w, r)'
      BY DEF HeldIsOwn
    <2>1. Visible(w, r) /\ r \in Run /\ runs[r].task \in Task
      <3>1. CASE r \in held[w]
        <4>1. r \in Run /\ runs[r].state = "running"
          BY <1>2, <3>1 DEF PromptInv, HeldAgrees, TypeOK
        <4> QED
          BY <1>2, <3>1, <4>1, ExecutedIsExecuting DEF UInv, HeldIsOwn
      <3> QED
        BY <1>6, <3>1
    <2>2. runs'[r].task = runs[r].task
      BY <1>7, <2>1, NoneAssumption DEF TasksStay
    <2> QED
      BY <2>1, <2>2 DEF Visible, WorkerConfig
  <1>9. WaitsAtHome'
    <2> SUFFICES ASSUME NEW r \in Run, runs'[r].wait # None
                 PROVE  runs'[r].wait[1] = home[runs'[r].task].usecase
      BY DEF WaitsAtHome
    <2>1. CASE runs'[r].wait = runs[r].wait
      <3>1. runs[r].task # None
        BY <1>2, <2>1 DEF TypeOK, WellFormed
      <3> QED
        BY <1>7, <2>1, <3>1 DEF TasksStay, UInv, WaitsAtHome
    <2>2. CASE runs'[r].wait[1] = v /\ runs'[r].task \in batch
      BY <1>6, <2>2
    <2> QED
      BY <1>6, <2>1, <2>2
  <1> QED
    BY <1>1, <1>4, <1>5, <1>8, <1>9 DEF UInv

LEMMA UInvStep == ASSUME Deadlines, UInv, [UNext]_uvars PROVE UInv'
  <1>1. CASE UNext
    BY <1>1, StepReaches, UInvInsert, UInvLater
  <1>2. CASE UNCHANGED uvars
    <2>1. TypeOK
      BY DEF UInv, LifeInv, PromptInv
    <2>2. UNCHANGED <<vars, tasks, runs, held, home>>
      BY <1>2 DEF uvars, vars
    <2>3. Touches({}) /\ NoWaitBegins
      BY <2>1, <2>2, TouchesNothing
    <2>4. Reaches(None)
      BY <2>2, <2>3, ReachesIs
    <2> QED
      BY <2>2, <2>4, UInvLater
  <1> QED
    BY <1>1, <1>2

----------------------------------------------------------------------------
(* What is shown of a usecase *)

(* The usecase v gets rows, or its rows change; no other row does.         *)
Confined(v) ==
  \E batch \in SUBSET Task :
    /\ Touches(batch)
    /\ \A t \in batch : home'[t].usecase = v /\ home[t] \in {None, home'[t]}
    /\ \A t \in Task \ batch : home'[t] = home[t]

LEMMA StepConfined == ASSUME UInv, UNext PROVE \E v : Confined(v)
  <1>1. CASE \E h \in Home : Insert(h)
    <2>1. PICK h \in Home, t \in Task, r \in Run :
            SpawnTask(t, r) /\ home' = [home EXCEPT ![t] = h]
      BY <1>1 DEF Insert
    <2>2. TypeOK
      BY DEF UInv, LifeInv, PromptInv
    <2>3. /\ tasks[t].state = "absent" /\ runs[r].task = None /\ runs'[r].task = t
          /\ \A u \in Task : u # t => tasks'[u] = tasks[u]
          /\ \A s \in Run : s # r => runs'[s] = runs[s]
      BY <2>1, <2>2 DEF SpawnTask, TypeOK, WellFormed, NewRun, NoRun
    <2>4. Touches({t})
      BY <2>3 DEF Touches
    <2>5. /\ home'[t] = h /\ home[t] = None
          /\ \A u \in Task : u # t => home'[u] = home[u]
      BY <2>1, <2>3 DEF UInv, UTypeOK
    <2>6. Confined(h.usecase)
      BY <2>4, <2>5 DEF Confined
    <2> QED
      BY <2>6
  <1>2. CASE home' = home /\ \E v : Reaches(v)
    BY <1>2 DEF Reaches, Confined
  <1> QED
    BY <1>1, <1>2, StepReaches

(* A step that is confined to one usecase shows in no other.               *)
LEMMA ShownStays ==
  ASSUME UInv, UInv', NEW v, Confined(v), NEW u \in Usecase, u # v
  PROVE  Shown(u)' = Shown(u)
  <1>0. TypeOK /\ PromptInv
    BY DEF UInv, LifeInv, PromptInv
  <1>1. PICK batch \in SUBSET Task :
          /\ Touches(batch)
          /\ \A t \in batch : home'[t].usecase = v /\ home[t] \in {None, home'[t]}
          /\ \A t \in Task \ batch : home'[t] = home[t]
    BY DEF Confined
  <1>2. \A t \in batch : t \notin TaskList(u) /\ t \notin TaskList(u)'
    BY <1>1 DEF TaskList, HasRow, NoRow, UInv, UTypeOK
  <1>3. \A t \in Task \ batch : tasks'[t] = tasks[t] /\ home'[t] = home[t]
    BY <1>1 DEF Touches
  <1>4. TaskList(u)' = TaskList(u)
    BY <1>2, <1>3 DEF TaskList, HasRow
  <1>5. \A t \in TaskList(u) : tasks'[t] = tasks[t] /\ home'[t] = home[t]
    BY <1>2, <1>3 DEF TaskList
  <1>6. ListTask(u)' = ListTask(u)
    <2>1. \A t \in TaskList(u) : DumpTask(t)' = DumpTask(t)
      BY <1>5 DEF DumpTask
    <2> QED
      BY <1>4, <2>1 DEF ListTask
  <1>7. UpkeepMetric(u)' = UpkeepMetric(u)
    <2>1. \A c, state : TasksInState(u, c, state)' = TasksInState(u, c, state)
      <3> SUFFICES ASSUME NEW c, NEW state
                   PROVE  TasksInState(u, c, state)' = TasksInState(u, c, state)
        OBVIOUS
      <3> DEFINE S == {t \in TaskList(u) : home[t].channel = c /\ tasks[t].state = state}
      <3>1. S' = S
        BY <1>4, <1>5
      <3>2. /\ TasksInState(u, c, state) = Cardinality(S)
            /\ TasksInState(u, c, state)' = Cardinality(S')
        BY DEF TasksInState
      <3> HIDE DEF S
      <3> QED
        BY <3>1, <3>2
    <2> QED
      BY <2>1 DEF UpkeepMetric
  <1>8. \A r \in Run : r \in RunList(u) =>
          /\ runs[r].task \in Task /\ home[runs[r].task].usecase = u
          /\ runs[r].task \notin batch
    <2> SUFFICES ASSUME NEW r \in RunList(u)
                 PROVE  runs[r].task \in Task /\ runs[r].task \notin batch
      BY DEF RunList
    <2>1. runs[r].task \in Task /\ tasks[runs[r].task].state # "absent"
      BY <1>0, NoneAssumption DEF RunList, TypeOK, WellFormed, RunRow, NoRow, PromptInv, RowAgrees
    <2>2. home[runs[r].task] # None /\ home[runs[r].task].usecase = u
      BY <2>1 DEF UInv, UTypeOK, RunList
    <2> QED
      BY <1>1, <2>1, <2>2
  <1>9. ASSUME NEW r \in Run PROVE r \in RunList(u)' <=> r \in RunList(u)
    <2>1. CASE /\ runs'[r].task = runs[r].task /\ runs'[r].state = runs[r].state
               /\ runs[r].task \notin batch
      <3>1. runs[r].state \notin NoRow => runs[r].task \in Task
        BY <1>0, NoneAssumption DEF TypeOK, WellFormed, RunRow, NoRow
      <3> QED
        BY <1>3, <2>1, <3>1 DEF RunList
    <2>2. CASE runs'[r].task \in batch /\ runs[r].task \in {None, runs'[r].task}
      <3>1. r \notin RunList(u)
        <4>1. runs[r].task = None => runs[r].state = "absent"
          BY <1>0 DEF TypeOK, WellFormed
        <4> QED
          BY <1>8, <2>2, <4>1 DEF RunList, NoRow
      <3>2. r \notin RunList(u)'
        BY <1>1, <2>2 DEF RunList
      <3> QED
        BY <3>1, <3>2
    <2> QED
      BY <1>1, <2>1, <2>2 DEF Touches
  <1>10. RunList(u)' = RunList(u)
    BY <1>9 DEF RunList
  <1>11. \A r \in RunList(u) : DumpRun(r)' = DumpRun(r)
    <2> SUFFICES ASSUME NEW r \in RunList(u) PROVE DumpRun(r)' = DumpRun(r)
      OBVIOUS
    <2>1. r \in Run /\ runs[r].task \notin batch /\ runs[r].task # None
      BY <1>8, NoneAssumption DEF RunList
    <2> QED
      BY <1>1, <2>1 DEF Touches, DumpRun
  <1>12. ListRun(u)' = ListRun(u)
    BY <1>10, <1>11 DEF ListRun
  <1> QED
    BY <1>6, <1>7, <1>12 DEF Shown

LEMMA ApartStep ==
  ASSUME UInv, UInv', [UNext]_uvars
  PROVE  Cardinality({u \in Usecase : Shown(u)' # Shown(u)}) <= 1
  <1> DEFINE Changed == {u \in Usecase : Shown(u)' # Shown(u)}
  <1>1. \E v : Changed \subseteq {v}
    <2>1. CASE UNext
      <3>1. PICK v : Confined(v)
        BY <2>1, StepConfined
      <3>2. Changed \subseteq {v}
        BY <3>1, ShownStays
      <3> QED
        BY <3>2
    <2>2. CASE UNCHANGED uvars
      <3>1. \A u \in Usecase : Shown(u)' = Shown(u)
        BY <2>2 DEF uvars, vars, Shown, ListTask, ListRun, UpkeepMetric, TasksInState,
                    TaskList, RunList, DumpTask, DumpRun, HasRow
      <3> QED
        BY <3>1
    <2> QED
      BY <2>1, <2>2
  <1> HIDE DEF Changed
  <1>2. PICK v : Changed \subseteq {v}
    BY <1>1
  <1>3. IsFiniteSet({v}) /\ Cardinality({v}) = 1
    BY FS_Singleton
  <1>4. Cardinality(Changed) <= 1
    BY <1>2, <1>3, FS_Subset
  <1> QED
    BY <1>4 DEF Changed

----------------------------------------------------------------------------
(* The theorems *)

LEMMA UInvHolds == ASSUME Deadlines PROVE USpec => []UInv
  <1>1. UInv /\ [UNext]_uvars => UInv'
    BY UInvStep
  <1> QED
    BY <1>1, UInvInit, PTL DEF USpec

(* A worker executes only what its application and its channels let it     *)
(* claim: nothing that happens later gives it a run of another usecase     *)
(* (storage.rs:513).                                                       *)
THEOREM HeldIsOwnHolds == ASSUME Deadlines PROVE USpec => []HeldIsOwn
  <1>1. UInv => HeldIsOwn
    BY DEF UInv
  <1> QED
    BY <1>1, UInvHolds, PTL

(* "only one copy of a task can be scheduled at a time" (storage.rs:47):   *)
(* runs of tasks with the same name and idempotency key are not executed   *)
(* at the same time, whatever applications and commands do.                *)
THEOREM KeyExecutedOnceHolds == ASSUME Deadlines PROVE USpec => []KeyExecutedOnce
  <1>1. ASSUME UInv PROVE KeyExecutedOnce
    <2> SUFFICES ASSUME NEW v \in Worker, NEW w \in Worker,
                        NEW r \in held[v], NEW s \in held[w],
                        home[runs[r].task].key # None,
                        home[runs[r].task].key = home[runs[s].task].key,
                        home[runs[r].task].name = home[runs[s].task].name
                 PROVE  v = w /\ r = s
      BY DEF KeyExecutedOnce
    <2>1. PromptInv
      BY <1>1 DEF UInv, LifeInv
    <2>2. r \in Run /\ runs[r].state = "running" /\ s \in Run /\ runs[s].state = "running"
      BY <2>1 DEF PromptInv, HeldAgrees, TypeOK
    <2>3. /\ runs[r].task \in Task /\ HasRow(runs[r].task)
          /\ runs[s].task \in Task /\ HasRow(runs[s].task)
      BY <2>1, <2>2, ExecutedIsExecuting DEF HasRow, NoRow
    <2>4. runs[r].task = runs[s].task
      BY <1>1, <2>3 DEF UInv, KeysUnique
    <2> QED
      BY <2>1, <2>4, PromptInvSuffices DEF ExclusiveExecution
  <1> QED
    BY <1>1, UInvHolds, PTL

(* What the command line and the metrics of upkeep show of one usecase is  *)
(* not changed by what is done in another, one statement that reaches many *)
(* runs included (admin_storage.rs:85, storage.rs:513, 1268).              *)
THEOREM UsecasesApartHolds == ASSUME Deadlines PROVE USpec => UsecasesApart
  <1> DEFINE Apart == Cardinality({u \in Usecase : Shown(u)' # Shown(u)}) <= 1
  <1>1. UInv /\ UInv' /\ [UNext]_uvars => [Apart]_uvars
    BY ApartStep
  <1>2. USpec => [][UNext]_uvars
    BY PTL DEF USpec
  <1> QED
    BY <1>1, <1>2, UInvHolds, PTL DEF UsecasesApart
===============================================================================
