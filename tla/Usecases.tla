------------------------------ MODULE Usecases ------------------------------
(***************************************************************************)
(* Applications that share one database, over TaskStore: usecases,         *)
(* channels, registered task names and idempotency keys.  Each step is a   *)
(* TaskStore step of a process that was given a configuration, and is      *)
(* confined to what that configuration lets it touch.  The processes are   *)
(* applications in Rust (app.rs), Python (lib.rs) and asyncio Python       *)
(* (asynclib.rs), their workers and upkeep loops, and the command line.    *)
(*                                                                         *)
(* Left out are steps that there are only where deadlines are missed:      *)
(* ExtendClaim, which changes nothing with PromptWorkers, and the two      *)
(* steps of a cancellation by age without PromptCancels; and the `clear`   *)
(* command, which truncates the tables of all usecases one by one.         *)
(***************************************************************************)
EXTENDS TaskStoreLifecycle

CONSTANTS
  App,             \* application processes and command lines, by configuration
  Kind,            \* what each of them is: "rust", "python", "asyncio", "command"
  Usecase, Channel, Name, Key, EventName,
  UsecaseOf,       \* the usecase an application is configured with
  DefaultChannel,  \* its default_channel
  AddedChannels,   \* the channels it declares with add_channel
  Registered,      \* the task names it registers with register_task
  AppOf,           \* the application of each worker and upkeep loop
  Consumes,        \* the channels argument of create_worker
  Offered          \* bound of the model: what clients spawn

(* Of TaskOptions it is the idempotency key that matters here; there is    *)
(* none by default.                                                        *)
TaskOptions == Key \cup {None}

Home == [usecase : Usecase, channel : Channel, name : Name, key : TaskOptions]

ASSUME AppAssumption ==
  /\ Kind \in [App -> {"rust", "python", "asyncio", "command"}]
  /\ UsecaseOf \in [App -> Usecase] /\ DefaultChannel \in [App -> Channel]
  /\ AddedChannels \in [App -> SUBSET Channel] /\ Registered \in [App -> SUBSET Name]
  /\ AppOf \in [Worker \cup Upkeeper -> App]
  /\ Consumes \in [Worker -> SUBSET Channel]
  /\ Offered \subseteq Home
  /\ Event = Usecase \X EventName            \* the primary key of the table events
  /\ None \notin Home

VARIABLE home    \* the columns usecase, channel, task_name, idempotency_key of tasks

UTypeOK ==
  /\ TypeOK
  /\ home \in [Task -> Home \cup {None}]
  /\ \A t \in Task : home[t] = None <=> tasks[t].state = "absent"

UInit == Init /\ home = [t \in Task |-> None]

HasRow(t) == tasks[t].state \notin NoRow

In(t, a) == HasRow(t) /\ home[t].usecase = UsecaseOf[a]

----------------------------------------------------------------------------
(* Spawning *)

(* App::new starts from the default channel, add_channel adds others.      *)
Channels(a) == {DefaultChannel[a]} \cup AddedChannels[a]

(* channel() panics on a channel that is not declared. *)
HasChannel(a, c) == c \in Channels(a)

HasTask(a, n) == n \in Registered[a]

(* Mutant of Taken: a key is free again once its task has settled. *)
TakenWhileActive(h) ==
  /\ h.key # None
  /\ \E t \in Task : /\ tasks[t].state \in Active
                     /\ home[t].name = h.name /\ home[t].key = h.key

(* UNIQUE (task_name, idempotency_key): whatever the usecase and channel,  *)
(* and as long as the row is there.  NULL keys are distinct.               *)
Taken(h) ==
  /\ h.key # None
  /\ \E t \in Task : /\ HasRow(t)
                     /\ home[t].name = h.name /\ home[t].key = h.key

(* Storage::spawn_task; on a conflict it is rolled back: DuplicateSpawn.   *)
Insert(h) ==
  /\ h \in Offered /\ ~Taken(h)
  /\ \E t \in Task, r \in Run : SpawnTask(t, r) /\ home' = [home EXCEPT ![t] = h]

HomeIn(a, c, n, k) == [usecase |-> UsecaseOf[a], channel |-> c, name |-> n, key |-> k]

AppSpawn(a, n, k) ==
  /\ Kind[a] = "rust" /\ HasTask(a, n)
  /\ Insert(HomeIn(a, DefaultChannel[a], n, k))

ChannelSpawn(a, c, n, k) ==
  /\ Kind[a] = "rust" /\ HasChannel(a, c) /\ HasTask(a, n)
  /\ Insert(HomeIn(a, c, n, k))

(* In Python the name is checked, the channel is not. *)
PythonSpawn(a, c, n, k) ==
  /\ Kind[a] = "python" /\ HasTask(a, n)
  /\ Insert(HomeIn(a, c, n, k))

AsyncioSpawn(a, c, n, k) ==
  /\ Kind[a] = "asyncio" /\ HasTask(a, n)
  /\ Insert(HomeIn(a, c, n, k))

(* spawn-task of the command line checks neither; one copy of --repeat.    *)
CommandSpawn(a, c, n, k) ==
  /\ Kind[a] = "command"
  /\ Insert(HomeIn(a, c, n, k))

(* A task function of Rust spawns through its context. *)
ContextSpawn(w, c, n, k) ==
  LET a == AppOf[w]
  IN held[w] # {} /\ (AppSpawn(a, n, k) \/ ChannelSpawn(a, c, n, k))

Spawns(n, k) ==
  \E c \in Channel :
    \/ \E a \in App : \/ AppSpawn(a, n, k)
                      \/ ChannelSpawn(a, c, n, k)
                      \/ PythonSpawn(a, c, n, k)
                      \/ AsyncioSpawn(a, c, n, k)
                      \/ CommandSpawn(a, c, n, k)
    \/ \E w \in Worker : ContextSpawn(w, c, n, k)

----------------------------------------------------------------------------
(* Workers *)

(* create_worker *)
WorkerConfig(w) == [usecase |-> UsecaseOf[AppOf[w]], channels |-> Consumes[w]]

(* Mutant of Visible: the candidates of a claim are not those of a usecase. *)
VisibleInChannel(w, r) ==
  LET from == WorkerConfig(w).channels
  IN from = {} \/ home[runs[r].task].channel \in from

(* The conditions of the candidates of claim_task on usecase and channel.  *)
Visible(w, r) ==
  LET h == home[runs[r].task]
      from == WorkerConfig(w).channels
  IN /\ h.usecase = WorkerConfig(w).usecase
     /\ from = {} \/ h.channel \in from

Claims(w, batch) ==
  /\ ClaimTask(w, batch)
  /\ \A r \in batch : Visible(w, r)

(* execute_task finds a handler for the name of the task. *)
Handles(w, r) == HasTask(AppOf[w], home[runs[r].task].name)

Completes(w, r) == CompleteRun(w, r) /\ Handles(w, r)

Sleeps(w, r) == ScheduleRun(w, r) /\ Handles(w, r)

(* An event is looked up, and awaited, in the usecase of the worker.       *)
Awaits(w, r, n) == AwaitEvent(w, r, <<WorkerConfig(w).usecase, n>>) /\ Handles(w, r)

(* A task function fails, or there is none of that name. *)
Fails(w, r) ==
  \E new \in Run, delayed, tooOld \in BOOLEAN : FailRun(w, r, new, delayed, tooOld)

(* What becomes of a claim is the same statement in Rust and in Python.    *)
Settles(w, r) == Completes(w, r) \/ Sleeps(w, r) \/ Fails(w, r)

AppWorkerStep(w) ==
  \/ \E batch \in SUBSET Run : Claims(w, batch)
  \/ \E r \in Run : Settles(w, r) \/ \E n \in EventName : Awaits(w, r, n)
  \/ \E lost \in SUBSET Run : WorkerLoses(w, lost)

----------------------------------------------------------------------------
(* Events, from applications, task functions and the command line *)

Emits(a, n) == EmitEvent(<<UsecaseOf[a], n>>)

AppEmits(a, n) == Kind[a] = "rust" /\ Emits(a, n)

PythonEmits(a, n) == Kind[a] = "python" /\ Emits(a, n)

AsyncioEmits(a, n) == Kind[a] = "asyncio" /\ Emits(a, n)

CommandEmits(a, n) == Kind[a] = "command" /\ Emits(a, n)

(* A task function emits through its context, whatever its language.       *)
ContextEmits(w, n) == held[w] # {} /\ Emits(AppOf[w], n)

EventStep(n) ==
  \/ \E a \in App : AppEmits(a, n) \/ PythonEmits(a, n) \/ AsyncioEmits(a, n)
  \/ \E w \in Worker : ContextEmits(w, n)

----------------------------------------------------------------------------
(* Upkeep, the command line *)

Picks(u, r) == PickExpired(u, r) /\ In(runs[r].task, AppOf[u])

CancelsAged(u, batch) ==
  /\ CancelAged(u, batch)
  /\ \A r \in batch : In(runs[r].task, AppOf[u])

AppUpkeepStep(u) ==
  \/ \E r \in Run : Picks(u, r)
  \/ UpkeepFails(u)
  \/ UpkeepAborts(u)
  \/ \E batch \in SUBSET Run : CancelsAged(u, batch)

(* cancel-task: the error for a task of another usecase, or for one that   *)
(* is running, is logged and nothing more.                                 *)
Cancels(a, t) == In(t, a) /\ CancelTask(t)

CleansTasks(a, batch) ==
  /\ \A t \in batch : In(t, a)
  /\ CleanupTasks(batch)

(* The outer DELETE takes the names of the old events of the usecase and   *)
(* deletes the events of that name.                                        *)
CleansEvents(a, names) ==
  /\ \A n \in names : payload[<<UsecaseOf[a], n>>] # "absent"
  /\ CleanupEvents({e \in Event : e[2] \in names})

(* The commands that change rows, but for spawn-task and upkeep-worker.    *)
Command(a) ==
  /\ Kind[a] = "command"
  /\ \/ \E t \in Task : Cancels(a, t)
     \/ \E batch \in SUBSET Task : CleansTasks(a, batch)
     \/ \E names \in SUBSET EventName : CleansEvents(a, names)
     \/ \E n \in EventName : CommandEmits(a, n)

UNext ==
  \/ \E n \in Name, k \in TaskOptions : Spawns(n, k)
  \/ /\ \/ \E w \in Worker : AppWorkerStep(w)
        \/ \E n \in EventName : EventStep(n)
        \/ \E u \in Upkeeper : AppUpkeepStep(u)
        \/ \E a \in App : Command(a)
        \/ TimePasses
     /\ UNCHANGED home

uvars == <<vars, home>>

USpec == UInit /\ [][UNext]_uvars

----------------------------------------------------------------------------
(* What the command line shows, in a usecase *)

TaskList(u) == {t \in Task : HasRow(t) /\ home[t].usecase = u}

RunList(u) == {r \in Run : runs[r].state \notin NoRow /\ home[runs[r].task].usecase = u}

(* formatters::dump_task *)
DumpTask(t) ==
  [id |-> t, channel |-> home[t].channel, name |-> home[t].name,
   state |-> tasks[t].state, attempts |-> tasks[t].attempts]

(* formatters::dump_run *)
DumpRun(r) ==
  [id |-> r, task |-> runs[r].task, attempt |-> runs[r].attempt, state |-> runs[r].state]

ListTask(u) == {DumpTask(t) : t \in TaskList(u)}

ListRun(u) == {DumpRun(r) : r \in RunList(u)}

(* upkeep_metrics: the tasks of a usecase in each channel, by state. *)
TasksInState(u, c, state) ==
  Cardinality({t \in TaskList(u) : home[t].channel = c /\ tasks[t].state = state})

UpkeepMetric(u) ==
  [c \in Channel |->
     [state \in {"pending", "running", "sleeping"} |-> TasksInState(u, c, state)]]

Shown(u) == <<ListTask(u), ListRun(u), UpkeepMetric(u)>>

(* A usecase is alone in the database as far as its tasks go: a step       *)
(* changes what list-task, list-run and the metrics of upkeep show in one  *)
(* usecase at most, one claim or emit that reaches many runs included.     *)
UsecasesApart ==
  [][Cardinality({u \in Usecase : Shown(u)' # Shown(u)}) <= 1]_uvars

(* "By providing an idempotency_key only one copy of a task can be         *)
(* scheduled at a time" (storage.rs:47): while deadlines are met, no two   *)
(* runs that workers execute at the same time are of tasks with the same   *)
(* name and key, whatever was completed, cancelled, revived by an event or *)
(* cleaned up before.                                                      *)
KeyExecutedOnce ==
  \A v, w \in Worker : \A r \in held[v], s \in held[w] :
    LET g == home[runs[r].task]
        h == home[runs[s].task]
    IN g.key # None /\ g.key = h.key /\ g.name = h.name => v = w /\ r = s

(* A worker only ever executes what its application and channels let it    *)
(* claim (storage.rs:513): nothing changes hands, or home, afterwards.     *)
HeldIsOwn ==
  \A w \in Worker : \A r \in held[w] : Visible(w, r)
=============================================================================
