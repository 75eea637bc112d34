---------------------------- MODULE DurableSteps ----------------------------
(***************************************************************************)
(* The execution of a task function by a worker, over TaskStore: what      *)
(* TaskContext (taskturbine-app/src/context.rs) does between the claim of  *)
(* a run and its settlement.  A step leaves its result as a checkpoint; an *)
(* execution that comes after a crash, a failure or a sleep starts the     *)
(* function again and finds them.                                          *)
(*                                                                         *)
(* The task function is a fixed sequence of calls.  A function that        *)
(* branches on the results of its steps makes the same calls again as long *)
(* as it is given the same results, which is what is shown.                *)
(***************************************************************************)
EXTENDS TaskStore

CONSTANTS
  Program,   \* the calls of the task function: [kind, name]
  Length,    \* how many they are
  Value,     \* results of step functions
  Falsy,     \* those that are false in Python
  Python,    \* the workers written in Python: context.py, not context.rs
  Asyncio,   \* those among them that run on asyncio: asynclib.py
  LoadFails, \* TRUE: the query for the checkpoints may fail
  Suffixed(_, _), \* a name and a count, as the string "name#count"
  Slept,     \* what sleep_for records
  Empty      \* no bytes, which Python reads as None

Position == 1 .. Length

ASSUME LengthAssumption == Length \in Nat
ASSUME ProgramAssumption ==
  \A i \in Position :
    \/ Program[i].kind \in {"step", "sleep"}
    \/ Program[i].kind = "await" /\ Program[i].name \in Event
ASSUME ValueAssumption == None \notin Value \cup {Slept, Empty} /\ Falsy \subseteq Value
ASSUME PythonAssumption ==
  Asyncio \subseteq Python /\ Python \subseteq Worker /\ LoadFails \in BOOLEAN

VARIABLES
  saved,     \* table checkpoints: the steps and sleeps of each task
  exec,      \* the executions under way in each worker
  ran,       \* history: the steps of each task that were executed
  slept      \* history: the sleeps of each task that were scheduled

dvars == <<saved, exec, ran, slept>>

----------------------------------------------------------------------------
(* Names of checkpoints *)

Numbered == {i \in Position : Program[i].kind # "await"}

(* The first call with a name goes by that name.                           *)
FormatName(name, count) == IF count = 1 THEN name ELSE Suffixed(name, count)

(* Mutant of KeyOf: a name is used as it is. *)
KeyOfName(i) == Program[i].name

(* generate_name: the calls of a context with the same name are counted.   *)
KeyOf(i) ==
  FormatName(Program[i].name,
             Cardinality({j \in Numbered : j <= i /\ Program[j].name = Program[i].name}))

(* Two calls may still come out with one name: the second "x" and a step   *)
(* that is called "x#2".  This is what a program must not do, nor call a   *)
(* step "$awaitEvent:..." like the checkpoint of an event (those are in    *)
(* ckpts here, apart from the others).                                     *)
NamesApart == \A i, j \in Numbered : KeyOf(i) = KeyOf(j) => i = j

Key == {KeyOf(i) : i \in Numbered}

Recorded == Value \cup {Slept, Empty}

Blank == [k \in Key |-> None]

----------------------------------------------------------------------------
(* Executions *)

(* at:     the call that is next, or under way                             *)
(* phase:  nothing yet; the step function has returned; sleep_for has      *)
(*         found no checkpoint; sleep_for has returned Suspend             *)
(* loaded: the checkpoints of the task have been read into the cache       *)
Execution ==
  [at : 1 .. Length + 1, phase : {"call", "ran", "drowsy", "suspend"},
   loaded : BOOLEAN, cache : [Key -> Recorded \cup {None}],
   result : Value \cup {None}]

Idle == [at |-> 0]

NewContext ==
  [at |-> 1, phase |-> "call", loaded |-> FALSE, cache |-> Blank, result |-> None]

DTypeOK ==
  /\ TypeOK
  /\ saved \in [Task -> [Key -> Recorded \cup {None}]]
  /\ exec \in [Worker -> [Run -> Execution \cup {Idle}]]
  /\ \A w \in Worker, r \in Run : exec[w][r] # Idle => r \in held[w]
  /\ ran \in [Task -> SUBSET Position]
  /\ slept \in [Task -> SUBSET Position]

DInit ==
  /\ Init
  /\ saved = [t \in Task |-> Blank]
  /\ exec = [w \in Worker |-> [r \in Run |-> Idle]]
  /\ ran = [t \in Task |-> {}]
  /\ slept = [t \in Task |-> {}]

TaskOf(r) == runs[r].task

(* The execution of r by w is in the given phase of a call of that kind.   *)
Calling(w, r, kind, phase) ==
  /\ exec[w][r] # Idle /\ exec[w][r].phase = phase
  /\ exec[w][r].at \in Position /\ Program[exec[w][r].at].kind = kind

Here(w, r) == KeyOf(exec[w][r].at)

Continues(w, r, x) == exec' = [exec EXCEPT ![w][r] = x]

Ends(w, r) == exec' = [exec EXCEPT ![w][r] = Idle]

(* execute_task builds a context of its own for every claimed run.         *)
ExecuteTask(w, r) ==
  /\ r \in held[w] /\ exec[w][r] = Idle
  /\ Continues(w, r, NewContext)
  /\ UNCHANGED <<vars, saved, ran, slept>>

----------------------------------------------------------------------------
(* step, async_step *)

(* A step looks its checkpoint up in the cache, which is filled once; so   *)
(* does sleep_for in Python, while in Rust it asks the table each time.    *)
(* On asyncio the cache is never filled: get_checkpoint asks the table for *)
(* what set_checkpoint has not added.                                      *)
LooksInCache(w, r) ==
  /\ w \notin Asyncio
  /\ \/ Calling(w, r, "step", "call")
     \/ Calling(w, r, "sleep", "call") /\ w \in Python

(* Mutant of LoadCheckpoints: nothing is stored in the cache. *)
LoadNothing(w, r) ==
  /\ LooksInCache(w, r) /\ ~exec[w][r].loaded
  /\ Continues(w, r, [exec[w][r] EXCEPT !.loaded = TRUE])
  /\ UNCHANGED <<vars, saved, ran, slept>>

LoadCheckpoints(w, r) ==
  LET found == saved[TaskOf(r)]
      added == [k \in Key |-> IF found[k] # None THEN found[k] ELSE exec[w][r].cache[k]]
  IN /\ LooksInCache(w, r) /\ ~exec[w][r].loaded
     /\ Continues(w, r, [exec[w][r] EXCEPT !.loaded = TRUE, !.cache = added])
     /\ UNCHANGED <<vars, saved, ran, slept>>

(* asyncio: there is no such entry in the cache. *)
AskedTable(w, r) == w \in Asyncio /\ exec[w][r].cache[Here(w, r)] = None

(* The answer of the cache, or of the table when that is asked.            *)
Lookup(w, r) ==
  IF AskedTable(w, r) THEN saved[TaskOf(r)][Here(w, r)] ELSE exec[w][r].cache[Here(w, r)]

(* Checkpoints::is_loaded, where the cache is ever filled. *)
Answered(w, r) == exec[w][r].loaded \/ w \in Asyncio

(* When the checkpoints cannot be read, the error is taken in Python for   *)
(* the lack of a checkpoint; in Rust the execution fails (TaskFailed).     *)
NotFound(w, r) ==
  \/ Answered(w, r) /\ Lookup(w, r) = None
  \/ /\ w \in Python /\ LoadFails
     /\ ~exec[w][r].loaded /\ exec[w][r].cache[Here(w, r)] = None

StepCached(w, r) ==
  /\ Calling(w, r, "step", "call")
  /\ Answered(w, r) /\ Lookup(w, r) # None
  /\ Continues(w, r, [exec[w][r] EXCEPT !.at = @ + 1])
  /\ UNCHANGED <<vars, saved, ran, slept>>

(* The function of the step returns v.                                     *)
StepExecuted(w, r, v) ==
  /\ Calling(w, r, "step", "call") /\ NotFound(w, r)
  /\ Continues(w, r, [exec[w][r] EXCEPT !.phase = "ran", !.result = v])
  /\ ran' = [ran EXCEPT ![TaskOf(r)] = @ \cup {exec[w][r].at}]
  /\ UNCHANGED <<vars, saved, slept>>

(* A result that is false in Python (0, "", [], ...) is stored as no bytes. *)
Stored(w, v) == IF w \in Python /\ v \in Falsy THEN Empty ELSE v

(* set_checkpoint, which compares neither the owner nor the state of the   *)
(* run, and answers with what is in the table.                             *)
SetCheckpoint(w, r, state) ==
  saved' = [saved EXCEPT ![TaskOf(r)][Here(w, r)] = state]

(* Checkpoints::add *)
Cached(w, r, state) == [exec[w][r].cache EXCEPT ![Here(w, r)] = state]

(* Mutant of StepStored: the result is not added to the cache. *)
StepStoredOnly(w, r) ==
  LET x == exec[w][r]
  IN /\ Calling(w, r, "step", "ran")
     /\ SetCheckpoint(w, r, Stored(w, x.result))
     /\ Continues(w, r, [x EXCEPT !.phase = "call", !.at = @ + 1, !.result = None])
     /\ UNCHANGED <<vars, ran, slept>>

(* The cache is written after the table.                                   *)
StepStored(w, r) ==
  LET x == exec[w][r]
      state == Stored(w, x.result)
  IN /\ Calling(w, r, "step", "ran")
     /\ SetCheckpoint(w, r, state)
     /\ Continues(w, r, [x EXCEPT !.phase = "call", !.at = @ + 1, !.result = None,
                                  !.cache = Cached(w, r, state)])
     /\ UNCHANGED <<vars, ran, slept>>

----------------------------------------------------------------------------
(* sleep_for, await_event *)

SleepFound(w, r) ==
  IF w \in Python THEN Answered(w, r) /\ Lookup(w, r) # None
                  ELSE saved[TaskOf(r)][Here(w, r)] # None

SleepPassed(w, r) ==
  /\ Calling(w, r, "sleep", "call") /\ SleepFound(w, r)
  /\ Continues(w, r, [exec[w][r] EXCEPT !.at = @ + 1])
  /\ UNCHANGED <<vars, saved, ran, slept>>

SleepMissing(w, r) ==
  IF w \in Python THEN NotFound(w, r) ELSE saved[TaskOf(r)][Here(w, r)] = None

(* Mutant of SleepNotFound: the suspension comes before the checkpoint.    *)
SleepUnrecorded(w, r) ==
  /\ Calling(w, r, "sleep", "call") /\ SleepMissing(w, r)
  /\ Continues(w, r, [exec[w][r] EXCEPT !.phase = "suspend"])
  /\ UNCHANGED <<vars, saved, ran, slept>>

SleepNotFound(w, r) ==
  /\ Calling(w, r, "sleep", "call") /\ SleepMissing(w, r)
  /\ Continues(w, r, [exec[w][r] EXCEPT !.phase = "drowsy"])
  /\ UNCHANGED <<vars, saved, ran, slept>>

(* The cache is not told in Rust; in Python it is, and its execution ends. *)
SleepRecorded(w, r) ==
  /\ Calling(w, r, "sleep", "drowsy")
  /\ SetCheckpoint(w, r, Slept)
  /\ Continues(w, r, [exec[w][r] EXCEPT !.phase = "suspend"])
  /\ UNCHANGED <<vars, ran, slept>>

(* The worker schedules the run on the Suspend that sleep_for returned.    *)
SleepScheduled(w, r) ==
  /\ Calling(w, r, "sleep", "suspend")
  /\ ScheduleRun(w, r)
  /\ slept' = [slept EXCEPT ![TaskOf(r)] =
                 IF Suspendable(r) THEN @ \cup {exec[w][r].at} ELSE @]
  /\ Ends(w, r)
  /\ UNCHANGED <<saved, ran>>

EventRead(w, r, e) ==
  /\ <<TaskOf(r), e>> \in ckpts
  /\ Continues(w, r, [exec[w][r] EXCEPT !.at = @ + 1])
  /\ UNCHANGED vars

(* The worker drops the run when it is told to suspend. *)
EventWaited(w, r, e) ==
  /\ AwaitEvent(w, r, e)
  /\ IF payload[e] = "emitted"
     THEN Continues(w, r, [exec[w][r] EXCEPT !.at = @ + 1])
     ELSE Ends(w, r)

EventAwaited(w, r) ==
  LET e == Program[exec[w][r].at].name
  IN /\ Calling(w, r, "await", "call")
     /\ EventRead(w, r, e) \/ EventWaited(w, r, e)
     /\ UNCHANGED <<saved, ran, slept>>

----------------------------------------------------------------------------
(* The end of an execution *)

TaskCompleted(w, r) ==
  /\ exec[w][r] # Idle /\ exec[w][r].at = Length + 1
  /\ CompleteRun(w, r)
  /\ Ends(w, r)
  /\ UNCHANGED <<saved, ran, slept>>

(* The task is not registered, a step or the function itself fails, or a   *)
(* statement does.                                                         *)
TaskFailed(w, r, new, delayed, tooOld) ==
  /\ exec[w][r] # Idle => exec[w][r].phase # "suspend"
  /\ FailRun(w, r, new, delayed, tooOld)
  /\ Ends(w, r)
  /\ UNCHANGED <<saved, ran, slept>>

(* The process stops, or some of its executions do.                        *)
ExecutionsLost(w, lost) ==
  /\ WorkerLoses(w, lost)
  /\ exec' = [exec EXCEPT ![w] = [r \in Run |-> IF r \in lost THEN Idle ELSE @[r]]]
  /\ UNCHANGED <<saved, ran, slept>>

----------------------------------------------------------------------------
(* Everybody else *)

TasksCleanedUp(batch) ==
  /\ CleanupTasks(batch)
  /\ saved' = [t \in Task |-> IF t \in batch THEN Blank ELSE saved[t]]
  /\ UNCHANGED <<exec, ran, slept>>

Elsewhere ==
  /\ \/ \E w \in Worker, batch \in SUBSET Run : ClaimTask(w, batch)
     \/ \E u \in Upkeeper : UpkeepStep(u)
     \/ \E t \in Task, r \in Run : SpawnTask(t, r)
     \/ \E t \in Task : CancelTask(t)
     \/ \E e \in Event : EmitEvent(e)
     \/ \E batch \in (SUBSET Event) \ {{}} : CleanupEvents(batch)
     \/ TimePasses
  /\ UNCHANGED dvars

Executing(w, r) ==
  \/ ExecuteTask(w, r)
  \/ LoadCheckpoints(w, r)
  \/ StepCached(w, r)
  \/ \E v \in Value : StepExecuted(w, r, v)
  \/ StepStored(w, r)
  \/ SleepPassed(w, r)
  \/ SleepNotFound(w, r)
  \/ SleepRecorded(w, r)
  \/ SleepScheduled(w, r)
  \/ EventAwaited(w, r)
  \/ TaskCompleted(w, r)
  \/ \E new \in Run, delayed, tooOld \in BOOLEAN : TaskFailed(w, r, new, delayed, tooOld)

DNext ==
  \/ \E w \in Worker, r \in Run : Executing(w, r)
  \/ \E w \in Worker, lost \in SUBSET Run : ExecutionsLost(w, lost)
  \/ \E batch \in SUBSET Task : TasksCleanedUp(batch)
  \/ Elsewhere

DSpec == DInit /\ [][DNext]_<<vars, dvars>>

----------------------------------------------------------------------------
(* What is shown *)

(* "Once all checkpoints have been loaded, no further queries need to be   *)
(* made" (context.rs:122): while deadlines are met, the cache of an        *)
(* execution is what the table says, and an entry of a cache that is not   *)
(* filled (asynclib.rs:200) is never older than the table.                 *)
CacheCurrent ==
  \A w \in Worker, r \in Run :
    exec[w][r] # Idle /\ exec[w][r].phase # "suspend" =>
      \A k \in Key :
        exec[w][r].loaded \/ exec[w][r].cache[k] # None
          => exec[w][r].cache[k] = saved[TaskOf(r)][k]

(* The checkpoints of a step enable "re-runs of the task to durably resume *)
(* from their last completed step/checkpoint" (context.rs:189): while      *)
(* deadlines are met, the function of a step whose checkpoint is committed *)
(* is not executed again, by whatever attempt.                             *)
CommittedStepNotRepeated ==
  [][\A w \in Worker, r \in Run :
        Calling(w, r, "step", "call") /\ Calling(w, r, "step", "ran")'
          => saved[TaskOf(r)][Here(w, r)] = None]_<<vars, dvars>>

(* While deadlines are met, a checkpoint stays as it was committed until   *)
(* its task is cleaned up: no late attempt overwrites what another one has *)
(* been given.                                                             *)
ResultsStable ==
  [][\A t \in Task, k \in Key :
        saved[t][k] # None => saved'[t][k] = saved[t][k] \/ tasks'[t].state = "deleted"
    ]_<<vars, dvars>>

(* A task that is completed has executed every one of its steps, those     *)
(* with the same name included: generate_name (models.rs:346) counts them. *)
(* It is so for programs with NamesApart; of x, x, x#2 the third step      *)
(* takes the checkpoint of the second and is skipped.                      *)
EveryStepRan ==
  \A t \in Task : tasks[t].state = "completed" =>
    \A i \in Position : Program[i].kind = "step" => i \in ran[t]

(* A sleep that the task was put to sleep for is not slept again, by       *)
(* whatever attempt: sleep_for finds its checkpoint (context.rs:282-298).  *)
SleptOnce ==
  [][\A w \in Worker, r \in Run :
        SleepScheduled(w, r) /\ Suspendable(r)
          => exec[w][r].at \notin slept[TaskOf(r)]]_<<vars, dvars>>
==============================================================================
