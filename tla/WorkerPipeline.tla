--------------------------- MODULE WorkerPipeline ---------------------------
(***************************************************************************)
(* One Rust worker process (run_worker in taskturbine-app/src/app.rs): the *)
(* claim loop, the bounded channel it feeds, the executors that empty it,  *)
(* the watch for idleness, and shutdown.                                   *)
(*                                                                         *)
(* TaskStore has what these do to the tables, with held[w] for everything  *)
(* the process has claimed; here is where in the process it is.  A claim   *)
(* is a number, in the order of claiming.  Futures are polled one after    *)
(* the other inside a step; a step ends where the code awaits, and, on a   *)
(* runtime with several threads, where another thread can come in between. *)
(***************************************************************************)
EXTENDS Naturals, FiniteSets, Sequences, SequencesExt

CONSTANTS
  Executor,    \* the process_task tasks, worker_concurrency of them
  ClaimCount,  \* claim_count of the worker
  IdleMax,     \* worker_shutdown_idle_max, with worker_shutdown_on_idle set
  ClaimBound,  \* bound of the model: runs that this worker claims
  None

ASSUME ExecutorAssumption == IsFiniteSet(Executor) /\ Executor # {}
ASSUME CountAssumption ==
  ClaimCount \in Nat \ {0} /\ IdleMax \in Nat \ {0} /\ ClaimBound \in Nat
ASSUME NothingAssumption == None \notin Nat

VARIABLES
  parallel,  \* the runtime has several threads; chosen at the start
  claimed,   \* how many runs this worker has claimed so far
  claimer,   \* where claim_tasks is
  batch,     \* its `claimed`
  idle,      \* idle_count, counted up to IdleMax
  chan,      \* the channel of claimed tasks
  closed,    \* a receiver has closed it
  exec,      \* where each process_task is
  doing,     \* the claim it executes
  finished,  \* claims whose execution returned and was recorded
  shutdown,  \* the shutdown guards are set
  checker    \* check_idle_shutdown is still running

pipe == <<chan, closed>>
executors == <<exec, doing, finished>>
claims == <<claimed, claimer, batch, idle>>
vars == <<parallel, claims, pipe, executors, shutdown, checker>>

ChannelBound == 2 * Cardinality(Executor)

Init ==
  /\ parallel \in BOOLEAN
  /\ claimed = 0
  /\ claimer = "select" /\ batch = <<>> /\ idle = 0
  /\ chan = <<>> /\ closed = FALSE
  /\ exec = [x \in Executor |-> "waiting"] /\ doing = [x \in Executor |-> None]
  /\ finished = {}
  /\ shutdown = FALSE /\ checker = TRUE

----------------------------------------------------------------------------
(* The claim loop.  At "select" no claim is under way.                     *)

(* The statement of claim_task is executed: it has found some runs, or     *)
(* none, and the rows are not here yet.                                    *)
ClaimExecuted ==
  /\ claimer = "select" /\ ~closed /\ ~shutdown
  /\ \E rows \in 0..ClaimCount :
       /\ claimed + rows <= ClaimBound
       /\ claimed' = claimed + rows
       /\ batch' = [i \in 1..rows |-> claimed + i]
  /\ claimer' = "claiming"
  /\ UNCHANGED <<parallel, idle, pipe, executors, shutdown, checker>>

(* idle_count after a claim, up to IdleMax: only whether it is reached is  *)
(* ever asked.                                                             *)
Counted(rows) ==
  IF rows = <<>> THEN (IF idle < IdleMax THEN idle + 1 ELSE idle) ELSE 0

(* Its rows are here, and nothing of higher priority is ready.             *)
ClaimReturned ==
  /\ claimer = "claiming" /\ ~closed /\ ~shutdown
  /\ idle' = Counted(batch)
  /\ claimer' = IF batch = <<>> THEN "sleeping" ELSE "pushing"
  /\ UNCHANGED <<parallel, claimed, batch, pipe, executors, shutdown, checker>>

(* It fails, before or after it was executed.  The pattern Ok(_) does not  *)
(* match, and the select goes on without this branch.                      *)
ClaimFailed ==
  /\ claimer \in {"select", "claiming"} /\ ~closed /\ ~shutdown
  /\ batch' = <<>>
  /\ claimer' = "failed"
  /\ UNCHANGED <<parallel, claimed, idle, pipe, executors, shutdown, checker>>

(* closed() or the guard ends the loop, and drops a claim under way.       *)
ClaimerStops ==
  /\ claimer \in {"select", "claiming", "failed"} /\ (closed \/ shutdown)
  /\ batch' = <<>>
  /\ claimer' = "stopped"
  /\ UNCHANGED <<parallel, claimed, idle, pipe, executors, shutdown, checker>>

ClaimerSlept ==
  /\ claimer = "sleeping"
  /\ claimer' = "select"
  /\ UNCHANGED <<parallel, claimed, batch, idle, pipe, executors, shutdown, checker>>

Room == Len(chan) < ChannelBound

(* Mutant of Unsent: the task that was sent is kept, and sent again.       *)
UnsentAndSent(tasks) == tasks

(* What is left of a batch once its last task was sent.                    *)
Unsent(tasks) == Front(tasks)

(* try_send of the last task of the batch, which is then popped.  When the *)
(* channel is full the loop sleeps and comes back, looking at nothing else.*)
Push ==
  /\ claimer = "pushing" /\ ~closed /\ Room
  /\ chan' = Append(chan, Last(batch))
  /\ batch' = Unsent(batch)
  /\ claimer' = IF batch' = <<>> THEN "select" ELSE "pushing"
  /\ UNCHANGED <<parallel, claimed, idle, closed, executors, shutdown, checker>>

PushClosed ==
  /\ claimer = "pushing" /\ closed
  /\ batch' = <<>>
  /\ claimer' = "stopped"
  /\ UNCHANGED <<parallel, claimed, idle, pipe, executors, shutdown, checker>>

----------------------------------------------------------------------------
(* The executors.  A turn polls recv, then a second recv for its error,    *)
(* then the guard.                                                         *)

(* Mutant of SecondReceives: another task can come in between on any       *)
(* runtime.                                                                *)
SecondReceivesAlways == BOOLEAN

(* Whether a task that was not there for the first recv can be there for   *)
(* the second, which drops it because it is no error.                      *)
SecondReceives == IF parallel THEN BOOLEAN ELSE {FALSE}

Receive(x) ==
  /\ exec[x] = "waiting" /\ chan # <<>>
  /\ chan' = Tail(chan)
  /\ \E dropped \in SecondReceives :
       /\ exec' = [exec EXCEPT ![x] = IF dropped THEN "waiting" ELSE "executing"]
       /\ doing' = [doing EXCEPT ![x] = IF dropped THEN None ELSE Head(chan)]
  /\ UNCHANGED <<parallel, claims, closed, finished, shutdown, checker>>

(* Mutant of Drained: the guard is looked at first.                        *)
DrainedOrNot == TRUE

(* There was nothing to receive before the guard is looked at, though with *)
(* several threads a task may have come since.                             *)
Drained == parallel \/ chan = <<>>

(* Mutant of ClosedByReceiver: the executor leaves the channel as it is.   *)
ClosedBySender == closed

ClosedByReceiver == TRUE

ExecutorStops(x) ==
  /\ exec[x] = "waiting"
  /\ \/ closed /\ chan = <<>>
     \/ shutdown /\ Drained
  /\ closed' = ClosedByReceiver
  /\ exec' = [exec EXCEPT ![x] = "stopped"]
  /\ UNCHANGED <<parallel, claims, chan, doing, finished, shutdown, checker>>

(* Mutant of NextTurn: process_task is a loop of one turn.                 *)
NextTurnNever == "stopped"

NextTurn == "waiting"

(* execute_task returns, whatever the outcome and whether or not it could  *)
(* be recorded.                                                            *)
Executed(x) ==
  /\ exec[x] = "executing"
  /\ finished' = finished \cup {doing[x]}
  /\ doing' = [doing EXCEPT ![x] = None]
  /\ exec' = [exec EXCEPT ![x] = NextTurn]
  /\ UNCHANGED <<parallel, claims, pipe, shutdown, checker>>

(* The task function panics, and process_task with it: nothing joins the   *)
(* set of executors or replaces one.                                       *)
Panics(x) ==
  /\ exec[x] = "executing"
  /\ exec' = [exec EXCEPT ![x] = "panicked"]
  /\ UNCHANGED <<parallel, claims, pipe, doing, finished, shutdown, checker>>

----------------------------------------------------------------------------
(* Shutdown, and the world outside. *)

(* should_shutdown holds: the completion of check_idle_shutdown departs.   *)
IdleReached ==
  /\ checker /\ ~shutdown /\ idle = IdleMax
  /\ checker' = FALSE /\ shutdown' = TRUE
  /\ UNCHANGED <<parallel, claims, pipe, executors>>

CheckerStops ==
  /\ checker /\ shutdown
  /\ checker' = FALSE
  /\ UNCHANGED <<parallel, claims, pipe, executors, shutdown>>

Signal ==
  /\ ~shutdown
  /\ shutdown' = TRUE
  /\ UNCHANGED <<parallel, claims, pipe, executors, checker>>

ClaimerStep ==
  ClaimExecuted \/ ClaimReturned \/ ClaimerStops \/ ClaimerSlept \/ Push \/ PushClosed

ExecutorStep(x) == Receive(x) \/ ExecutorStops(x) \/ Executed(x)

CheckerStep == IdleReached \/ CheckerStops

Next ==
  \/ ClaimerStep \/ ClaimFailed
  \/ \E x \in Executor : ExecutorStep(x) \/ Panics(x)
  \/ CheckerStep \/ Signal

(* The runtime polls every task that is ready, and executions return.      *)
Fairness ==
  /\ WF_vars(ClaimerStep)
  /\ \A x \in Executor : WF_vars(ExecutorStep(x))
  /\ WF_vars(CheckerStep)

Spec == Init /\ [][Next]_vars

FairSpec == Spec /\ Fairness

----------------------------------------------------------------------------
(* What the worker promises *)

ClaimerState == {"select", "claiming", "sleeping", "pushing", "failed", "stopped"}

(* The process is in a state of app.rs: the channel is within its bound,   *)
(* an executor has a claim exactly while it executes, and the claim loop   *)
(* has a batch only while it claims or pushes.                             *)
PTypeOK ==
  /\ parallel \in BOOLEAN /\ closed \in BOOLEAN
  /\ shutdown \in BOOLEAN /\ checker \in BOOLEAN
  /\ claimed \in 0..ClaimBound
  /\ claimer \in ClaimerState /\ idle \in 0..IdleMax
  /\ batch \in Seq(1..claimed)
  /\ batch # <<>> => claimer \in {"claiming", "pushing"}
  /\ claimer = "pushing" => batch # <<>>
  /\ chan \in Seq(1..claimed) /\ Len(chan) <= ChannelBound
  /\ exec \in [Executor -> {"waiting", "executing", "stopped", "panicked"}]
  /\ doing \in [Executor -> (1..claimed) \cup {None}]
  /\ \A x \in Executor : doing[x] # None <=> exec[x] \in {"executing", "panicked"}
  /\ finished \subseteq 1..claimed

InHand == Range(batch) \cup Range(chan) \cup {doing[x] : x \in Executor}

(* A claim is in one place: two executors never execute one claim, none is *)
(* executed again, and what is queued is queued once (app.rs:736-741).     *)
ExecutedOnce ==
  /\ IsInjective(batch \o chan)
  /\ \A x, y \in Executor : doing[x] = doing[y] /\ doing[x] # None => x = y
  /\ Range(batch \o chan) \cap ({doing[x] : x \in Executor} \cup finished) = {}
  /\ {doing[x] : x \in Executor} \cap finished = {}

(* Until the claim loop ends, everything the worker has claimed is on its  *)
(* way or done.  That is for a runtime of one thread: with more, the second*)
(* recv of process_task can swallow a task (app.rs:766).                   *)
NothingLost ==
  ~parallel /\ claimer \notin {"failed", "stopped"}
    => 1..claimed \subseteq InHand \cup finished

(* Shutdown leaves nothing in the channel: the executors stop when they    *)
(* have emptied it, and nothing is put in afterwards (app.rs:763-774).     *)
ChannelDrained ==
  ~parallel /\ (\E x \in Executor : exec[x] = "stopped") => chan = <<>>

(* What it has, for the rest of the system: a task that panicked is lost.  *)
Held == Range(batch) \cup Range(chan) \cup {doing[x] : x \in {y \in Executor : exec[y] = "executing"}}

(* A claim can be dropped on several threads, by a claim loop that fails   *)
(* or is told to stop, and by a task function that panics.                 *)
Promise == INSTANCE WorkerPromise WITH
  held <- Held,
  settled <- finished,
  trouble <- parallel \/ claimer \in {"failed", "stopped"} \/ \E x \in Executor : exec[x] = "panicked"

(* Every step does to the claims of the worker what TaskStore says a       *)
(* worker does: it claims, settles a claim it has and has not settled, or, *)
(* in trouble only, drops some (app.rs:714-775, 454).                      *)
KeepsPromise == Promise!PSpec

AllPanicked == \A x \in Executor : exec[x] = "panicked"

Ended ==
  /\ claimer = "stopped" /\ ~checker
  /\ \A x \in Executor : exec[x] \in {"stopped", "panicked"}

(* Once it is told to stop, or finds itself idle, the worker ends, even if *)
(* the channel is full, unless no executor is left (app.rs:742-752).       *)
ShutdownEnds == shutdown ~> Ended \/ AllPanicked

(* A claimed task is executed although tasks before it panic, claims fail  *)
(* or the worker is told to stop, if the claim loop has handed it over     *)
(* (app.rs:736, app.rs:764).                                               *)
QueuedIsExecuted ==
  \A n \in 1..ClaimBound :
    ~parallel /\ n \in Range(chan)
      ~> n \in finished \/ (\E x \in Executor : doing[x] = n /\ exec[x] = "panicked")
           \/ AllPanicked

----------------------------------------------------------------------------
(* What the repository says and the code does not do *)

(* "The `run_worker` function will run a worker loop until the process     *)
(* receives `SIGINT`, `SIGTERM` or `SIGKILL`" (taskturbine-app/README.md   *)
(* line 210): the loop comes back to claim_task again and again, until the *)
(* worker is told to stop or has no executor left.                         *)
KeepsClaiming == TRUE ~> claimer = "claiming" \/ shutdown \/ AllPanicked
=============================================================================
