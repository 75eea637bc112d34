---------------------------- MODULE PythonWorker ----------------------------
(***************************************************************************)
(* The threaded Python worker (taskturbine-python/python/taskturbine/      *)
(* worker.py): a thread that claims, the main thread that hands claims to  *)
(* a process pool and collects the results, and a thread that commits      *)
(* them, with a bounded queue between each two.                            *)
(*                                                                         *)
(* A claim is a number, in the order of claiming.  The binding holds the   *)
(* interpreter lock for the whole of a storage call                        *)
(* (taskturbine-python/src/lib.rs), so that such a call is one step.       *)
(***************************************************************************)
EXTENDS Naturals, FiniteSets, Sequences, SequencesExt

CONSTANTS
  Concurrency,  \* worker_concurrency: pool processes, queue sizes, batch size
  IdleMax,      \* worker_shutdown_idle_max, with worker_shutdown_on_idle set
  ClaimBound    \* bound of the model: runs that this worker claims

ASSUME ConcurrencyAssumption == Concurrency \in Nat \ {0} /\ ClaimBound \in Nat
ASSUME IdleAssumption == IdleMax \in Nat

VARIABLES
  claimed,      \* how many runs were claimed so far
  claimer,      \* where the claim thread is
  batch,        \* its claimed_tasks still to be put
  idle,         \* idle_count, counted up to IdleMax
  claimedTasks, \* _claimed_tasks
  main,         \* where the main thread is, in run() or shutdown()
  got,          \* this turn of run() has taken a claim
  inflight,     \* _inflight: futures of the pool
  look,         \* the futures that _poll_inflight has still to look at
  keep,         \* and those it keeps
  pool,         \* the process pool is there
  ready,        \* claims whose future is ready
  gone,         \* claims whose process died under them
  taskResults,  \* _task_results
  resulter,     \* where the result thread is
  taken,        \* results the result thread has taken
  shutdown      \* _shutdown

claims == <<claimed, claimer, batch, idle>>
turn == <<main, got, inflight, look, keep>>
processes == <<pool, ready, gone>>
commits == <<resulter, taken>>
vars == <<claims, claimedTasks, turn, processes, taskResults, commits, shutdown>>

Init ==
  /\ claimed = 0 /\ claimer = "loop" /\ batch = <<>> /\ idle = 0
  /\ claimedTasks = <<>> /\ taskResults = <<>>
  /\ main = "getting" /\ got = FALSE /\ inflight = <<>> /\ look = <<>> /\ keep = <<>>
  /\ pool = TRUE /\ ready = {} /\ gone = {}
  /\ resulter = "loop" /\ taken = {}
  /\ shutdown = FALSE

----------------------------------------------------------------------------
(* run_claim_thread *)

Full(queue) == Len(queue) >= Concurrency

(* Shutdown and the queue are looked at, and the last fetch is long enough *)
(* ago.                                                                    *)
ClaimerChecks ==
  /\ claimer = "loop" /\ ~shutdown /\ ~Full(claimedTasks)
  /\ claimer' = "claiming"
  /\ UNCHANGED <<claimed, batch, idle, claimedTasks, turn, processes,
                 taskResults, commits, shutdown>>

Idle(rows) == IF rows > 0 THEN 0 ELSE IF idle < IdleMax THEN idle + 1 ELSE idle

(* claim_tasks, which counts idle claims in the same call.                 *)
Claim ==
  /\ claimer = "claiming"
  /\ \E rows \in 0..Concurrency :
       /\ claimed + rows <= ClaimBound
       /\ claimed' = claimed + rows
       /\ batch' = [i \in 1..rows |-> claimed + i]
       /\ idle' = Idle(rows)
       /\ claimer' = IF rows > 0 THEN "putting" ELSE "loop"
  /\ UNCHANGED <<claimedTasks, turn, processes, taskResults, commits, shutdown>>

(* The exception of claim_tasks ends the thread. *)
ClaimFails ==
  /\ claimer = "claiming"
  /\ claimer' = "dead"
  /\ UNCHANGED <<claimed, batch, idle, claimedTasks, turn, processes,
                 taskResults, commits, shutdown>>

(* Mutant of Waiting: the queue holds one claim less than a batch may have. *)
WaitingTooSoon(queue) == Len(queue) + 1 < Concurrency

(* put() returns once there is room. *)
Waiting(queue) == ~Full(queue)

ClaimerPuts ==
  /\ claimer = "putting" /\ Waiting(claimedTasks)
  /\ claimedTasks' = Append(claimedTasks, Head(batch))
  /\ batch' = Tail(batch)
  /\ claimer' = IF Len(batch) = 1 THEN "loop" ELSE "putting"
  /\ UNCHANGED <<claimed, idle, turn, processes, taskResults, commits, shutdown>>

ClaimerStops ==
  /\ claimer = "loop" /\ shutdown
  /\ claimer' = "stopped"
  /\ UNCHANGED <<claimed, batch, idle, claimedTasks, turn, processes,
                 taskResults, commits, shutdown>>

----------------------------------------------------------------------------
(* The process pool (multiprocessing.Pool) and its Concurrency processes.  *)

Executing(n) ==
  /\ pool /\ n \in Range(inflight) \ (ready \cup gone)
  /\ Cardinality({m \in Range(inflight) \ (ready \cup gone) : m < n}) < Concurrency

TaskReturns(n) ==
  /\ Executing(n)
  /\ ready' = ready \cup {n}
  /\ UNCHANGED <<claims, claimedTasks, turn, pool, gone, taskResults, commits, shutdown>>

(* The process is killed: the pool replaces it, and the future is never    *)
(* ready.                                                                  *)
ProcessDies(n) ==
  /\ Executing(n)
  /\ gone' = gone \cup {n}
  /\ UNCHANGED <<claims, claimedTasks, turn, pool, ready, taskResults, commits, shutdown>>

----------------------------------------------------------------------------
(* The main thread: run(), a turn of which is a get, a poll, perhaps a     *)
(* sleep, and the decision to stop.                                        *)

(* apply_async of a claim, or queue.Empty. *)
Gets ==
  /\ main = "getting"
  /\ IF claimedTasks = <<>>
     THEN got' = FALSE /\ UNCHANGED <<claimedTasks, inflight>>
     ELSE /\ got' = TRUE
          /\ inflight' = Append(inflight, Head(claimedTasks))
          /\ claimedTasks' = Tail(claimedTasks)
  /\ main' = "polling" /\ look' = inflight' /\ keep' = <<>>
  /\ UNCHANGED <<claims, processes, taskResults, commits, shutdown>>

(* Mutants of StillRunning: a result is put and its future kept; a future  *)
(* that is looked at is forgotten.                                         *)
StillRunningAlways(n) == TRUE
StillRunningNever(n) == FALSE

StillRunning(n) == n \notin ready

(* _poll_inflight looks at one future after the other, and puts the result *)
(* of one that is ready on a queue that may have to be waited for.         *)
PollsOne ==
  /\ main = "polling" /\ look # <<>>
  /\ LET n == Head(look) IN
       /\ n \in ready => ~Full(taskResults)
       /\ taskResults' = IF n \in ready THEN Append(taskResults, n) ELSE taskResults
       /\ keep' = IF StillRunning(n) THEN Append(keep, n) ELSE keep
  /\ look' = Tail(look)
  /\ UNCHANGED <<claims, claimedTasks, main, got, inflight, processes, commits, shutdown>>

(* The futures that are not ready are in flight still.  In run() nothing   *)
(* to do means a sleep, and nothing in flight a look at the idle count;    *)
(* in shutdown() the poll is repeated until nothing is in flight.          *)
PollEnds ==
  /\ main = "polling" /\ look = <<>>
  /\ inflight' = keep /\ keep' = <<>>
  /\ IF shutdown
     THEN /\ main' = IF keep = <<>> THEN "ending" ELSE "polling"
          /\ look' = keep
     ELSE /\ main' = IF keep # <<>> THEN "getting" ELSE IF got THEN "deciding" ELSE "napping"
          /\ look' = <<>>
  /\ UNCHANGED <<claims, claimedTasks, got, processes, taskResults, commits, shutdown>>

NapEnds ==
  /\ main = "napping"
  /\ main' = "deciding"
  /\ UNCHANGED <<claims, claimedTasks, got, inflight, look, keep, processes,
                 taskResults, commits, shutdown>>

(* Nothing is in flight: should_shutdown.  Between the last put and this   *)
(* lies a sleep, or the idle fetches since the last claim: longer than the *)
(* result thread takes from queue.Empty to its look at shutdown.           *)
Decides ==
  /\ main = "deciding" /\ resulter # "empty"
  /\ main' = IF idle = IdleMax THEN "joining" ELSE "getting"
  /\ shutdown' = (idle = IdleMax)
  /\ UNCHANGED <<claims, claimedTasks, got, inflight, look, keep, processes,
                 taskResults, commits>>

(* An exception leaves run(): a KeyboardInterrupt, at any point, or an     *)
(* error of run_upkeep.  The with statement terminates the pool.           *)
Raises ==
  /\ main \in {"getting", "polling", "napping", "deciding"} /\ ~shutdown
  /\ main' = "raised" /\ pool' = FALSE
  /\ UNCHANGED <<claims, claimedTasks, got, inflight, look, keep, ready, gone,
                 taskResults, commits, shutdown>>

(* shutdown(), called by an exit handler of the application.               *)
ShutdownCalled ==
  /\ main = "raised"
  /\ main' = "joining" /\ shutdown' = TRUE
  /\ UNCHANGED <<claims, claimedTasks, got, inflight, look, keep, processes,
                 taskResults, commits>>

(* The claim thread has ended; the futures are polled until none is left.  *)
Joins ==
  /\ main = "joining" /\ claimer \in {"stopped", "dead"}
  /\ main' = "polling" /\ look' = inflight /\ keep' = <<>>
  /\ UNCHANGED <<claims, claimedTasks, got, inflight, processes, taskResults,
                 commits, shutdown>>

Returns ==
  /\ main = "ending" /\ resulter \in {"stopped", "dead"}
  /\ main' = "returned"
  /\ UNCHANGED <<claims, claimedTasks, got, inflight, look, keep, processes,
                 taskResults, commits, shutdown>>

----------------------------------------------------------------------------
(* run_result_thread *)

(* A result is taken and applied; when the storage refuses it, as it does  *)
(* for a run that lost its claim, the exception ends the thread.           *)
ResultTaken ==
  /\ resulter = "loop" /\ taskResults # <<>>
  /\ taskResults' = Tail(taskResults)
  /\ taken' = taken \cup {Head(taskResults)}
  /\ \E refused \in BOOLEAN : resulter' = IF refused THEN "dead" ELSE "loop"
  /\ UNCHANGED <<claims, claimedTasks, turn, processes, shutdown>>

(* Mutant of Drained: the thread stops with results in the queue.          *)
DrainedOrNot == TRUE

Drained == taskResults = <<>>

(* queue.Empty: the thread goes on to look at shutdown.                    *)
ResulterEmpty ==
  /\ resulter = "loop" /\ Drained
  /\ resulter' = "empty"
  /\ UNCHANGED <<claims, claimedTasks, turn, processes, taskResults, taken, shutdown>>

ResulterLooks ==
  /\ resulter = "empty"
  /\ resulter' = IF shutdown THEN "stopped" ELSE "loop"
  /\ UNCHANGED <<claims, claimedTasks, turn, processes, taskResults, taken, shutdown>>

----------------------------------------------------------------------------
Running == main # "returned"   \* the threads are daemons: they end with it

ClaimerStep == Running /\ (ClaimerChecks \/ Claim \/ ClaimerPuts \/ ClaimerStops)
MainStep ==
  Gets \/ PollsOne \/ PollEnds \/ NapEnds \/ Decides \/ ShutdownCalled \/ Joins \/ Returns
ResulterStep == Running /\ (ResultTaken \/ ResulterEmpty \/ ResulterLooks)

Next ==
  \/ ClaimerStep \/ (Running /\ ClaimFails)
  \/ MainStep \/ Raises
  \/ ResulterStep
  \/ \E n \in 1..ClaimBound : TaskReturns(n) \/ ProcessDies(n)

(* Each thread is scheduled, and tasks return.                             *)
Fairness ==
  /\ WF_vars(ClaimerStep) /\ WF_vars(MainStep) /\ WF_vars(ResulterStep)
  /\ \A n \in 1..ClaimBound : WF_vars(TaskReturns(n))

Spec == Init /\ [][Next]_vars

FairSpec == Spec /\ Fairness

----------------------------------------------------------------------------
(* What the worker promises *)

(* The queues are within their sizes, a thread has work in hand only where *)
(* it can, and the sets that only grow name claims that were made.         *)
WTypeOK ==
  /\ claimed \in 0..ClaimBound /\ idle \in 0..IdleMax
  /\ claimer \in {"loop", "claiming", "putting", "dead", "stopped"}
  /\ main \in {"getting", "polling", "napping", "deciding", "raised", "joining",
               "ending", "returned"}
  /\ resulter \in {"loop", "empty", "dead", "stopped"}
  /\ batch \in Seq(1..claimed) /\ (batch # <<>> <=> claimer = "putting")
  /\ claimedTasks \in Seq(1..claimed) /\ Len(claimedTasks) <= Concurrency
  /\ taskResults \in Seq(1..claimed) /\ Len(taskResults) <= Concurrency
  /\ inflight \in Seq(1..claimed) /\ look \in Seq(1..claimed) /\ keep \in Seq(1..claimed)
  /\ ready \subseteq 1..claimed /\ gone \subseteq 1..claimed /\ taken \subseteq ready
  /\ got \in BOOLEAN /\ pool \in BOOLEAN /\ shutdown \in BOOLEAN

(* The result of a task is committed once, and no claim is handed to the   *)
(* pool twice, unless an exception leaves run() in the middle of a poll    *)
(* (worker.py:401-410).                                                    *)
AppliedOnce ==
  /\ IsInjective(batch \o claimedTasks) /\ IsInjective(inflight)
  /\ Range(batch \o claimedTasks) \cap Range(inflight) = {}
  /\ pool => IsInjective(taskResults) /\ Range(taskResults) \cap taken = {}

(* Until shutdown everything that was claimed is on its way or committed:  *)
(* no queue and no turn of the poll drops a claim or a result              *)
(* (worker.py:221, worker.py:405).                                         *)
NothingLost ==
  ~shutdown => 1..claimed \subseteq
    Range(batch \o claimedTasks \o inflight \o taskResults) \cup taken

(* What it has, for the rest of the system: a claim is in a queue or in    *)
(* flight, and some futures stay in flight until the poll ends although    *)
(* their results were taken.                                               *)
Held == Range(batch \o claimedTasks \o inflight \o taskResults) \ (taken \cup gone)

Promise == INSTANCE WorkerPromise WITH
  held <- Held, settled <- taken, trouble <- gone # {}

(* Every step does to the claims of the worker what TaskStore says a       *)
(* worker does: it claims, settles a claim it has and has not settled, or  *)
(* drops one, whose process was killed.  (That a result which was taken is *)
(* taken again changes nothing here; see AppliedOnce.)  (worker.py:183-433)*)
KeepsPromise == Promise!PSpec

(* "Graceful shutdown drains all results" (worker.py:260): what a task has *)
(* returned is taken by the result thread, also when the worker stops for  *)
(* idleness meanwhile, as long as that thread lives and run() goes on.     *)
ReadyIsTaken ==
  \A n \in 1..ClaimBound :
    n \in ready /\ pool ~> n \in taken \/ resulter = "dead" \/ ~pool

(* shutdown() returns when run() found the worker idle and no claim was    *)
(* waiting to be handed to the pool: a last batch, claimed while shutdown  *)
(* was set, fits into the queue that nobody reads any more                 *)
(* (worker.py:412-433).                                                    *)
ShutdownReturns == main = "joining" /\ pool /\ claimedTasks = <<>> ~> main = "returned"
=============================================================================
