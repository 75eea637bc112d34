------------------------- MODULE TaskStoreProperties -------------------------
(***************************************************************************)
(* What TaskStore promises, whatever workers, upkeep loops and clients do, *)
(* what it promises while deadlines are met, and what the repository says  *)
(* of it that does not hold.                                               *)
(***************************************************************************)
EXTENDS TaskStore

----------------------------------------------------------------------------
(* In every execution (with events: EventTransactions has RetryBound, and  *)
(* NoMissedEvent)                                                          *)

AllRunsOf(t) == {r \in Run : runs[r].task = t}

(* "The maximum number of attempts to make on this task" (storage.rs:56):  *)
(* however many workers and upkeep loops fail the runs of a task, several  *)
(* times the same one included, it never gets more runs than max_attempts. *)
RetryBound ==
  \A t \in Task : Cardinality(AllRunsOf(t)) <= MaxOf(1, MaxAttempts)

Abandoned(r) == runs[r].state = "running" /\ \A w \in Worker : r \notin held[w]

(* A run whose worker stopped is taken from it in the end: its claim       *)
(* lapses and upkeep fails it (handle_expired_claims), so that the task is *)
(* retried if attempts remain.                                             *)
AbandonedRunRecovered == \A r \in Run : Abandoned(r) ~> runs[r].state # "running"

----------------------------------------------------------------------------
(* While deadlines are met *)

(* A task has at most one run that is pending, running or sleeping.        *)
OneActiveRun ==
  \A r, s \in Run :
    /\ runs[r].state \in Active /\ runs[s].state \in Active
    /\ runs[r].task = runs[s].task
    => r = s

(* "we can assume that the current process has exclusive access"           *)
(* (context.rs:123): a task is executed by one worker at a time.           *)
ExclusiveExecution ==
  \A v, w \in Worker : \A r \in held[v], s \in held[w] :
    runs[r].task = runs[s].task => v = w /\ r = s

(* A worker never executes a run that is no longer its own: what it        *)
(* executes is running and claimed by it.                                  *)
HeldIsRunning ==
  \A w \in Worker : \A r \in held[w] : runs[r].state = "running" /\ runs[r].owner = w

(* A task that waits to be run has a run that can be claimed.              *)
WaitingTaskHasRun ==
  \A t \in Task : tasks[t].state \in {"pending", "sleeping"} =>
    \E r \in Run : runs[r].task = t /\ runs[r].state \in Active

(* A run that can still be executed, or that an event can put back in the  *)
(* queue.                                                                  *)
Live(r) == runs[r].state \in Active \/ runs[r].wait # None

(* A task that is over has no run to execute and none that an event could  *)
(* put back in the queue.                                                  *)
OverTask(t) ==
  /\ tasks[t].state \in {"completed", "cancelled", "deleted"}
  /\ \A r \in Run : runs[r].task = t => ~Live(r)

(* A task that is over stays over: it is brought back by nothing, be it an *)
(* event, upkeep that acts on what it read before, or a worker that is     *)
(* late (storage.rs:632, 747, 1289).  A cancelled task that waited for an  *)
(* event is not over in this sense.                                        *)
OverStaysOver == [][\A t \in Task : OverTask(t) => OverTask(t)']_vars

(* The inductive invariant behind the properties above.                    *)

(* One of the runs of a task at most is live: what completes, fails or     *)
(* suspends it leaves none or one.                                         *)
OneLiveRun ==
  \A r, s \in Run : Live(r) /\ Live(s) /\ runs[r].task = runs[s].task => r = s

(* A row agrees with its task, and what is not running is not claimed.     *)
RowAgrees(r) ==
  /\ runs[r].task # None => tasks[runs[r].task].state # "absent"
  /\ runs[r].state = "running" => tasks[runs[r].task].state = "running"
  /\ runs[r].wait # None => runs[r].state \in {"sleeping", "cancelled"}
  /\ runs[r].state = "sleeping" /\ runs[r].wait # None => ~runs[r].due
  /\ runs[r].state \in Active /\ runs[r].claim # "none" => runs[r].state = "running"

HeldAgrees ==
  \A w \in Worker : \A r \in held[w] :
    runs[r].state = "running" /\ runs[r].owner = w /\ runs[r].claim = "held"

PickedAgrees ==
  \A u \in Upkeeper : picked[u] # None =>
    runs[picked[u]].state = "running" /\ runs[picked[u]].claim = "lapsed"

PromptInv ==
  /\ TypeOK
  /\ \A r \in Run : RowAgrees(r)
  /\ OneLiveRun
  /\ HeldAgrees
  /\ PickedAgrees
  /\ PromptCancels => \A u \in Upkeeper : aged[u] = {}

----------------------------------------------------------------------------
(* What the repository says and the code does not do *)

(* "When the task was completed/failed/cancelled" (migrations/0001:28),    *)
(* and "The uniqueness constraint will end when the task is cleaned up     *)
(* after completion/failure" (storage.rs:49): a task with no run left to   *)
(* execute is settled.                                                     *)
SpentTaskSettles ==
  \A t \in Task :
    /\ AllRunsOf(t) # {}
    /\ \A r \in AllRunsOf(t) : runs[r].state \in Settled
    => tasks[t].state \in Settled

(* "Cancel a task and any run that is pending or sleeping"                 *)
(* (storage.rs:790): a cancelled task is not put back in the queue.        *)
CancelledStaysCancelled ==
  [][\A t \in Task : tasks[t].state = "cancelled" =>
        tasks'[t].state \in {"cancelled", "deleted"}]_vars
==============================================================================
