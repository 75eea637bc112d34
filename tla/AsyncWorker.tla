----------------------------- MODULE AsyncWorker -----------------------------
(***************************************************************************)
(* The asyncio worker (AsyncWorker.run in taskturbine-python/python/       *)
(* taskturbine/asynclib.py, over the awaitables of src/asynclib.rs): one   *)
(* loop claims, starts a task for every claim, waits until the first of    *)
(* them is done, and settles what is.                                      *)
(*                                                                         *)
(* There is one thread: the tasks and the signal handler get their turn    *)
(* only where the loop awaits something.  A claim is a number, in the      *)
(* order of claiming.                                                      *)
(***************************************************************************)
EXTENDS Naturals, FiniteSets

CONSTANTS
  Concurrency,  \* worker_concurrency: concurrent_task_limit, and batch size
  ClaimBound    \* bound of the model: runs that this worker claims

ASSUME ConcurrencyAssumption == Concurrency \in Nat \ {0}
ASSUME ClaimAssumption == ClaimBound \in Nat

VARIABLES
  stopOnIdle,   \* the argument stop_on_idle of run()
  main,         \* what the loop does, or awaits
  claimed,      \* how many runs were claimed so far
  got,          \* this turn of the loop has claimed something
  missed,       \* last_claim_miss is less than a second ago
  pending,      \* _pending_tasks
  finished,     \* those of them whose coroutine has ended
  done,         \* the tasks of this turn still to be settled
  settled,      \* claims whose result was processed
  shutdown      \* _shutdown

claims == <<claimed, got, missed>>
tasks == <<pending, finished, done, settled>>
vars == <<stopOnIdle, main, claims, tasks, shutdown>>

Init ==
  /\ stopOnIdle \in BOOLEAN
  /\ main = "turn" /\ claimed = 0 /\ got = FALSE /\ missed = FALSE
  /\ pending = {} /\ finished = {} /\ done = {} /\ settled = {}
  /\ shutdown = FALSE

----------------------------------------------------------------------------
(* One turn of run() *)

(* Mutant of Drained: a signal is obeyed only by a worker that stops when  *)
(* it is idle.                                                             *)
DrainedIfIdleStops == shutdown /\ pending = {} /\ stopOnIdle

Drained == shutdown /\ pending = {}

ShutsDown ==
  /\ main = "turn" /\ Drained
  /\ main' = "returned"
  /\ UNCHANGED <<stopOnIdle, claims, tasks, shutdown>>

(* Mutant of HasRoom: off by one. *)
HasRoomForOne == Cardinality(pending) <= Concurrency

HasRoom == Cardinality(pending) < Concurrency

MayClaim == ~shutdown /\ HasRoom /\ ~missed

StartsClaim ==
  /\ main = "turn" /\ ~Drained /\ MayClaim
  /\ main' = "claiming"
  /\ UNCHANGED <<stopOnIdle, claims, tasks, shutdown>>

(* The loop waits if there is something to wait for. *)
AfterClaim(tasksPending) == IF tasksPending # {} THEN "waiting" ELSE "settled"

(* Nothing is claimed in this turn; with no task pending the loop comes    *)
(* round without having awaited anything.                                  *)
SkipsClaim ==
  /\ main = "turn" /\ ~Drained /\ ~MayClaim
  /\ got' = FALSE
  /\ main' = AfterClaim(pending)
  /\ UNCHANGED <<stopOnIdle, claimed, missed, tasks, shutdown>>

(* Mutant of Started: what is pending is forgotten. *)
StartedAlone(new) == new

Started(new) == pending \cup new

(* claim_tasks asks for Concurrency runs, however many are pending.        *)
ClaimReturns ==
  /\ main = "claiming"
  /\ \E rows \in 0 .. Concurrency :
       /\ claimed + rows <= ClaimBound
       /\ claimed' = claimed + rows
       /\ got' = (rows > 0)
       /\ missed' = (rows = 0)
       /\ pending' = Started(claimed + 1 .. claimed + rows)
  /\ main' = AfterClaim(pending')
  /\ UNCHANGED <<stopOnIdle, finished, done, settled, shutdown>>

(* asyncio.wait, with FIRST_COMPLETED.                                     *)
WaitEnds ==
  /\ main = "waiting" /\ finished # {}
  /\ done' = finished
  /\ pending' = pending \ finished
  /\ finished' = {}
  /\ main' = "settling"
  /\ UNCHANGED <<stopOnIdle, claims, settled, shutdown>>

(* _process_result, which the storage accepts. *)
Settles(n) ==
  /\ main = "settling" /\ n \in done
  /\ done' = done \ {n}
  /\ settled' = settled \cup {n}
  /\ main' = IF done' = {} THEN "settled" ELSE "settling"
  /\ UNCHANGED <<stopOnIdle, claims, pending, finished, shutdown>>

UpkeepStarts ==
  /\ main = "settled" /\ ~shutdown
  /\ main' = "upkeep"
  /\ UNCHANGED <<stopOnIdle, claims, tasks, shutdown>>

(* Mutant of IdleStop: tasks that are pending are not looked at. *)
IdleStopUnclaimed == ~got /\ stopOnIdle

IdleStop == ~got /\ pending = {} /\ stopOnIdle

(* Upkeep is done, or was not due.                                         *)
TurnEnds ==
  /\ main \in {"settled", "upkeep"}
  /\ main' = IF IdleStop THEN "returned" ELSE "turn"
  /\ UNCHANGED <<stopOnIdle, claims, tasks, shutdown>>

(* An exception leaves run(), and the tasks that are pending are           *)
(* cancelled: claim_tasks or run_upkeep fails; or the storage refuses a    *)
(* result; or a task ended with an exception that execute_task does not    *)
(* take, one of the error_handler for instance.                            *)
Raises ==
  /\ main \in {"claiming", "settling", "upkeep"}
  /\ main' = "raised"
  /\ UNCHANGED <<stopOnIdle, claims, tasks, shutdown>>

----------------------------------------------------------------------------
(* What happens while the loop awaits *)

Awaits == main \in {"claiming", "waiting", "settling", "upkeep"}

(* execute_task returns the outcome of a task, whatever it is. *)
TaskReturns(n) ==
  /\ Awaits /\ n \in pending \ finished
  /\ finished' = finished \cup {n}
  /\ UNCHANGED <<stopOnIdle, main, claims, pending, done, settled, shutdown>>

(* SIGINT or SIGTERM *)
Signal ==
  /\ Awaits /\ ~shutdown
  /\ shutdown' = TRUE
  /\ UNCHANGED <<stopOnIdle, main, claims, tasks>>

(* Mutant of MissForgotten: one claim that finds nothing is the last. *)
MissKept == FALSE

MissForgotten == missed

SecondPasses ==
  /\ MissForgotten
  /\ missed' = FALSE
  /\ UNCHANGED <<stopOnIdle, main, claimed, got, tasks, shutdown>>

----------------------------------------------------------------------------
LoopStep ==
  \/ ShutsDown
  \/ StartsClaim
  \/ SkipsClaim
  \/ ClaimReturns
  \/ WaitEnds
  \/ \E n \in done : Settles(n)
  \/ TurnEnds

Next ==
  \/ LoopStep
  \/ UpkeepStarts
  \/ Raises
  \/ \E n \in pending : TaskReturns(n)
  \/ Signal
  \/ SecondPasses

(* The loop goes on, tasks return, and time passes. *)
Fairness ==
  /\ WF_vars(LoopStep)
  /\ \A n \in 1 .. ClaimBound : WF_vars(TaskReturns(n))
  /\ WF_vars(SecondPasses)

Spec == Init /\ [][Next]_vars

FairSpec == Spec /\ Fairness

----------------------------------------------------------------------------
(* What is shown *)

ATypeOK ==
  /\ stopOnIdle \in BOOLEAN /\ shutdown \in BOOLEAN
  /\ main \in {"turn", "claiming", "waiting", "settling", "settled", "upkeep",
               "returned", "raised"}
  /\ claimed \in 0 .. ClaimBound /\ got \in BOOLEAN /\ missed \in BOOLEAN
  /\ pending \subseteq 1 .. claimed /\ finished \subseteq pending
  /\ done \subseteq 1 .. claimed /\ settled \subseteq 1 .. claimed
  /\ main = "waiting" => pending # {}
  /\ main = "settling" => done # {}

(* Every claim is in one place: pending, to be settled, or settled.  No    *)
(* turn of the loop loses a task or settles it twice                       *)
(* (asynclib.py:492-503).                                                  *)
EachClaimOnce ==
  /\ pending \cup done \cup settled = 1 .. claimed
  /\ pending \cap done = {} /\ (pending \cup done) \cap settled = {}

(* The tasks at work: with room for one more, a whole batch is claimed, so *)
(* that there can be almost twice as many as worker_concurrency            *)
(* (asynclib.py:482, asynclib.rs:334), and never more.                     *)
InFlightBound == Cardinality(pending) < 2 * Concurrency

(* "the worker will stop claiming new tasks and attempt to complete all    *)
(* inflight tasks" (asynclib.py:455): when run() returns, for a signal or  *)
(* for idleness, every claim has been settled.                             *)
ReturnsSettled == main = "returned" => settled = 1 .. claimed

(* What it has, for the rest of the system: an exception that leaves run() *)
(* costs the worker its claims, and nothing else does.                     *)
Held == IF main = "raised" THEN {} ELSE pending \cup done

Promise == INSTANCE WorkerPromise WITH held <- Held, trouble <- main = "raised"

(* Every step does to the claims of the worker what TaskStore says a       *)
(* worker does: it claims, settles a claim it has and has not settled, or, *)
(* when run() raises, drops them (asynclib.py:474-512).                    *)
KeepsPromise == Promise!PSpec

(* After a signal run() ends, however many tasks are pending               *)
(* (asynclib.py:474).                                                      *)
ShutdownEnds == shutdown ~> main \in {"returned", "raised"}

(* As long as it runs, the worker claims again: neither an empty claim nor *)
(* tasks that take long keep it from claiming for good (asynclib.py:480).  *)
KeepsClaiming == []<>(main \in {"claiming", "returned", "raised"})
=============================================================================
