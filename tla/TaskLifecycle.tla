---------------------------- MODULE TaskLifecycle ----------------------------
(***************************************************************************)
(* What taskturbine promises about a task while Deadlines (TaskStore) are  *)
(* met, without tables, runs, claims or locks: a task waits until one      *)
(* worker executes it, and only that worker, or the loss of that worker,   *)
(* ends the execution.  TaskStoreLifecycle shows that TaskStore implements *)
(* it.                                                                     *)
(***************************************************************************)
CONSTANTS Task, Worker, None

VARIABLES
  phase,    \* where each task is in its life
  holder    \* the worker that executes it

Phase == {"new", "waiting", "executing", "exhausted", "completed", "cancelled", "gone"}

LInit ==
  /\ phase = [t \in Task |-> "new"]
  /\ holder = [t \in Task |-> None]

(* The tasks of a set move to a phase in which nobody executes them. *)
Move(batch, to) ==
  /\ phase' = [t \in Task |-> IF t \in batch THEN to ELSE phase[t]]
  /\ holder' = [t \in Task |-> IF t \in batch THEN None ELSE holder[t]]

Spawn(t) == phase[t] = "new" /\ Move({t}, "waiting")

Claim(batch, w) ==
  /\ \A t \in batch : phase[t] = "waiting"
  /\ phase' = [t \in Task |-> IF t \in batch THEN "executing" ELSE phase[t]]
  /\ holder' = [t \in Task |-> IF t \in batch THEN w ELSE holder[t]]

(* The worker ends the execution: the task is done, waits for its next     *)
(* attempt or for an event, is too old to be retried, or has no attempt    *)
(* left, in which case it stays as it is until somebody looks after it.    *)
Settle(t, to) ==
  /\ phase[t] = "executing" /\ holder[t] # None
  /\ to \in {"completed", "waiting", "cancelled", "exhausted"}
  /\ Move({t}, to)

(* A worker leaves some of what it executes, or all when it stops. *)
Abandon(batch, w) ==
  /\ \A t \in batch : holder[t] = w
  /\ holder' = [t \in Task |-> IF t \in batch THEN None ELSE holder[t]]
  /\ UNCHANGED phase

(* Upkeep takes the task from a worker that is gone. *)
Recover(t, to) ==
  /\ phase[t] = "executing" /\ holder[t] = None
  /\ to \in {"waiting", "cancelled", "exhausted"}
  /\ Move({t}, to)

(* A task that nobody executes is cancelled: by a client, a completed one  *)
(* included, or with others because of their age.                          *)
Cancel(batch) ==
  /\ \A t \in batch : phase[t] \in {"waiting", "completed", "cancelled"}
  /\ Move(batch, "cancelled")

(* An event brings back cancelled tasks that were waiting for it. *)
Revive(batch) ==
  /\ \A t \in batch : phase[t] = "cancelled"
  /\ Move(batch, "waiting")

Delete(batch) ==
  /\ \A t \in batch : phase[t] \in {"completed", "cancelled"}
  /\ Move(batch, "gone")

LNext ==
  \/ \E t \in Task : Spawn(t)
  \/ \E batch \in SUBSET Task, w \in Worker : Claim(batch, w) \/ Abandon(batch, w)
  \/ \E t \in Task, to \in Phase : Settle(t, to) \/ Recover(t, to)
  \/ \E batch \in SUBSET Task : Cancel(batch) \/ Revive(batch) \/ Delete(batch)

LSpec == LInit /\ [][LNext]_<<phase, holder>>
==============================================================================
