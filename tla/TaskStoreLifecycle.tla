-------------------------- MODULE TaskStoreLifecycle --------------------------
(***************************************************************************)
(* TaskStore as an implementation of TaskLifecycle, while Deadlines are    *)
(* met: one of them is that no run is claimed while max-age cancellation   *)
(* acts on what it has read, which would end an execution otherwise.       *)
(***************************************************************************)
EXTENDS TaskStoreProperties

(* A task row that is running has a run that is, unless its attempts are   *)
(* used up: do_fail_run leaves it as it is then.                           *)
HasActiveRun(t) == \E r \in Run : runs[r].task = t /\ runs[r].state \in Active

PhaseOf(t) ==
  CASE tasks[t].state = "absent" -> "new"
    [] tasks[t].state \in {"pending", "sleeping"} -> "waiting"
    [] tasks[t].state = "running" /\ HasActiveRun(t) -> "executing"
    [] tasks[t].state = "running" /\ ~HasActiveRun(t) -> "exhausted"
    [] tasks[t].state = "deleted" -> "gone"
    [] OTHER -> tasks[t].state

Executes(w, t) == \E r \in held[w] : runs[r].task = t

HolderOf(t) ==
  IF \E w \in Worker : Executes(w, t)
  THEN CHOOSE w \in Worker : Executes(w, t)
  ELSE None

Lifecycle == INSTANCE TaskLifecycle WITH
  phase <- [t \in Task |-> PhaseOf(t)],
  holder <- [t \in Task |-> HolderOf(t)]

(* While Deadlines are met, each transaction of workers, upkeep and clients *)
(* is, for the tasks, one step of that life or none at all: nobody but     *)
(* its holder ends an execution, a late worker ends none, and what is      *)
(* completed or cancelled is not executed again unless an event brings it  *)
(* back (storage.rs:513-623, 746-789, 1289-1320).                          *)
ImplementsLifecycle == Lifecycle!LSpec

(***************************************************************************)
(* The inductive invariant behind it: with PromptInv, an event only finds  *)
(* runs of tasks that are waiting or cancelled, a task that waits has a    *)
(* run, and the row of a task is never set to 'failed'.                    *)
(***************************************************************************)
WaitersAgree ==
  \A r \in Run : runs[r].wait # None
    => tasks[runs[r].task].state \in {"pending", "sleeping", "cancelled"}

LifeInv ==
  /\ PromptInv
  /\ WaitersAgree
  /\ WaitingTaskHasRun
  /\ \A t \in Task : tasks[t].state # "failed"
===============================================================================
