---------------------------- MODULE AdminQueries ----------------------------
(***************************************************************************)
(* What get-task of the command line shows of a task while workers execute *)
(* it: AdminStorage::task_get (taskturbine-cli/src/admin_storage.rs) asks  *)
(* for the task, its runs and its checkpoints with three statements that   *)
(* share no transaction, so that the answer is of three moments.           *)
(***************************************************************************)
EXTENDS DurableSteps

VARIABLE view   \* TaskDetails, as far as it has been read

(* read:      how many tables have been read                               *)
(* completed: the task is shown completed                                  *)
(* active:    a run is shown that is still to be executed, or under way    *)
(* missing:   the checkpoint of a step or a sleep is not shown             *)
TaskDetails ==
  [task : Task, read : 0 .. 3, completed : BOOLEAN, active : BOOLEAN, missing : BOOLEAN]

NoView == [read |-> 0]

Asked(t) ==
  [task |-> t, read |-> 0, completed |-> FALSE, active |-> FALSE, missing |-> FALSE]

AInit == DInit /\ view = NoView

(* Mutant of Tables: the row of the task is read last. *)
TaskLast == <<"checkpoints", "runs", "tasks">>

(* The order of the statements of task_get. *)
Tables == <<"tasks", "runs", "checkpoints">>

TaskGet(t) == view = NoView /\ view' = Asked(t)

Reads(table) == view # NoView /\ view.read < 3 /\ Tables[view.read + 1] = table

(* fetch_one fails, and the command with it, when there is no such task.   *)
ReadsTask ==
  LET state == tasks[view.task].state
  IN /\ Reads("tasks")
     /\ view' = IF state \in NoRow
                THEN NoView
                ELSE [view EXCEPT !.read = @ + 1, !.completed = (state = "completed")]

ReadsRuns ==
  LET active == {r \in Run : runs[r].task = view.task /\ runs[r].state \in Active}
  IN /\ Reads("runs")
     /\ view' = [view EXCEPT !.read = @ + 1, !.active = (active # {})]

ReadsCheckpoints ==
  LET missing == {k \in Key : saved[view.task][k] = None}
  IN /\ Reads("checkpoints")
     /\ view' = [view EXCEPT !.read = @ + 1, !.missing = (missing # {})]

(* formatters::dump_task, dump_run, dump_checkpoint *)
Dumps == view # NoView /\ view.read = 3 /\ view' = NoView

Queries ==
  /\ \/ \E t \in Task : TaskGet(t)
     \/ ReadsTask
     \/ ReadsRuns
     \/ ReadsCheckpoints
     \/ Dumps
  /\ UNCHANGED <<vars, dvars>>

ANext == (DNext /\ UNCHANGED view) \/ Queries

ASpec == AInit /\ [][ANext]_<<vars, dvars, view>>

----------------------------------------------------------------------------
(* While deadlines are met, what get-task shows as completed it shows      *)
(* complete, though it was read in pieces while workers went on: no run    *)
(* that is still to be executed, and the checkpoint of every step and      *)
(* sleep; unless the task was cleaned up in between.                       *)
ShownComplete ==
  view # NoView /\ view.read = 3 /\ view.completed
    => tasks[view.task].state = "deleted" \/ (~view.active /\ ~view.missing)
=============================================================================
