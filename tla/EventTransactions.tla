-------------------------- MODULE EventTransactions --------------------------
(***************************************************************************)
(* await_event and emit_event of Storage, statement by statement.          *)
(*                                                                         *)
(* TaskStore takes each of the two for one atomic step while deadlines are *)
(* met.  Here they are the transactions of several SQL statements that the *)
(* code sends, at READ COMMITTED, interleaved with each other and with the *)
(* other operations, whatever the deadlines.                               *)
(* The tables (the variables of TaskStore) hold what is committed; await   *)
(* and emit hold the transactions under way and, with them, the row locks. *)
(*                                                                         *)
(* PostgreSQL is modelled by what these statements ask of it: an INSERT ON *)
(* CONFLICT waits for a transaction that has inserted or updated the row,  *)
(* and to update it also for those that hold it FOR SHARE; DELETE likewise *)
(* waits for both; FOR SHARE waits for an update; an UPDATE finds its rows *)
(* in the snapshot of the statement, locks them one after the other, and   *)
(* then looks at its own condition again, which here is only the id of the *)
(* run.                                                                    *)
(***************************************************************************)
EXTENDS TaskStore

CONSTANTS
  Emitter,       \* callers of emit_event
  CleanupRaces   \* FALSE: cleanup_events spares an event that is about to be read

ASSUME CleanupAssumption == CleanupRaces \in BOOLEAN

VARIABLES
  await,         \* the await_event transaction of each worker
  emit           \* the emit_event transaction of each emitter

txVars == <<await, emit>>

(* at:   the statements that have been executed                            *)
(* lock: the row of the event is inserted but not committed, held FOR      *)
(*       SHARE, or not locked                                              *)
(* saw:  get_event returned a payload                                      *)
AwaitTx ==
  [at : {"inserted", "read", "locked"}, run : Run, event : Event,
   lock : {"none", "insert", "share"}, saw : BOOLEAN]

(* seen:   matching_waits, in the snapshot of the second statement         *)
(* locked: the runs of them that it has locked so far                      *)
EmitTx ==
  [at : {"upserted", "matched"}, event : Event, seen : SUBSET Run, locked : SUBSET Run]

Idle == [at |-> "idle"]

TxTypeOK ==
  /\ TypeOK
  /\ await \in [Worker -> AwaitTx \cup {Idle}]
  /\ emit \in [Emitter -> EmitTx \cup {Idle}]

TxInit ==
  /\ Init
  /\ await = [w \in Worker |-> Idle]
  /\ emit = [m \in Emitter |-> Idle]

----------------------------------------------------------------------------
(* Row locks *)

Awaiting(w, e) == await[w] # Idle /\ await[w].event = e

Emitting(m, e) == emit[m] # Idle /\ emit[m].event = e

Inserting(w, e) == Awaiting(w, e) /\ await[w].lock = "insert"

Sharing(w, e) == Awaiting(w, e) /\ await[w].lock = "share"

(* Nobody has written the row of e without committing it.                  *)
NotWritten(e) ==
  /\ \A m \in Emitter : ~Emitting(m, e)
  /\ \A w \in Worker : ~Inserting(w, e)

(* Mutant of Unlocked: FOR SHARE keeps nobody from updating the row.       *)
UnlockedUnlessWritten(e) == NotWritten(e)

Unlocked(e) == NotWritten(e) /\ \A w \in Worker : ~Sharing(w, e)

(* Mutant of LocksRun: await_event locks its run before the event.         *)
LocksRunFirst(w, r) == await[w] # Idle /\ await[w].run = r

(* get_locked_run_state: the run is locked until the transaction ends.     *)
LocksRun(w, r) == await[w] # Idle /\ await[w].at = "locked" /\ await[w].run = r

Updating(m, r) == emit[m] # Idle /\ r \in emit[m].locked

Locked(r) == (\E w \in Worker : LocksRun(w, r)) \/ (\E m \in Emitter : Updating(m, r))

LockedByOthers(w, r) ==
  (\E v \in Worker \ {w} : LocksRun(v, r)) \/ (\E m \in Emitter : Updating(m, r))

----------------------------------------------------------------------------
(* await_event *)

AwaitEnds(w) == await' = [await EXCEPT ![w] = Idle]

(* No checkpoint is found, and the sentinel is inserted if there is no row. *)
AwaitInsert(w, r, e) ==
  /\ await[w] = Idle /\ r \in held[w]
  /\ <<runs[r].task, e>> \notin ckpts
  /\ NotWritten(e)
  /\ await' = [await EXCEPT ![w] =
       [at |-> "inserted", run |-> r, event |-> e, saw |-> FALSE,
        lock |-> IF payload[e] = "absent" THEN "insert" ELSE "none"]]
  /\ UNCHANGED <<vars, emit>>

(* Mutant of AwaitRead: a SELECT without FOR SHARE.                        *)
AwaitReadWithoutLock(w) ==
  LET e == await[w].event
      own == await[w].lock = "insert"
  IN /\ await[w] # Idle /\ await[w].at = "inserted"
     /\ await' = [await EXCEPT ![w].at = "read", ![w].saw = ~own /\ payload[e] = "emitted"]
     /\ UNCHANGED <<vars, emit>>

(* get_event: a row that is gone by now is neither locked nor missed.      *)
AwaitRead(w) ==
  LET e == await[w].event
      own == await[w].lock = "insert"
  IN /\ await[w] # Idle /\ await[w].at = "inserted"
     /\ own \/ NotWritten(e)
     /\ await' = [await EXCEPT
          ![w].at = "read",
          ![w].lock = IF own THEN "insert"
                      ELSE IF payload[e] = "absent" THEN "none" ELSE "share",
          ![w].saw = ~own /\ payload[e] = "emitted"]
     /\ UNCHANGED <<vars, emit>>

AwaitLock(w) ==
  /\ await[w] # Idle /\ await[w].at = "read"
  /\ ~LockedByOthers(w, await[w].run)
  /\ \/ /\ Suspendable(await[w].run)
        /\ await' = [await EXCEPT ![w].at = "locked"]
     \/ /\ ~Suspendable(await[w].run)
        /\ AwaitEnds(w)                          \* NotRunning: rolled back
  /\ UNCHANGED <<vars, emit>>

AwaitCommit(w) ==
  LET r == await[w].run
      e == await[w].event
  IN /\ await[w] # Idle /\ await[w].at = "locked"
     /\ \/ /\ await[w].saw
           /\ ckpts' = ckpts \cup {<<runs[r].task, e>>}
           /\ UNCHANGED <<tasks, runs, payload, held>>
        \/ /\ ~await[w].saw
           /\ payload' = IF await[w].lock = "insert"
                         THEN [payload EXCEPT ![e] = "sentinel"] ELSE payload
           /\ SuspendRun(r, e)
           /\ Drops(w, r)
           /\ UNCHANGED ckpts
     /\ AwaitEnds(w)
     /\ UNCHANGED <<picked, aged, emit>>

(* An error, or the loss of the connection.                                *)
AwaitRollback(w) ==
  /\ await[w] # Idle
  /\ AwaitEnds(w)
  /\ UNCHANGED <<vars, emit>>

----------------------------------------------------------------------------
(* emit_event *)

EmitEnds(m) == emit' = [emit EXCEPT ![m] = Idle]

EmitUpsert(m, e) ==
  /\ emit[m] = Idle
  /\ Unlocked(e)
  /\ emit' = [emit EXCEPT ![m] = 
       [at |-> "upserted", event |-> e, seen |-> {}, locked |-> {}]]
  /\ UNCHANGED <<vars, await>>

EmitMatch(m) ==
  /\ emit[m] # Idle /\ emit[m].at = "upserted"
  /\ emit' = [emit EXCEPT ![m].at = "matched", ![m].seen = Waiters(emit[m].event)]
  /\ UNCHANGED <<vars, await>>

(* A run that is locked stays so until emit_event commits.                 *)
EmitLock(m, r) ==
  /\ emit[m] # Idle /\ r \in emit[m].seen
  /\ runs[r].state \notin NoRow /\ ~Locked(r)
  /\ emit' = [emit EXCEPT ![m].locked = @ \cup {r}]
  /\ UNCHANGED <<vars, await>>

(* All that are still there are locked.                                    *)
EmitCommit(m) ==
  LET woken == {r \in emit[m].seen : runs[r].state \notin NoRow}
  IN /\ emit[m] # Idle /\ emit[m].at = "matched"
     /\ woken = emit[m].locked
     /\ payload' = [payload EXCEPT ![emit[m].event] = "emitted"]
     /\ runs' = [r \in Run |-> IF r \in woken THEN Woken(runs[r]) ELSE runs[r]]
     /\ tasks' = [t \in Task |->
          IF \E r \in woken : runs[r].task = t
          THEN [tasks[t] EXCEPT !.state = "pending"]
          ELSE tasks[t]]
     /\ EmitEnds(m)
     /\ UNCHANGED <<ckpts, held, picked, aged, await>>

EmitRollback(m) ==
  /\ emit[m] # Idle
  /\ EmitEnds(m)
  /\ UNCHANGED <<vars, await>>

----------------------------------------------------------------------------
(* The other operations wait for the rows that are locked, and an          *)
(* execution that is in await_event does nothing else meanwhile.           *)
Undisturbed ==
  /\ \A r \in Run : Locked(r) => runs'[r] = runs[r]
  /\ \A w \in Worker : await[w] # Idle => await[w].run \in held'[w]

(* An await_event has found the row and not locked it yet. *)
AboutToRead(e) ==
  \E w \in Worker : Awaiting(w, e) /\ await[w].at = "inserted" /\ await[w].lock = "none"

EventsCleaned(e) ==
  /\ Unlocked(e) /\ (AboutToRead(e) => CleanupRaces)
  /\ CleanupEvents({e})

OtherStep ==
  /\ \/ \E w \in Worker : WorkerTaskStep(w)
     \/ \E u \in Upkeeper : UpkeepStep(u)
     \/ ClientTaskStep
     \/ TimePasses
     \/ \E e \in Event : EventsCleaned(e)
  /\ Undisturbed
  /\ UNCHANGED txVars

AwaitStep(w) ==
  \/ \E r \in Run, e \in Event : AwaitInsert(w, r, e)
  \/ AwaitRead(w)
  \/ AwaitLock(w)
  \/ AwaitCommit(w)
  \/ AwaitRollback(w)

EmitStep(m) ==
  \/ \E e \in Event : EmitUpsert(m, e)
  \/ EmitMatch(m)
  \/ \E r \in Run : EmitLock(m, r)
  \/ EmitCommit(m)
  \/ EmitRollback(m)

TxNext ==
  \/ \E w \in Worker : AwaitStep(w)
  \/ \E m \in Emitter : EmitStep(m)
  \/ OtherStep

TxSpec == TxInit /\ [][TxNext]_<<vars, txVars>>

(* A transaction goes on to its next statement, and PostgreSQL hands out a *)
(* row lock in the order of arrival: a statement that waits for a row is   *)
(* not overtaken for ever, hence SF.                                       *)
TxFairness ==
  /\ \A w \in Worker : SF_<<vars, txVars>>(AwaitRead(w) \/ AwaitLock(w) \/ AwaitCommit(w))
  /\ \A m \in Emitter :
       SF_<<vars, txVars>>(EmitMatch(m) \/ (\E r \in Run : EmitLock(m, r)) \/ EmitCommit(m))

TxFairSpec == TxSpec /\ TxFairness

----------------------------------------------------------------------------
(* What is shown *)

(* A run that sleeps until an event is never left asleep once the event    *)
(* has a payload: await_event reads the payload before it suspends, and    *)
(* emit_event wakes every run that waits (storage.rs:1078, 1268).          *)
NoMissedEvent ==
  \A r \in Run : runs[r].state = "sleeping" /\ runs[r].wait # None
                   => payload[runs[r].wait] # "emitted"

(* While deadlines are met, await_event and emit_event are atomic, as      *)
(* TaskStore says: each commit is a step AwaitEvent or EmitEvent of        *)
(* TaskStore, and the other statements change nothing that others see.     *)
(* TaskStore speaks of the committed tables, so that the refinement        *)
(* mapping is the identity.                                                *)
AtomicEvents == Spec

(* await_event holds an event while it waits for its run, emit_event an    *)
(* event while it waits for the runs it wakes, one after the other, also   *)
(* for one that is in await_event for another event by now: with one       *)
(* emitter at a time they never keep each other waiting for ever.          *)
TransactionsEnd ==
  /\ \A w \in Worker : await[w] # Idle ~> await[w] = Idle
  /\ \A m \in Emitter : emit[m] # Idle ~> emit[m] = Idle
==============================================================================
