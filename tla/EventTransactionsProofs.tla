----------------------- MODULE EventTransactionsProofs -----------------------
(***************************************************************************)
(* The row locks of await_event and emit_event are enough, unless          *)
(* cleanup_events deletes the row of an event between the two statements   *)
(* of an await_event: no run is left asleep on an event that was emitted   *)
(* (whatever the deadlines), and the two operations are atomic as          *)
(* TaskStore says (as long as the deadlines are met).  And whatever is     *)
(* deleted, no task gets more runs than max_attempts.                      *)
(***************************************************************************)
EXTENDS EventTransactions, TaskStoreProofs

(* An execution that is in await_event holds its run.                      *)
HeldRuns == \A w \in Worker : await[w] # Idle => await[w].run \in held[w]

(* What the locks of an await_event transaction say of the event.          *)
AwaitAgrees(w) ==
  LET tx == await[w]
      e == tx.event
  IN /\ tx.lock = "none" => tx.at = "inserted" /\ payload[e] # "absent"
     /\ tx.lock = "insert" => /\ payload[e] = "absent"
                              /\ \A v \in Worker : Inserting(v, e) => v = w
     /\ tx.lock = "share" => payload[e] # "absent"
     /\ tx.lock # "none" => \A m \in Emitter : ~Emitting(m, e)
     /\ tx.at # "inserted" => (tx.saw <=> payload[e] = "emitted")
     /\ tx.at = "locked" => /\ runs[tx.run].state = "running"
                            /\ \A v \in Worker : LocksRun(v, tx.run) => v = w
                            /\ \A m \in Emitter : ~Updating(m, tx.run)

(* An emitter is alone with its event, and has seen who sleeps on it.      *)
EmitAgrees(m) ==
  LET tx == emit[m]
  IN /\ \A n \in Emitter : Emitting(n, tx.event) => n = m
     /\ tx.at = "matched" =>
          \A r \in Run : runs[r].state = "sleeping" /\ runs[r].wait = tx.event => r \in tx.seen

LocksAgree ==
  /\ \A w \in Worker : await[w] # Idle => AwaitAgrees(w)
  /\ \A m \in Emitter : emit[m] # Idle => EmitAgrees(m)

----------------------------------------------------------------------------
(* Types *)

LEMMA IdleTx ==
  ASSUME TxTypeOK
  PROVE  /\ \A w \in Worker : await[w] # Idle <=> await[w] \in AwaitTx
         /\ \A m \in Emitter : emit[m] # Idle <=> emit[m] \in EmitTx
  BY DEF TxTypeOK, AwaitTx, EmitTx, Idle

(* Waking the runs that an emitter has seen.                               *)
LEMMA EmitCommitType ==
  ASSUME TxTypeOK, NEW m \in Emitter, EmitCommit(m)
  PROVE  TypeOK'
  <1> DEFINE woken == {r \in emit[m].seen : runs[r].state \notin NoRow}
  <1>0. TypeOK /\ emit[m].seen \subseteq Run /\ emit[m].event \in Event
    BY IdleTx DEF TxTypeOK, EmitCommit, EmitTx
  <1>1. \A r \in Run : /\ Woken(runs[r]) \in RunRow
                       /\ Woken(runs[r]).task = runs[r].task
                       /\ Woken(runs[r]).state = "pending"
    BY <1>0, WokenRow DEF TypeOK
  <1>2. \A r \in woken : r \in Run /\ runs[r].task # None
    BY <1>0 DEF TypeOK, WellFormed, NoRow
  <1>3. /\ runs' = [r \in Run |-> IF r \in woken THEN Woken(runs[r]) ELSE runs[r]]
        /\ payload' = [payload EXCEPT ![emit[m].event] = "emitted"]
        /\ UNCHANGED <<ckpts, held, picked, aged>>
    BY DEF EmitCommit
  <1>4. tasks' \in [Task -> TaskRow]
    <2>1. \A t \in Task : [tasks[t] EXCEPT !.state = "pending"] \in TaskRow
      BY <1>0 DEF TypeOK, TaskRow, TaskState, Active
    <2> QED
      BY <1>0, <2>1 DEF EmitCommit, TypeOK
  <1>5. /\ runs' \in [Run -> RunRow]
        /\ \A r \in Run : WellFormed(runs'[r])
        /\ \A r \in Run : runs'[r].task = runs[r].task
    BY <1>0, <1>1, <1>2, <1>3 DEF TypeOK, WellFormed
  <1> QED
    BY <1>0, <1>3, <1>4, <1>5 DEF TypeOK

LEMMA AwaitCommitType ==
  ASSUME TxTypeOK, HeldRuns, NEW w \in Worker, AwaitCommit(w)
  PROVE  TypeOK'
  <1> DEFINE r == await[w].run
             e == await[w].event
  <1>0. /\ TypeOK /\ r \in Run /\ e \in Event /\ r \in held[w]
        /\ runs[r].task # None /\ runs[r].task \in Task
    BY IdleTx DEF TxTypeOK, TypeOK, AwaitCommit, AwaitTx, HeldRuns, RunRow
  <1>1. CASE await[w].saw
    BY <1>0, <1>1 DEF AwaitCommit, TypeOK
  <1>2. CASE ~await[w].saw
    <2>1. /\ SuspendRun(r, e) /\ Drops(w, r) /\ UNCHANGED <<ckpts, picked, aged>>
          /\ payload' = IF await[w].lock = "insert"
                        THEN [payload EXCEPT ![e] = "sentinel"] ELSE payload
      BY <1>2 DEF AwaitCommit
    <2>2. payload' \in [Event -> {"absent", "sentinel", "emitted"}]
      BY <1>0, <2>1 DEF TypeOK
    <2>3. /\ held' \in [Worker -> SUBSET Run]
          /\ \A v \in Worker : held'[v] \subseteq held[v]
      BY <1>0, <2>1 DEF Drops, TypeOK
    <2>4. /\ tasks' \in [Task -> TaskRow]
          /\ runs' \in [Run -> RunRow]
          /\ \A s \in Run : WellFormed(runs'[s])
          /\ \A s \in Run : runs[s].task # None => runs'[s].task = runs[s].task
      BY <1>0, <2>1, SuspendRunType
    <2> HIDE DEF r, e
    <2> QED
      BY <1>0, <2>1, <2>2, <2>3, <2>4 DEF TypeOK
  <1> QED
    BY <1>1, <1>2

LEMMA OtherStepIsStep == OtherStep => Next
  BY DEF OtherStep, EventsCleaned, Next, WorkerStep, ClientStep

LEMMA TxTypeStep ==
  TxTypeOK /\ HeldRuns /\ [TxNext]_<<vars, txVars>> => TxTypeOK' /\ HeldRuns'
  <1> SUFFICES ASSUME TxTypeOK, HeldRuns, [TxNext]_<<vars, txVars>>
               PROVE  TxTypeOK' /\ HeldRuns'
    OBVIOUS
  <1>0. /\ TypeOK
        /\ \A w \in Worker : await[w] # Idle => await[w] \in AwaitTx
        /\ \A m \in Emitter : emit[m] # Idle => emit[m] \in EmitTx
    BY IdleTx DEF TxTypeOK
  <1>1. ASSUME UNCHANGED vars PROVE TypeOK'
    BY <1>0, <1>1, TypeStep
  <1>2. ASSUME NEW w \in Worker, NEW r \in Run, NEW e \in Event, AwaitInsert(w, r, e)
        PROVE  TxTypeOK' /\ HeldRuns'
    <2>1. [at |-> "inserted", run |-> r, event |-> e, saw |-> FALSE,
           lock |-> IF payload[e] = "absent" THEN "insert" ELSE "none"] \in AwaitTx
      BY DEF AwaitTx
    <2> QED
      BY <1>1, <1>2, <2>1 DEF AwaitInsert, TxTypeOK, HeldRuns, vars
  <1>3. ASSUME NEW w \in Worker, AwaitRead(w) \/ AwaitLock(w)
        PROVE  TxTypeOK' /\ HeldRuns'
    <2>0. await[w] \in AwaitTx
      BY <1>0, <1>3 DEF AwaitRead, AwaitLock
    <2>1. /\ await'[w] \in AwaitTx \cup {Idle}
          /\ await'[w] # Idle => await'[w].run = await[w].run
          /\ await' \in [Worker -> AwaitTx \cup {Idle}]
          /\ \A v \in Worker : v # w => await'[v] = await[v]
      <3>1. CASE AwaitRead(w)
        BY <2>0, <3>1 DEF AwaitRead, TxTypeOK, AwaitTx
      <3>2. CASE AwaitLock(w)
        BY <2>0, <3>2 DEF AwaitLock, AwaitEnds, TxTypeOK, AwaitTx
      <3> QED
        BY <1>3, <3>1, <3>2
    <2>2. UNCHANGED <<vars, emit>> /\ await[w] # Idle
      BY <1>3 DEF AwaitRead, AwaitLock
    <2> QED
      BY <1>1, <2>1, <2>2 DEF TxTypeOK, HeldRuns, vars
  <1>4. ASSUME NEW w \in Worker, AwaitCommit(w)
        PROVE  TxTypeOK' /\ HeldRuns'
    <2>1. TypeOK'
      BY <1>4, AwaitCommitType
    <2>2. /\ await' = [await EXCEPT ![w] = Idle] /\ emit' = emit
          /\ \A v \in Worker : v # w => held'[v] = held[v]
      BY <1>0, <1>4 DEF AwaitCommit, AwaitEnds, Drops, TypeOK
    <2> QED
      BY <2>1, <2>2 DEF TxTypeOK, HeldRuns
  <1>5. ASSUME NEW w \in Worker, AwaitRollback(w)
        PROVE  TxTypeOK' /\ HeldRuns'
    BY <1>1, <1>5 DEF AwaitRollback, AwaitEnds, TxTypeOK, HeldRuns, vars
  <1>6. ASSUME NEW m \in Emitter, EmitStep(m)
        PROVE  TxTypeOK' /\ HeldRuns'
    <2>1. TypeOK' /\ held' = held /\ await' = await
      BY <1>1, <1>6, EmitCommitType
      DEF EmitStep, EmitUpsert, EmitMatch, EmitLock, EmitCommit, EmitRollback, vars
    <2>2. emit' \in [Emitter -> EmitTx \cup {Idle}]
      <3>1. ASSUME NEW e \in Event, EmitUpsert(m, e) PROVE emit' \in [Emitter -> EmitTx \cup {Idle}]
        BY <3>1 DEF EmitUpsert, TxTypeOK, EmitTx
      <3>2. CASE EmitMatch(m)
        <4>1. emit[m] \in EmitTx
          BY <1>0, <3>2 DEF EmitMatch
        <4> QED
          BY <3>2, <4>1 DEF EmitMatch, TxTypeOK, EmitTx, Waiters
      <3>3. CASE EmitCommit(m) \/ EmitRollback(m)
        BY <3>3 DEF EmitCommit, EmitRollback, EmitEnds, TxTypeOK
      <3>4. ASSUME NEW r \in Run, EmitLock(m, r) PROVE emit' \in [Emitter -> EmitTx \cup {Idle}]
        <4>1. emit[m] \in EmitTx
          BY <1>0, <3>4 DEF EmitLock
        <4>2. [emit[m] EXCEPT !.locked = @ \cup {r}] \in EmitTx
          BY <4>1 DEF EmitTx
        <4>3. emit' = [emit EXCEPT ![m] = [emit[m] EXCEPT !.locked = @ \cup {r}]]
          BY <3>4 DEF EmitLock
        <4> QED
          BY <4>2, <4>3 DEF TxTypeOK
      <3> QED
        BY <1>6, <3>1, <3>2, <3>3, <3>4 DEF EmitStep
    <2> QED
      BY <2>1, <2>2 DEF TxTypeOK, HeldRuns
  <1>7. ASSUME OtherStep PROVE TxTypeOK' /\ HeldRuns'
    <2>1. TypeOK'
      BY <1>0, <1>7, OtherStepIsStep, TypeStep
    <2> QED
      BY <1>7, <2>1 DEF OtherStep, Undisturbed, txVars, TxTypeOK, HeldRuns
  <1>8. ASSUME UNCHANGED <<vars, txVars>> PROVE TxTypeOK' /\ HeldRuns'
    BY <1>1, <1>8 DEF TxTypeOK, HeldRuns, vars, txVars
  <1> QED
    BY <1>2, <1>3, <1>4, <1>5, <1>6, <1>7, <1>8 DEF TxNext, AwaitStep

(* The tables and the transactions are well typed in every reachable state,*)
(* whether or not events are cleaned up.                                   *)
THEOREM TxTypeCorrect == TxSpec => []TxTypeOK
  <1>1. TxInit => TxTypeOK /\ HeldRuns
    BY TypeInit DEF TxInit, TxTypeOK, HeldRuns
  <1> QED
    BY <1>1, TxTypeStep, PTL DEF TxSpec

----------------------------------------------------------------------------
(* Locks *)

(* A transaction that is not under way any more, or not yet, holds no lock. *)
LEMMA IdleHolds ==
  /\ \A w \in Worker, e \in Event : await[w] = Idle => ~Inserting(w, e)
  /\ \A m \in Emitter, e \in Event : emit[m] = Idle => ~Emitting(m, e)
  BY DEF Inserting, Awaiting, Emitting

(* A step that leaves the transactions as they are, with the payloads they *)
(* are about and the runs they have locked, and puts nobody to sleep.      *)
LEMMA LocksKept ==
  ASSUME TxTypeOK, LocksAgree, UNCHANGED <<await, emit>>,
         \A w \in Worker : await[w] # Idle =>
           payload'[await[w].event] = payload[await[w].event],
         \A r \in Run : Locked(r) => runs'[r] = runs[r],
         \A r \in Run : runs'[r].state = "sleeping" /\ runs'[r].wait # None
           => runs[r].state = "sleeping" /\ runs'[r].wait = runs[r].wait
  PROVE  LocksAgree'
  <1>1. ASSUME NEW w \in Worker, await'[w] # Idle PROVE AwaitAgrees(w)'
    <2>1. AwaitAgrees(w)
      BY <1>1 DEF LocksAgree
    <2>2. await[w].at = "locked" => runs'[await[w].run] = runs[await[w].run]
      BY <1>1, IdleTx DEF Locked, LocksRun, AwaitTx
    <2> QED
      BY <1>1, <2>1, <2>2 DEF AwaitAgrees, Inserting, LocksRun, Awaiting, Emitting, Updating
  <1>2. ASSUME NEW m \in Emitter, emit'[m] # Idle PROVE EmitAgrees(m)'
    <2>1. EmitAgrees(m) /\ emit[m].event \in Event
      BY <1>2, IdleTx DEF LocksAgree, EmitTx
    <2> QED
      BY <2>1, NoneAssumption DEF EmitAgrees, Emitting
  <1> QED
    BY <1>1, <1>2 DEF LocksAgree

LEMMA AwaitInsertLocks ==
  ASSUME TxTypeOK, LocksAgree, NEW w \in Worker, NEW r \in Run, NEW e \in Event,
         AwaitInsert(w, r, e)
  PROVE  LocksAgree'
  <1> DEFINE tx == [at |-> "inserted", run |-> r, event |-> e, saw |-> FALSE,
                    lock |-> IF payload[e] = "absent" THEN "insert" ELSE "none"]
  <1>1. /\ await'[w] = tx
        /\ \A v \in Worker : v # w => await'[v] = await[v]
        /\ emit' = emit /\ payload' = payload /\ runs' = runs
        /\ await[w] = Idle /\ NotWritten(e)
    BY DEF AwaitInsert, TxTypeOK, vars
  <1>2. ASSUME NEW v \in Worker, await'[v] # Idle PROVE AwaitAgrees(v)'
    <2>1. CASE v = w
      BY <1>1, <2>1 DEF AwaitAgrees, NotWritten, Inserting, LocksRun, Awaiting, Emitting, Updating
    <2>2. CASE v # w
      <3>1. AwaitAgrees(v) /\ await'[v] = await[v]
        BY <1>1, <1>2, <2>2 DEF LocksAgree
      <3>2. await[v].lock = "insert" => await[v].event # e
        BY <1>1, <1>2, <2>2 DEF NotWritten, Inserting, Awaiting
      <3> QED
        BY <1>1, <3>1, <3>2 DEF AwaitAgrees, Inserting, LocksRun, Awaiting, Emitting, Updating
    <2> QED
      BY <2>1, <2>2
  <1>3. ASSUME NEW m \in Emitter, emit'[m] # Idle PROVE EmitAgrees(m)'
    BY <1>1, <1>3 DEF LocksAgree, EmitAgrees, Emitting
  <1> QED
    BY <1>2, <1>3 DEF LocksAgree

(* A worker goes on with its transaction, or ends it without a trace.      *)
LEMMA AwaitReadLocks ==
  ASSUME TxTypeOK, LocksAgree, NEW w \in Worker,
         AwaitRead(w) \/ AwaitLock(w) \/ AwaitRollback(w)
  PROVE  LocksAgree'
  <1>0. await[w] \in AwaitTx /\ AwaitAgrees(w)
    BY IdleTx DEF AwaitRead, AwaitLock, AwaitRollback, LocksAgree
  <1>1. /\ \A v \in Worker : v # w => await'[v] = await[v]
        /\ emit' = emit /\ payload' = payload /\ runs' = runs
        /\ await' \in [Worker -> AwaitTx \cup {Idle}]
    <2>1. CASE AwaitRead(w)
      BY <1>0, <2>1 DEF AwaitRead, TxTypeOK, vars, AwaitTx
    <2>2. CASE AwaitLock(w)
      BY <1>0, <2>2 DEF AwaitLock, AwaitEnds, TxTypeOK, vars, AwaitTx
    <2>3. CASE AwaitRollback(w)
      BY <2>3 DEF AwaitRollback, AwaitEnds, TxTypeOK, vars
    <2> QED
      BY <2>1, <2>2, <2>3
  <1>2. \/ await'[w] = Idle
        \/ /\ await'[w].event = await[w].event /\ await'[w].run = await[w].run
           /\ await'[w].lock = "insert" <=> await[w].lock = "insert"
    <2>1. CASE AwaitRead(w)
      BY <1>0, <2>1 DEF AwaitRead, TxTypeOK, AwaitTx
    <2>2. CASE AwaitLock(w)
      BY <1>0, <2>2 DEF AwaitLock, AwaitEnds, TxTypeOK, AwaitTx
    <2>3. CASE AwaitRollback(w)
      BY <2>3 DEF AwaitRollback, AwaitEnds, TxTypeOK
    <2> QED
      BY <2>1, <2>2, <2>3
  <1>3. \A v \in Worker, e \in Event : Inserting(v, e)' => Inserting(v, e)
    BY <1>0, <1>1, <1>2 DEF Inserting, Awaiting, AwaitTx, Idle
  <1>4. ASSUME NEW v \in Worker, v # w, await'[v] # Idle PROVE AwaitAgrees(v)'
    <2>1. AwaitAgrees(v) /\ await'[v] = await[v] /\ await[v].event \in Event
      BY <1>1, <1>4, IdleTx DEF LocksAgree, AwaitTx
    <2>2. LocksRun(w, await[v].run)' => await[v].at # "locked"
      BY <1>0, <1>1, <1>4, <2>1
      DEF LocksRun, LockedByOthers, AwaitRead, AwaitLock, AwaitRollback, AwaitEnds, AwaitTx, Idle, TxTypeOK
    <2>3. \A u \in Worker, r \in Run : LocksRun(u, r)' => u = w \/ LocksRun(u, r)
      BY <1>1 DEF LocksRun
    <2>4. await[v].run \in Run
      BY <1>1, <1>4, IdleTx DEF AwaitTx
    <2> QED
      BY <1>1, <1>3, <2>1, <2>2, <2>3, <2>4 DEF AwaitAgrees, Emitting, Updating
  <1>5. ASSUME await'[w] # Idle PROVE AwaitAgrees(w)'
    <2>0. /\ await'[w].event = await[w].event /\ await[w].event \in Event
          /\ await'[w].lock = "insert" <=> await[w].lock = "insert"
      BY <1>0, <1>2, <1>5 DEF AwaitTx
    <2>1. CASE AwaitRead(w)
      <3> DEFINE e == await[w].event
      <3>1. /\ await[w].at = "inserted" /\ await'[w].at = "read"
            /\ await[w].lock = "insert" \/ NotWritten(e)
            /\ await'[w].lock = IF await[w].lock = "insert" THEN "insert"
                                ELSE IF payload[e] = "absent" THEN "none" ELSE "share"
            /\ await'[w].saw = (await[w].lock # "insert" /\ payload[e] = "emitted")
        BY <1>0, <2>1 DEF AwaitRead, TxTypeOK, AwaitTx
      <3>2. await[w].lock # "insert" => payload[e] # "absent"
        BY <1>0 DEF AwaitAgrees, AwaitTx
      <3>3. \A m \in Emitter : ~Emitting(m, e)
        BY <1>0, <3>1 DEF AwaitAgrees, NotWritten
      <3>4. await[w].lock = "insert" => /\ payload[e] = "absent"
                                       /\ \A v \in Worker : Inserting(v, e) => v = w
        BY <1>0 DEF AwaitAgrees
      <3> QED
        BY <1>1, <1>3, <2>0, <3>1, <3>2, <3>3, <3>4 DEF AwaitAgrees, Emitting, LocksRun
    <2>2. CASE AwaitLock(w)
      <3>1. /\ await[w].at = "read" /\ await'[w] = [await[w] EXCEPT !.at = "locked"]
            /\ runs[await[w].run].state = "running"
        BY <1>0, <1>5, <2>2 DEF AwaitLock, AwaitEnds, Suspendable, TxTypeOK
      <3>2. /\ await'[w].at = "locked" /\ await'[w].lock = await[w].lock
            /\ await'[w].saw = await[w].saw /\ await'[w].run = await[w].run
        BY <1>0, <3>1 DEF AwaitTx
      <3>3. /\ \A v \in Worker : LocksRun(v, await[w].run)' => v = w
            /\ \A m \in Emitter : ~Updating(m, await[w].run)
        <4>1. ~LockedByOthers(w, await[w].run)
          BY <2>2 DEF AwaitLock
        <4> QED
          BY <1>1, <3>2, <4>1 DEF LocksRun, LockedByOthers
      <3> QED
        BY <1>0, <1>1, <1>3, <2>0, <3>1, <3>2, <3>3 DEF AwaitAgrees, Emitting, Updating
    <2>3. CASE AwaitRollback(w)
      BY <1>5, <2>3 DEF AwaitRollback, AwaitEnds, TxTypeOK
    <2> QED
      BY <2>1, <2>2, <2>3
  <1>6. ASSUME NEW m \in Emitter, emit'[m] # Idle PROVE EmitAgrees(m)'
    BY <1>1, <1>6 DEF LocksAgree, EmitAgrees, Emitting
  <1> QED
    BY <1>4, <1>5, <1>6 DEF LocksAgree

(* The commit of await_event: nobody else has a hold of the row it         *)
(* inserted, and nobody emits the event that a run goes to sleep on.       *)
LEMMA AwaitCommitLocks ==
  ASSUME TxTypeOK, TxTypeOK', HeldRuns, LocksAgree, NoMissedEvent,
         NEW w \in Worker, AwaitCommit(w)
  PROVE  LocksAgree' /\ NoMissedEvent'
  <1> DEFINE r == await[w].run
             e == await[w].event
  <1>0. /\ await[w] \in AwaitTx /\ AwaitAgrees(w) /\ await[w].at = "locked"
        /\ r \in Run /\ e \in Event /\ runs[r].state = "running" /\ await[w].lock # "none"
        /\ TypeOK
    BY IdleTx DEF AwaitCommit, LocksAgree, AwaitAgrees, AwaitTx, TxTypeOK
  <1>1. /\ await'[w] = Idle /\ emit' = emit
        /\ \A v \in Worker : v # w => await'[v] = await[v]
    BY DEF AwaitCommit, AwaitEnds, TxTypeOK
  <1>2. /\ \A m \in Emitter : ~Emitting(m, e)
        /\ ~await[w].saw => payload[e] # "emitted"
    BY <1>0 DEF AwaitAgrees
  <1>3. /\ \A d \in Event : d # e => payload'[d] = payload[d]
        /\ await[w].lock # "insert" => payload' = payload
        /\ payload'[e] = "emitted" => payload[e] = "emitted"
    BY <1>0 DEF AwaitCommit, TypeOK
  <1>4. /\ \A s \in Run : s # r => runs'[s] = runs[s]
        /\ \/ runs'[r] = runs[r]
           \/ /\ runs'[r].state = "sleeping" /\ runs'[r].wait = e
              /\ payload'[e] # "emitted"
    <2>1. CASE await[w].saw
      BY <2>1 DEF AwaitCommit
    <2>2. CASE ~await[w].saw
      <3>1. runs[r] \in RunRow /\ e \in Event \cup {None}
        BY <1>0 DEF TypeOK
      <3>2. /\ Suspended(runs[r], e).state = "sleeping"
            /\ Suspended(runs[r], e).wait = e
        BY <3>1, SuspendedRow
      <3>3. runs' = [runs EXCEPT ![r] = Suspended(runs[r], e)]
        BY <2>2 DEF AwaitCommit, SuspendRun
      <3> QED
        BY <1>0, <1>2, <1>3, <2>2, <3>2, <3>3 DEF TypeOK
    <2> QED
      BY <2>1, <2>2
  <1> HIDE DEF r, e
  <1>5. NoMissedEvent'
    BY <1>0, <1>3, <1>4 DEF NoMissedEvent, TypeOK, RunRow
  <1>6. ASSUME NEW v \in Worker, await'[v] # Idle PROVE AwaitAgrees(v)'
    <2>1. /\ v # w /\ await'[v] = await[v] /\ AwaitAgrees(v)
          /\ await[v] \in AwaitTx
      BY <1>1, <1>6, IdleTx DEF LocksAgree
    <2>2. payload'[await[v].event] = payload[await[v].event]
      <3>1. CASE await[w].lock # "insert" \/ await[v].event # e
        BY <1>3, <2>1, <3>1 DEF AwaitTx
      <3>2. CASE await[w].lock = "insert" /\ await[v].event = e
        <4>1. payload[e] = "absent" /\ ~Inserting(v, e)
          BY <1>0, <2>1, <3>2 DEF AwaitAgrees, e
        <4>2. await[v].lock = "insert"
          BY <2>1, <3>2, <4>1 DEF AwaitAgrees, AwaitTx
        <4> QED
          BY <1>1, <1>6, <2>1, <3>2, <4>1, <4>2 DEF Inserting, Awaiting
      <3> QED
        BY <3>1, <3>2
    <2>3. await[v].at = "locked" => await[v].run # r
      BY <1>0, <1>1, <1>6, <2>1 DEF AwaitAgrees, LocksRun, AwaitTx, Idle, r
    <2>4. \A u \in Worker : /\ Inserting(u, await[v].event)' => Inserting(u, await[v].event)
                            /\ LocksRun(u, await[v].run)' => LocksRun(u, await[v].run)
      BY <1>1, <2>1 DEF Inserting, Awaiting, LocksRun
    <2>5. await[v].at = "locked" => runs'[await[v].run].state = "running"
      BY <1>4, <2>1, <2>3 DEF AwaitAgrees, AwaitTx
    <2>6. \A m \in Emitter : /\ Emitting(m, await[v].event)' => Emitting(m, await[v].event)
                             /\ Updating(m, await[v].run)' => Updating(m, await[v].run)
      BY <1>1, <2>1 DEF Emitting, Updating
    <2> QED
      BY <2>1, <2>2, <2>4, <2>5, <2>6 DEF AwaitAgrees
  <1>7. ASSUME NEW m \in Emitter, emit'[m] # Idle PROVE EmitAgrees(m)'
    <2>1. /\ EmitAgrees(m) /\ emit[m].event # e
      BY <1>1, <1>2, <1>7 DEF LocksAgree, Emitting
    <2> QED
      BY <1>1, <1>4, <2>1 DEF EmitAgrees, Emitting
  <1> QED
    BY <1>5, <1>6, <1>7 DEF LocksAgree

(* An emitter takes the row of its event when nobody holds it, and then    *)
(* looks for the runs that sleep.                                          *)
LEMMA EmitBeginsLocks ==
  ASSUME TxTypeOK, LocksAgree, NEW m \in Emitter,
         \/ \E e \in Event : EmitUpsert(m, e)
         \/ EmitMatch(m)
         \/ EmitRollback(m)
  PROVE  LocksAgree'
  <1>1. /\ \A n \in Emitter : n # m => emit'[n] = emit[n]
        /\ await' = await /\ payload' = payload /\ runs' = runs
    BY DEF EmitUpsert, EmitMatch, EmitRollback, EmitEnds, TxTypeOK, vars
  <1>2. \/ \E e \in Event : /\ emit'[m] = [at |-> "upserted", event |-> e, seen |-> {}, locked |-> {}]
                            /\ Unlocked(e)
        \/ /\ emit[m] # Idle
           /\ emit'[m] = [emit[m] EXCEPT !.at = "matched", !.seen = Waiters(emit[m].event)]
        \/ emit'[m] = Idle
    BY DEF EmitUpsert, EmitMatch, EmitRollback, EmitEnds, TxTypeOK
  <1>3. \A n \in Emitter, e \in Event :
          Emitting(n, e)' => Emitting(n, e) \/ (n = m /\ Unlocked(e))
    <2> SUFFICES ASSUME NEW n \in Emitter, NEW e \in Event, emit'[n] # Idle, emit'[n].event = e
                 PROVE  Emitting(n, e) \/ (n = m /\ Unlocked(e))
      BY DEF Emitting
    <2>1. CASE n # m
      BY <1>1, <2>1 DEF Emitting
    <2>2. CASE n = m /\ \E d \in Event : /\ emit'[m] = [at |-> "upserted", event |-> d, seen |-> {}, locked |-> {}]
                                       /\ Unlocked(d)
      BY <2>2
    <2>3. CASE /\ n = m /\ emit[m] # Idle
               /\ emit'[m] = [emit[m] EXCEPT !.at = "matched", !.seen = Waiters(emit[m].event)]
      <3>1. emit[m] \in EmitTx
        BY <2>3, IdleTx
      <3>2. emit'[m].event = emit[m].event
        BY <2>3, <3>1 DEF EmitTx
      <3> QED
        BY <2>3, <3>2 DEF Emitting
    <2> QED
      BY <1>2, <2>1, <2>2, <2>3
  <1>4. ASSUME NEW w \in Worker, await'[w] # Idle PROVE AwaitAgrees(w)'
    <2>1. AwaitAgrees(w) /\ await[w] \in AwaitTx /\ await'[w] = await[w]
      BY <1>1, <1>4, IdleTx DEF LocksAgree
    <2>2. await[w].lock # "none" => ~Unlocked(await[w].event)
      BY <1>1, <1>4, <2>1 DEF Unlocked, NotWritten, Sharing, Inserting, Awaiting, AwaitTx
    <2>3. await[w].lock # "none" => \A n \in Emitter : ~Emitting(n, await[w].event)'
      BY <1>1, <1>3, <2>1, <2>2 DEF AwaitAgrees, AwaitTx
    <2>4. \A n \in Emitter, r \in Run : Updating(n, r)' => Updating(n, r)
      <3>1. \/ emit'[m] = Idle
            \/ emit'[m].locked = {}
            \/ emit[m] # Idle /\ emit'[m].locked = emit[m].locked
        <4>1. CASE \E e \in Event :
                     emit'[m] = [at |-> "upserted", event |-> e, seen |-> {}, locked |-> {}]
          BY <4>1
        <4>2. CASE /\ emit[m] # Idle
                   /\ emit'[m] = [emit[m] EXCEPT !.at = "matched", !.seen = Waiters(emit[m].event)]
          <5>1. emit[m] \in EmitTx
            BY <4>2, IdleTx
          <5> QED
            BY <4>2, <5>1 DEF EmitTx
        <4> QED
          BY <1>2, <4>1, <4>2
      <3> QED
        BY <1>1, <3>1 DEF Updating
    <2> QED
      BY <1>1, <2>1, <2>3, <2>4 DEF AwaitAgrees, Inserting, Awaiting, LocksRun, AwaitTx
  <1>5. ASSUME NEW n \in Emitter, emit'[n] # Idle PROVE EmitAgrees(n)'
    <2>1. CASE n = m
      <3>1. CASE \E e \in Event : /\ emit'[m] = [at |-> "upserted", event |-> e, seen |-> {}, locked |-> {}]
                                 /\ Unlocked(e)
        BY <1>1, <2>1, <3>1 DEF EmitAgrees, Emitting, Unlocked, NotWritten
      <3>2. CASE /\ emit[m] # Idle
                 /\ emit'[m] = [emit[m] EXCEPT !.at = "matched", !.seen = Waiters(emit[m].event)]
        <4>1. emit[m] \in EmitTx /\ EmitAgrees(m)
          BY <3>2, IdleTx DEF LocksAgree
        <4>2. emit'[m].event = emit[m].event /\ emit'[m].seen = Waiters(emit[m].event)
          BY <3>2, <4>1 DEF EmitTx
        <4> QED
          BY <1>1, <2>1, <3>2, <4>1, <4>2 DEF EmitAgrees, Emitting, Waiters
      <3> QED
        BY <1>2, <1>5, <2>1, <3>1, <3>2
    <2>2. CASE n # m
      <3>1. /\ EmitAgrees(n) /\ emit'[n] = emit[n] /\ emit[n].event \in Event
            /\ emit[n] # Idle
        BY <1>1, <1>5, <2>2, IdleTx DEF LocksAgree, EmitTx
      <3>2. ~Unlocked(emit[n].event)
        BY <3>1 DEF Unlocked, NotWritten, Emitting
      <3>3. \A l \in Emitter : Emitting(l, emit[n].event)' => Emitting(l, emit[n].event)
        BY <1>3, <3>1, <3>2
      <3> QED
        BY <1>1, <3>1, <3>3 DEF EmitAgrees
    <2> QED
      BY <2>1, <2>2
  <1> QED
    BY <1>4, <1>5 DEF LocksAgree

(* It locks a run that nobody has locked.                                  *)
LEMMA EmitLockLocks ==
  ASSUME TxTypeOK, LocksAgree, NEW m \in Emitter, NEW r \in Run, EmitLock(m, r)
  PROVE  LocksAgree'
  <1>0. emit[m] # Idle /\ emit[m] \in EmitTx
    BY IdleTx DEF EmitLock
  <1>1. /\ \A n \in Emitter : n # m => emit'[n] = emit[n]
        /\ emit'[m] = [emit[m] EXCEPT !.locked = @ \cup {r}]
        /\ await' = await /\ payload' = payload /\ runs' = runs
    BY DEF EmitLock, TxTypeOK, vars
  <1>2. /\ emit'[m].event = emit[m].event /\ emit'[m].at = emit[m].at
        /\ emit'[m].seen = emit[m].seen /\ emit'[m].locked = emit[m].locked \cup {r}
        /\ emit'[m] # Idle
    BY <1>0, <1>1 DEF EmitTx, Idle
  <1>3. \A n \in Emitter, e \in Event : Emitting(n, e)' => Emitting(n, e)
    BY <1>0, <1>1, <1>2 DEF Emitting
  <1>4. \A n \in Emitter, s \in Run : Updating(n, s)' => Updating(n, s) \/ s = r
    BY <1>0, <1>1, <1>2 DEF Updating
  <1>5. ASSUME NEW w \in Worker, await'[w] # Idle PROVE AwaitAgrees(w)'
    <2>1. AwaitAgrees(w) /\ await[w] \in AwaitTx /\ await'[w] = await[w] /\ await[w] # Idle
      BY <1>1, <1>5, IdleTx DEF LocksAgree
    <2>2. await[w].at = "locked" => await[w].run # r
      BY <2>1 DEF EmitLock, Locked, LocksRun
    <2> QED
      BY <1>1, <1>3, <1>4, <2>1, <2>2 DEF AwaitAgrees, Inserting, Awaiting, LocksRun, AwaitTx
  <1>6. ASSUME NEW n \in Emitter, emit'[n] # Idle PROVE EmitAgrees(n)'
    <2>1. /\ emit[n] # Idle /\ EmitAgrees(n) /\ emit[n].event \in Event
          /\ emit'[n].event = emit[n].event /\ emit'[n].at = emit[n].at
          /\ emit'[n].seen = emit[n].seen
      BY <1>0, <1>1, <1>2, <1>6, IdleTx DEF LocksAgree, EmitTx
    <2> QED
      BY <1>1, <1>3, <2>1 DEF EmitAgrees
  <1> QED
    BY <1>5, <1>6 DEF LocksAgree

(* The commit of emit_event: who sleeps on the event was seen.             *)
LEMMA EmitCommitLocks ==
  ASSUME TxTypeOK, LocksAgree, NoMissedEvent, NEW m \in Emitter, EmitCommit(m)
  PROVE  LocksAgree' /\ NoMissedEvent'
  <1> DEFINE e == emit[m].event
             woken == {r \in emit[m].seen : runs[r].state \notin NoRow}
  <1>0. /\ TypeOK /\ emit[m] \in EmitTx /\ EmitAgrees(m) /\ emit[m] # Idle
        /\ e \in Event /\ emit[m].seen \subseteq Run /\ emit[m].at = "matched"
    BY IdleTx DEF EmitCommit, LocksAgree, EmitTx, TxTypeOK
  <1>1. /\ emit'[m] = Idle /\ await' = await
        /\ \A n \in Emitter : n # m => emit'[n] = emit[n]
        /\ payload'[e] = "emitted" /\ \A d \in Event : d # e => payload'[d] = payload[d]
        /\ \A r \in Run : runs'[r] = IF r \in woken THEN Woken(runs[r]) ELSE runs[r]
        /\ \A r \in woken : Updating(m, r)
    BY <1>0 DEF EmitCommit, EmitEnds, TxTypeOK, TypeOK, Updating
  <1>2. \A r \in Run : Woken(runs[r]).wait = None /\ Woken(runs[r]).state = "pending"
    BY <1>0, WokenRow DEF TypeOK
  <1>3. \A r \in Run : runs[r].state = "sleeping" /\ runs[r].wait = e => r \in woken
    BY <1>0 DEF EmitAgrees, NoRow
  <1> HIDE DEF woken
  <1>4. NoMissedEvent'
    <2> SUFFICES ASSUME NEW r \in Run, runs'[r].state = "sleeping", runs'[r].wait # None
                 PROVE  payload'[runs'[r].wait] # "emitted"
      BY DEF NoMissedEvent
    <2>1. r \notin woken /\ runs'[r] = runs[r]
      BY <1>1, <1>2
    <2>2. runs[r].wait # e /\ runs[r].wait \in Event
      BY <1>0, <1>3, <2>1 DEF TypeOK, RunRow
    <2> QED
      BY <1>1, <2>1, <2>2 DEF NoMissedEvent
  <1>5. ASSUME NEW w \in Worker, await'[w] # Idle PROVE AwaitAgrees(w)'
    <2>1. AwaitAgrees(w) /\ await'[w] = await[w] /\ await[w] \in AwaitTx
      BY <1>1, <1>5, IdleTx DEF LocksAgree
    <2>2. await[w].event = e => await[w].lock = "none" /\ await[w].at = "inserted"
      BY <1>0, <2>1 DEF AwaitAgrees, Emitting, AwaitTx
    <2>3. await[w].at = "locked" => runs'[await[w].run] = runs[await[w].run]
      BY <1>1, <1>5, <2>1 DEF AwaitAgrees, AwaitTx
    <2>4. \A n \in Emitter : /\ Emitting(n, await[w].event)' => Emitting(n, await[w].event)
                             /\ Updating(n, await[w].run)' => Updating(n, await[w].run)
      BY <1>1, <2>1 DEF Emitting, Updating
    <2> HIDE DEF e
    <2>5. /\ await[w].event = e => payload'[await[w].event] = "emitted"
          /\ await[w].event # e => payload'[await[w].event] = payload[await[w].event]
      BY <1>1, <2>1 DEF AwaitTx
    <2>6. CASE await[w].event = e
      BY <1>1, <2>1, <2>2, <2>5, <2>6 DEF AwaitAgrees
    <2>7. CASE await[w].event # e
      BY <1>1, <2>1, <2>3, <2>4, <2>5, <2>7 DEF AwaitAgrees, Inserting, Awaiting, LocksRun
    <2> QED
      BY <2>6, <2>7
  <1>6. ASSUME NEW n \in Emitter, emit'[n] # Idle PROVE EmitAgrees(n)'
    <2>1. n # m /\ EmitAgrees(n) /\ emit'[n] = emit[n]
      BY <1>1, <1>6 DEF LocksAgree
    <2>2. \A r \in Run : runs'[r].state = "sleeping" => runs'[r] = runs[r]
      BY <1>1, <1>2
    <2> QED
      BY <1>1, <2>1, <2>2 DEF EmitAgrees, Emitting
  <1> QED
    BY <1>4, <1>5, <1>6 DEF LocksAgree

(* A transaction holds the row of its event, or is about to read it, so    *)
(* that cleanup_events leaves the row alone.                               *)
LEMMA CleanedEvent ==
  ASSUME ~CleanupRaces, TxTypeOK, LocksAgree, NEW e \in Event, EventsCleaned(e)
  PROVE  /\ \A w \in Worker : await[w] # Idle =>
              payload'[await[w].event] = payload[await[w].event]
         /\ \A d \in Event : payload'[d] = "emitted" => payload[d] = "emitted"
         /\ UNCHANGED <<tasks, runs, ckpts>>
  <1>1. /\ UNCHANGED <<tasks, runs, ckpts>>
        /\ \A d \in Event : payload'[d] = IF d = e THEN "absent" ELSE payload[d]
    BY DEF EventsCleaned, CleanupEvents
  <1>2. Unlocked(e) /\ ~AboutToRead(e)
    BY DEF EventsCleaned
  <1>3. ASSUME NEW w \in Worker, await[w] # Idle PROVE await[w].event \in Event /\ await[w].event # e
    <2>1. await[w] \in AwaitTx /\ AwaitAgrees(w)
      BY <1>3, IdleTx DEF LocksAgree
    <2> QED
      BY <1>2, <1>3, <2>1
      DEF AwaitAgrees, Unlocked, NotWritten, AboutToRead, Sharing, Inserting, Awaiting, AwaitTx
  <1> QED
    BY <1>1, <1>3

(* Every step keeps the locks in agreement with the tables, and no event   *)
(* is missed, as long as events are not cleaned up under await_event.      *)
LEMMA LocksStep ==
  ASSUME ~CleanupRaces, TxTypeOK, HeldRuns, LocksAgree, NoMissedEvent,
         [TxNext]_<<vars, txVars>>
  PROVE  LocksAgree' /\ NoMissedEvent'
  <1>0. TypeOK /\ TxTypeOK'
    BY TxTypeStep DEF TxTypeOK
  <1>1. ASSUME UNCHANGED vars PROVE NoMissedEvent'
    BY <1>1 DEF NoMissedEvent, vars
  <1>2. ASSUME NEW w \in Worker, AwaitStep(w) PROVE LocksAgree' /\ NoMissedEvent'
    BY <1>0, <1>1, <1>2, AwaitInsertLocks, AwaitReadLocks, AwaitCommitLocks
    DEF AwaitStep, AwaitInsert, AwaitRead, AwaitLock, AwaitRollback
  <1>3. ASSUME NEW m \in Emitter, EmitStep(m) PROVE LocksAgree' /\ NoMissedEvent'
    BY <1>1, <1>3, EmitBeginsLocks, EmitLockLocks, EmitCommitLocks
    DEF EmitStep, EmitUpsert, EmitMatch, EmitLock, EmitRollback
  <1>4. ASSUME OtherStep PROVE LocksAgree' /\ NoMissedEvent'
    <2>1. /\ \A w \in Worker : await[w] # Idle =>
               payload'[await[w].event] = payload[await[w].event]
          /\ \A d \in Event : payload'[d] = "emitted" => payload[d] = "emitted"
          /\ \A r \in Run : runs'[r].state = "sleeping" /\ runs'[r].wait # None
               => runs[r].state = "sleeping" /\ runs'[r].wait = runs[r].wait
      <3>1. CASE \/ \E w \in Worker : WorkerTaskStep(w)
                 \/ \E u \in Upkeeper : UpkeepStep(u)
                 \/ ClientTaskStep
                 \/ TimePasses
        BY <1>0, <3>1, NoNewSleeper
      <3>2. CASE \E e \in Event : EventsCleaned(e)
        BY <3>2, CleanedEvent
      <3> QED
        BY <1>4, <3>1, <3>2 DEF OtherStep
    <2>2. LocksAgree'
      BY <1>4, <2>1, LocksKept DEF OtherStep, Undisturbed, txVars
    <2>3. NoMissedEvent'
      BY <1>0, <2>1 DEF NoMissedEvent, TypeOK, RunRow
    <2> QED
      BY <2>2, <2>3
  <1>5. ASSUME UNCHANGED <<vars, txVars>> PROVE LocksAgree' /\ NoMissedEvent'
    <2>1. LocksAgree'
      BY <1>5, LocksKept DEF vars, txVars
    <2> QED
      BY <1>1, <1>5, <2>1
  <1> QED
    BY <1>2, <1>3, <1>4, <1>5 DEF TxNext

(* No run is left asleep on an event that was emitted, statement by        *)
(* statement, whatever times out, lapses, fails, is cancelled or is rolled *)
(* back, as long as cleanup_events deletes no row between the two          *)
(* statements of an await_event (storage.rs:198, 1111-1123).               *)
THEOREM LocksSuffice ==
  ASSUME ~CleanupRaces
  PROVE  TxSpec => []NoMissedEvent
  <1>1. TxInit => TxTypeOK /\ HeldRuns /\ LocksAgree /\ NoMissedEvent
    BY TypeInit DEF TxInit, TxTypeOK, HeldRuns, LocksAgree, Init, NoMissedEvent, NoRun
  <1>2. /\ TxTypeOK /\ HeldRuns /\ LocksAgree /\ NoMissedEvent
        /\ [TxNext]_<<vars, txVars>>
        => (TxTypeOK /\ HeldRuns /\ LocksAgree /\ NoMissedEvent)'
    BY TxTypeStep, LocksStep
  <1> QED
    BY <1>1, <1>2, PTL DEF TxSpec

----------------------------------------------------------------------------
(* Attempts *)

(* Neither statement adds a run, lowers a count of attempts or claims.     *)
LEMMA TxRetryStep ==
  ASSUME TxTypeOK, HeldRuns, RetryInv, [TxNext]_<<vars, txVars>>
  PROVE  RetryInv'
  <1>0. TypeOK /\ TypeOK' /\ \A t \in Task : tasks[t].attempts \in Nat
    BY TxTypeStep DEF TxTypeOK, TypeOK, TaskRow
  <1>1. ASSUME Next \/ UNCHANGED vars PROVE RetryInv'
    BY <1>0, <1>1, RetryStep
  <1>2. ASSUME NEW w \in Worker, AwaitCommit(w) PROVE RetryInv'
    <2> DEFINE r == await[w].run
               e == await[w].event
    <2>0. r \in Run /\ e \in Event /\ runs[r] \in RunRow /\ e \in Event \cup {None}
      BY <1>0, <1>2, IdleTx DEF AwaitCommit, AwaitTx, TypeOK
    <2>1. CASE await[w].saw
      <3>1. runs' = runs /\ tasks' = tasks /\ held' = held /\ picked' = picked
        BY <1>2, <2>1 DEF AwaitCommit
      <3> QED
        BY <1>0, <3>1, RetryKept DEF Started
    <2>2. CASE ~await[w].saw
      <3>1. /\ SuspendRun(r, e) /\ Drops(w, r) /\ picked' = picked
        BY <1>2, <2>2 DEF AwaitCommit
      <3>2. /\ Suspended(runs[r], e).task = runs[r].task
            /\ Suspended(runs[r], e).claim = "none"
        BY <2>0, SuspendedRow
      <3> HIDE DEF r, e
      <3>3. \A s \in Run : /\ runs'[s].task = runs[s].task
                           /\ runs'[s].claim \in {runs[s].claim, "none"}
        BY <1>0, <2>0, <3>1, <3>2 DEF SuspendRun, TypeOK
      <3>4. \A t \in Task : /\ tasks'[t].attempts >= tasks[t].attempts
                            /\ tasks[t].state # "absent" => tasks'[t].state # "absent"
        BY <1>0, <3>1 DEF SuspendRun, TypeOK, TaskRow
      <3>5. \A s \in Run : Started(s)' => Started(s)
        <4>1. \A v \in Worker : held'[v] \subseteq held[v]
          BY <1>0, <3>1 DEF Drops, TypeOK
        <4> QED
          BY <3>1, <3>3, <4>1 DEF Started
      <3> QED
        BY <1>0, <3>3, <3>4, <3>5, RetryKept
    <2> QED
      BY <2>1, <2>2
  <1>3. ASSUME NEW m \in Emitter, EmitCommit(m) PROVE RetryInv'
    <2> DEFINE woken == {r \in emit[m].seen : runs[r].state \notin NoRow}
    <2>1. /\ runs' = [r \in Run |-> IF r \in woken THEN Woken(runs[r]) ELSE runs[r]]
          /\ tasks' = [t \in Task |-> IF \E r \in woken : runs[r].task = t
                                     THEN [tasks[t] EXCEPT !.state = "pending"]
                                     ELSE tasks[t]]
          /\ held' = held /\ picked' = picked
      BY <1>3 DEF EmitCommit
    <2> HIDE DEF woken
    <2>2. \A s \in Run : Woken(runs[s]).task = runs[s].task /\ Woken(runs[s]).claim = "none"
      BY <1>0, WokenRow DEF TypeOK
    <2>3. \A s \in Run : /\ runs'[s].task = runs[s].task
                         /\ runs'[s].claim \in {runs[s].claim, "none"}
      BY <2>1, <2>2
    <2>4. \A t \in Task : /\ tasks'[t].attempts >= tasks[t].attempts
                          /\ tasks[t].state # "absent" => tasks'[t].state # "absent"
      BY <1>0, <2>1 DEF TypeOK, TaskRow
    <2>5. \A s \in Run : Started(s)' => Started(s)
      BY <2>1, <2>3 DEF Started
    <2> QED
      BY <1>0, <2>3, <2>4, <2>5, RetryKept
  <1>4. ASSUME \/ \E w \in Worker : \/ \E r \in Run, e \in Event : AwaitInsert(w, r, e)
                                    \/ AwaitRead(w) \/ AwaitLock(w) \/ AwaitRollback(w)
               \/ \E m \in Emitter : \/ \E e \in Event : EmitUpsert(m, e)
                                     \/ \E r \in Run : EmitLock(m, r)
                                     \/ EmitMatch(m) \/ EmitRollback(m)
               \/ UNCHANGED <<vars, txVars>>
        PROVE  UNCHANGED vars
    BY <1>4 DEF AwaitInsert, AwaitRead, AwaitLock, AwaitRollback, EmitUpsert, EmitMatch, EmitLock,
                EmitRollback
  <1> QED
    BY <1>1, <1>2, <1>3, <1>4, OtherStepIsStep DEF TxNext, AwaitStep, EmitStep

(* With events that are awaited and emitted statement by statement, timed  *)
(* out, woken late and cleaned up at any moment, a task never gets more    *)
(* runs than max_attempts (storage.rs:56).                                 *)
THEOREM TxRetryBoundHolds == TxSpec => []RetryBound
  <1>1. TxInit => TxTypeOK /\ HeldRuns /\ RetryInv
    BY TypeInit, RetryInit DEF TxInit, TxTypeOK, HeldRuns
  <1>2. TxTypeOK /\ HeldRuns /\ RetryInv /\ [TxNext]_<<vars, txVars>>
          => (TxTypeOK /\ HeldRuns /\ RetryInv)'
    BY TxTypeStep, TxRetryStep
  <1>3. RetryInv => RetryBound
    BY CountedBounds DEF RetryInv
  <1> QED
    BY <1>1, <1>2, <1>3, PTL DEF TxSpec

----------------------------------------------------------------------------
(* Atomicity *)

(* An operation that leaves it to await_event and emit_event which runs    *)
(* wait for which events: only the row of a waiting run can go.            *)
LeavesWaits ==
  /\ \A r \in Run :
       /\ runs[r].task # None => runs'[r].task = runs[r].task
       /\ \/ runs'[r].wait = runs[r].wait
          \/ runs'[r].wait = None /\ runs'[r].state = "deleted"
       /\ runs[r].state = "deleted" => runs'[r].state = "deleted"
  /\ ckpts' \subseteq ckpts

(* What runs does not wait: do_fail_run takes no wait from anybody.        *)
LEMMA DoFailRunLeavesWaits ==
  ASSUME PromptInv, NEW r \in Run, NEW new \in Run,
         NEW delayed \in BOOLEAN, NEW tooOld \in BOOLEAN,
         runs[r].state = "running", DoFailRun(r, new, delayed, tooOld), ckpts' = ckpts
  PROVE  LeavesWaits
  <1> DEFINE t == runs[r].task
             next == tasks[t].attempts + 1
  <1>1. t \in Task /\ next \in Nat /\ runs \in [Run -> RunRow] /\ runs[r].wait = None
    BY NoneAssumption DEF PromptInv, RowAgrees, TypeOK, WellFormed, RunRow, TaskRow
  <1>2. Failed(runs[r]).task = runs[r].task /\ Failed(runs[r]).wait = None
    BY <1>1, FailedRow
  <1>3. NewRun(t, next, delayed).wait = None
    BY <1>1, NewRunType
  <1>4. runs[new].state = "absent" => runs[new].task = None /\ runs[new].wait = None
    BY DEF PromptInv, TypeOK, WellFormed
  <1>5. \A s \in Run :
          \/ s # r /\ runs'[s] = runs[s]
          \/ s = r /\ runs'[s] = Failed(runs[r])
          \/ s = new /\ s # r /\ runs[new].state = "absent" /\ runs'[s] = NewRun(t, next, delayed)
    BY <1>1 DEF DoFailRun
  <1> HIDE DEF t, next
  <1> QED
    BY <1>1, <1>2, <1>3, <1>4, <1>5 DEF LeavesWaits

LEMMA TaskStepsLeaveWaits ==
  ASSUME Deadlines, PromptInv,
         \/ \E w \in Worker : WorkerTaskStep(w)
         \/ \E u \in Upkeeper : UpkeepStep(u)
         \/ ClientTaskStep
         \/ TimePasses
         \/ \E e \in Event : EventsCleaned(e)
  PROVE  LeavesWaits
  <1>0. /\ TypeOK /\ runs \in [Run -> RunRow]
        /\ \A r \in Run : runs[r].state = "running" => runs[r].wait = None
        /\ \A r \in Run : runs[r].state = "absent" => runs[r].wait = None /\ runs[r].task = None
    BY DEF PromptInv, RowAgrees, TypeOK, WellFormed
  <1>1. ASSUME NEW w \in Worker, NEW batch \in SUBSET Run, ClaimTask(w, batch)
        PROVE  LeavesWaits
    <2>1. \A r \in batch : /\ Claimed(runs[r], w).wait = runs[r].wait
                           /\ Claimed(runs[r], w).task = runs[r].task
                           /\ runs[r].state # "deleted"
      BY <1>0, <1>1, ClaimedRow DEF ClaimTask, Claimable
    <2> QED
      BY <1>1, <2>1 DEF ClaimTask, LeavesWaits
  <1>2. ASSUME NEW w \in Worker, NEW r \in held[w], NEW row, row.wait = None,
               row.task = runs[r].task, runs' = [runs EXCEPT ![r] = row], ckpts' = ckpts
        PROVE  LeavesWaits
    <2>1. r \in Run /\ runs[r].state = "running" /\ runs[r].wait = None
      BY <1>0 DEF PromptInv, HeldAgrees, TypeOK
    <2> QED
      BY <1>0, <1>2, <2>1 DEF LeavesWaits
  <1>3. ASSUME NEW w \in Worker, NEW r \in Run, CompleteRun(w, r)
        PROVE  LeavesWaits
    <2>1. /\ r \in held[w] /\ runs' = [runs EXCEPT ![r] = Completed(runs[r])] /\ ckpts' = ckpts
          /\ Completed(runs[r]).wait = None /\ Completed(runs[r]).task = runs[r].task
      BY <1>0, <1>3, CompletedRow DEF CompleteRun, PromptInv, HeldAgrees
    <2> QED
      BY <1>2, <2>1
  <1>4. ASSUME NEW w \in Worker, NEW r \in Run, ScheduleRun(w, r)
        PROVE  LeavesWaits
    <2>1. runs[r] \in RunRow /\ None \in Event \cup {None}
      BY <1>0
    <2>2. Suspended(runs[r], None).wait = None /\ Suspended(runs[r], None).task = runs[r].task
      BY <2>1, SuspendedRow
    <2>3. r \in held[w] /\ runs' = [runs EXCEPT ![r] = Suspended(runs[r], None)] /\ ckpts' = ckpts
      BY <1>4 DEF ScheduleRun, SuspendRun, Suspendable, PromptInv, HeldAgrees
    <2> QED
      BY <1>2, <2>2, <2>3
  <1>5. ASSUME NEW w \in Worker, NEW r \in Run, NEW new \in Run,
               NEW delayed \in BOOLEAN, NEW tooOld \in BOOLEAN,
               FailRun(w, r, new, delayed, tooOld)
        PROVE  LeavesWaits
    <2>1. runs[r].state = "running" /\ DoFailRun(r, new, delayed, tooOld) /\ ckpts' = ckpts
      BY <1>5 DEF FailRun, PromptInv, HeldAgrees
    <2> QED
      BY <2>1, DoFailRunLeavesWaits
  <1>6. ASSUME NEW u \in Upkeeper, NEW new \in Run, NEW delayed \in BOOLEAN,
               NEW tooOld \in BOOLEAN, FailPicked(u, new, delayed, tooOld)
        PROVE  LeavesWaits
    <2>1. /\ picked[u] \in Run /\ runs[picked[u]].state = "running"
          /\ DoFailRun(picked[u], new, delayed, tooOld) /\ ckpts' = ckpts
      BY <1>0, <1>6 DEF FailPicked, PromptInv, PickedAgrees, TypeOK
    <2> QED
      BY <2>1, DoFailRunLeavesWaits
  <1>7. ASSUME runs' = runs, ckpts' = ckpts PROVE LeavesWaits
    BY <1>7 DEF LeavesWaits
  <1>8. ASSUME NEW t \in Task, NEW r \in Run, SpawnTask(t, r)
        PROVE  LeavesWaits
    <2>1. NewRun(t, 0, FALSE).wait = None /\ runs[r].state = "absent" /\ ckpts' = ckpts
      BY <1>8, NewRunType DEF SpawnTask
    <2>2. runs' = [runs EXCEPT ![r] = NewRun(t, 0, FALSE)]
      BY <1>8 DEF SpawnTask
    <2> QED
      BY <1>0, <2>1, <2>2 DEF LeavesWaits
  <1>9. ASSUME NEW batch, \A r \in batch : runs[r].state \notin NoRow,
               runs' = [r \in Run |-> IF r \in batch THEN Cancelled(runs[r]) ELSE runs[r]],
               ckpts' = ckpts
        PROVE  LeavesWaits
    <2>1. \A r \in Run : /\ Cancelled(runs[r]).wait = runs[r].wait
                         /\ Cancelled(runs[r]).task = runs[r].task
      BY <1>0, CancelledRow
    <2>2. \A r \in Run : r \in batch => runs[r].state # "deleted"
      BY <1>9 DEF NoRow
    <2> QED
      BY <1>9, <2>1, <2>2 DEF LeavesWaits
  <1>10. ASSUME NEW t \in Task, CancelTask(t)
         PROVE  LeavesWaits
    <2> DEFINE batch == {r \in RunsOf(t) : runs[r].state # "completed"}
    <2>1. \A r \in batch : runs[r].state \notin NoRow
      BY DEF RunsOf
    <2>2. runs' = [r \in Run |-> IF r \in batch THEN Cancelled(runs[r]) ELSE runs[r]] /\ ckpts' = ckpts
      BY <1>10 DEF CancelTask
    <2> HIDE DEF batch
    <2> QED
      BY <1>9, <2>1, <2>2
  <1>11. ASSUME NEW u \in Upkeeper, NEW batch \in SUBSET Run, CancelAged(u, batch)
         PROVE  LeavesWaits
    BY <1>9, <1>11, CancelAgedIs
  <1>12. ASSUME NEW batch \in SUBSET Task, CleanupTasks(batch)
         PROVE  LeavesWaits
    <2>1. \A r \in Run : /\ Deleted(runs[r]).wait = None /\ Deleted(runs[r]).state = "deleted"
                         /\ Deleted(runs[r]).task = runs[r].task
      BY <1>0, DeletedRow
    <2>2. ckpts' \subseteq ckpts
      BY <1>12 DEF CleanupTasks
    <2> QED
      BY <1>12, <2>1, <2>2 DEF CleanupTasks, LeavesWaits
  <1>13. ASSUME NEW r \in Run, RunBecomesDue(r) \/ ClaimLapses(r) \/ \E w \in Worker : ExtendClaim(w, r)
         PROVE  LeavesWaits
    <2>1. /\ ckpts' = ckpts
          /\ \/ runs' = [runs EXCEPT ![r].due = TRUE]
             \/ \E c \in {"held", "lapsed"} : runs' = [runs EXCEPT ![r].claim = c]
      BY <1>13 DEF RunBecomesDue, ClaimLapses, ExtendClaim
    <2>2. \A s \in Run : /\ runs'[s].wait = runs[s].wait /\ runs'[s].task = runs[s].task
                         /\ runs'[s].state = runs[s].state
      BY <1>0, <2>1 DEF RunRow
    <2> QED
      BY <2>1, <2>2 DEF LeavesWaits
  <1>14. ASSUME NEW e \in Event, EventsCleaned(e)
         PROVE  LeavesWaits
    BY <1>7, <1>14 DEF EventsCleaned, CleanupEvents
  <1> QED
    BY <1>1, <1>3, <1>4, <1>5, <1>6, <1>7, <1>8, <1>10, <1>11, <1>12, <1>13, <1>14, NothingAged
    DEF WorkerTaskStep, WorkerLoses, UpkeepStep, UpkeepFails, PickExpired, UpkeepAborts,
        ClientTaskStep, TimePasses

(* Nobody records the event under an await_event that found no checkpoint. *)
NotRecorded ==
  \A w \in Worker : await[w] # Idle => <<runs[await[w].run].task, await[w].event>> \notin ckpts

(* The snapshot of matching_waits does not go stale: whoever it has seen   *)
(* and is still there waits for the event, and nobody else does.           *)
SeenAgrees(m) ==
  emit[m] # Idle /\ emit[m].at = "matched" =>
    \A r \in Run :
      /\ runs[r].wait = emit[m].event => r \in emit[m].seen
      /\ r \in emit[m].seen => runs[r].wait = emit[m].event \/ runs[r].state = "deleted"

AtomInv ==
  /\ PromptInv /\ TxTypeOK /\ HeldRuns /\ LocksAgree /\ NoMissedEvent
  /\ NotRecorded /\ \A m \in Emitter : SeenAgrees(m)

LEMMA AwaitCommitIsAtomic ==
  ASSUME Deadlines, AtomInv, NEW w \in Worker, AwaitCommit(w)
  PROVE  AwaitEvent(w, await[w].run, await[w].event)
  <1> DEFINE r == await[w].run
             e == await[w].event
  <1>0. /\ await[w] \in AwaitTx /\ AwaitAgrees(w) /\ await[w].at = "locked" /\ await[w] # Idle
        /\ r \in held[w] /\ e \in Event /\ <<runs[r].task, e>> \notin ckpts
        /\ payload \in [Event -> {"absent", "sentinel", "emitted"}]
    BY IdleTx DEF AtomInv, TxTypeOK, TypeOK, LocksAgree, HeldRuns, NotRecorded, AwaitCommit, AwaitTx
  <1>1. /\ Suspendable(r) /\ (await[w].saw <=> payload[e] = "emitted")
        /\ await[w].lock = "insert" \/ (await[w].lock = "share" /\ payload[e] # "absent")
    BY <1>0 DEF AwaitAgrees, Suspendable, AwaitTx
  <1>2. CASE await[w].saw
    BY <1>0, <1>1, <1>2 DEF AwaitCommit, AwaitEvent
  <1>3. CASE ~await[w].saw
    <2>1. payload' = [payload EXCEPT ![e] = "sentinel"]
      <3>1. await[w].lock # "insert" => payload[e] = "sentinel"
        BY <1>0, <1>1, <1>3
      <3> QED
        BY <1>0, <1>3, <3>1 DEF AwaitCommit
    <2> QED
      BY <1>0, <1>1, <1>3, <2>1 DEF AwaitCommit, AwaitEvent
  <1> QED
    BY <1>2, <1>3

LEMMA EmitCommitIsAtomic ==
  ASSUME Deadlines, AtomInv, NEW m \in Emitter, EmitCommit(m)
  PROVE  /\ emit[m].event \in Event /\ EmitEvent(emit[m].event)
         /\ {r \in emit[m].seen : runs[r].state \notin NoRow} = Waiters(emit[m].event)
  <1> DEFINE e == emit[m].event
             woken == {r \in emit[m].seen : runs[r].state \notin NoRow}
  <1>0. /\ emit[m] # Idle /\ emit[m].at = "matched" /\ SeenAgrees(m)
        /\ e \in Event /\ emit[m].seen \subseteq Run
    BY IdleTx DEF AtomInv, EmitCommit, EmitTx
  <1>1. \A r \in Run : runs[r].wait = e => runs[r].state \notin NoRow
    BY <1>0, NoneAssumption DEF AtomInv, PromptInv, RowAgrees, NoRow
  <1>2. woken = Waiters(e)
    BY <1>0, <1>1 DEF SeenAgrees, Waiters, NoRow
  <1>3. /\ payload' = [payload EXCEPT ![e] = "emitted"]
        /\ runs' = [r \in Run |-> IF r \in woken THEN Woken(runs[r]) ELSE runs[r]]
        /\ tasks' = [t \in Task |->
             IF \E r \in woken : runs[r].task = t
             THEN [tasks[t] EXCEPT !.state = "pending"]
             ELSE tasks[t]]
        /\ UNCHANGED <<ckpts, held, picked, aged>>
    BY DEF EmitCommit
  <1> HIDE DEF woken, e
  <1>4. EmitEvent(e)
    BY <1>2, <1>3 DEF EmitEvent
  <1> QED
    BY <1>0, <1>2, <1>4 DEF woken, e

(* Every statement is a step of TaskStore, or changes nothing it speaks of. *)
LEMMA TxRefines == ASSUME Deadlines, AtomInv, [TxNext]_<<vars, txVars>> PROVE [Next]_vars
  <1>1. ASSUME NEW w \in Worker, AwaitCommit(w) PROVE Next
    <2>1. await[w].run \in Run /\ await[w].event \in Event
      BY <1>1, IdleTx DEF AtomInv, AwaitCommit, AwaitTx
    <2> QED
      BY <1>1, <2>1, AwaitCommitIsAtomic DEF Next, WorkerStep
  <1>2. ASSUME NEW m \in Emitter, EmitCommit(m) PROVE Next
    BY <1>2, EmitCommitIsAtomic DEF Next, ClientStep
  <1>3. ASSUME OtherStep PROVE Next
    BY <1>3, OtherStepIsStep
  <1>4. ASSUME \/ \E w \in Worker : \/ \E r \in Run, e \in Event : AwaitInsert(w, r, e)
                                    \/ AwaitRead(w) \/ AwaitLock(w) \/ AwaitRollback(w)
               \/ \E m \in Emitter : \/ \E e \in Event : EmitUpsert(m, e)
                                     \/ \E r \in Run : EmitLock(m, r)
                                     \/ EmitMatch(m) \/ EmitRollback(m)
        PROVE  UNCHANGED vars
    BY <1>4 DEF AwaitInsert, AwaitRead, AwaitLock, AwaitRollback, EmitUpsert, EmitMatch, EmitLock,
                EmitRollback
  <1> QED
    BY <1>1, <1>2, <1>3, <1>4 DEF TxNext, AwaitStep, EmitStep

(* A step that leaves the transactions of this kind alone.                 *)
LEMMA NotRecordedKept ==
  ASSUME AtomInv, await' = await, ckpts' \subseteq ckpts,
         \A r \in Run : runs[r].task # None => runs'[r].task = runs[r].task
  PROVE  NotRecorded'
  <1>1. \A w \in Worker : await[w] # Idle => runs[await[w].run].task # None /\ await[w].run \in Run
    BY IdleTx DEF AtomInv, PromptInv, TypeOK, HeldRuns, AwaitTx
  <1> QED
    BY <1>1 DEF AtomInv, NotRecorded

LEMMA SeenKept ==
  ASSUME AtomInv, NEW m \in Emitter, emit'[m] = emit[m],
         \A r \in Run :
           /\ runs'[r].wait = emit[m].event => runs[r].wait = emit[m].event
           /\ runs[r].wait = emit[m].event =>
                runs'[r].wait = emit[m].event \/ runs'[r].state = "deleted"
           /\ runs[r].state = "deleted" => runs'[r].state = "deleted"
  PROVE  SeenAgrees(m)'
  BY DEF AtomInv, SeenAgrees

LEMMA AtomStep ==
  ASSUME Deadlines, ~CleanupRaces, AtomInv, [TxNext]_<<vars, txVars>>
  PROVE  AtomInv'
  <1>0. PromptInv /\ TypeOK /\ TxTypeOK /\ HeldRuns /\ LocksAgree /\ NoMissedEvent
    BY DEF AtomInv, PromptInv
  <1>1. PromptInv'
    BY <1>0, TxRefines, PromptStep
  <1>2. (TxTypeOK /\ HeldRuns /\ LocksAgree /\ NoMissedEvent)'
    BY <1>0, TxTypeStep, LocksStep
  <1> DEFINE Goal == NotRecorded' /\ \A m \in Emitter : SeenAgrees(m)'
  <1>3. ASSUME NEW w \in Worker, await' \in [Worker -> AwaitTx \cup {Idle}],
               \A v \in Worker : v # w => await'[v] = await[v],
               \/ await'[w] = Idle
               \/ <<runs[await'[w].run].task, await'[w].event>> \notin ckpts,
               UNCHANGED <<vars, emit>>
        PROVE  Goal
    BY <1>3 DEF AtomInv, NotRecorded, SeenAgrees, vars
  <1>4. ASSUME NEW w \in Worker, NEW r \in Run, NEW e \in Event, AwaitInsert(w, r, e)
        PROVE  Goal
    <2>1. /\ await'[w].run = r /\ await'[w].event = e /\ <<runs[r].task, e>> \notin ckpts
          /\ \A v \in Worker : v # w => await'[v] = await[v]
          /\ UNCHANGED <<vars, emit>>
      BY <1>0, <1>4 DEF AwaitInsert, TxTypeOK
    <2> QED
      BY <1>2, <1>3, <2>1 DEF TxTypeOK
  <1>5. ASSUME NEW w \in Worker, AwaitRead(w) \/ AwaitLock(w) \/ AwaitRollback(w)
        PROVE  Goal
    <2>1. await[w] # Idle /\ await[w] \in AwaitTx /\ UNCHANGED <<vars, emit>>
      BY <1>0, <1>5, IdleTx DEF AwaitRead, AwaitLock, AwaitRollback
    <2>2. /\ \A v \in Worker : v # w => await'[v] = await[v]
          /\ \/ await'[w] = Idle
             \/ await'[w].run = await[w].run /\ await'[w].event = await[w].event
      <3>1. CASE AwaitRead(w)
        BY <1>0, <2>1, <3>1 DEF AwaitRead, TxTypeOK, AwaitTx
      <3>2. CASE AwaitLock(w)
        BY <1>0, <2>1, <3>2 DEF AwaitLock, AwaitEnds, TxTypeOK, AwaitTx
      <3>3. CASE AwaitRollback(w)
        BY <1>0, <3>3 DEF AwaitRollback, AwaitEnds, TxTypeOK
      <3> QED
        BY <1>5, <3>1, <3>2, <3>3
    <2>3. <<runs[await[w].run].task, await[w].event>> \notin ckpts
      BY <2>1 DEF AtomInv, NotRecorded
    <2> QED
      BY <1>2, <1>3, <2>1, <2>2, <2>3 DEF TxTypeOK
  <1>6. ASSUME NEW w \in Worker, AwaitCommit(w) PROVE Goal
    <2> DEFINE r == await[w].run
               e == await[w].event
    <2>0. /\ AwaitEvent(w, r, e) /\ r \in held[w] /\ r \in Run /\ e \in Event
          /\ await[w] # Idle /\ AwaitAgrees(w) /\ await[w].at = "locked"
      BY <1>0, <1>6, AwaitCommitIsAtomic, IdleTx
      DEF AtomInv, AwaitCommit, AwaitEvent, LocksAgree, AwaitTx
    <2>1. /\ await'[w] = Idle /\ emit' = emit
          /\ \A v \in Worker : v # w => await'[v] = await[v]
      BY <1>0, <1>6 DEF AwaitCommit, AwaitEnds, TxTypeOK
    <2>2. /\ \A s \in Run : s # r => runs'[s] = runs[s]
          /\ runs'[r].task = runs[r].task
          /\ runs'[r].wait \in {None, e}
          /\ ckpts' \subseteq ckpts \cup {<<runs[r].task, e>>}
      <3>1. CASE runs' = runs
        <4>1. runs[r].wait = None
          BY <1>0, <2>0 DEF AwaitEvent, Suspendable, PromptInv, RowAgrees
        <4> QED
          BY <2>0, <3>1, <4>1 DEF AwaitEvent
      <3>2. CASE SuspendRun(r, e) /\ ckpts' = ckpts
        <4>1. runs[r] \in RunRow /\ e \in Event \cup {None}
          BY <1>0, <2>0 DEF TypeOK
        <4>2. Suspended(runs[r], e).task = runs[r].task /\ Suspended(runs[r], e).wait = e
          BY <4>1, SuspendedRow
        <4> QED
          BY <1>0, <2>0, <3>2, <4>2 DEF SuspendRun, TypeOK
      <3> QED
        BY <2>0, <3>1, <3>2 DEF AwaitEvent
    <2>3. runs[r].wait = None /\ runs[r].state = "running"
      BY <1>0, <2>0 DEF AwaitEvent, Suspendable, PromptInv, RowAgrees
    <2> HIDE DEF r, e
    <2>4. NotRecorded'
      <3> SUFFICES ASSUME NEW v \in Worker, await'[v] # Idle
                   PROVE  <<runs'[await'[v].run].task, await'[v].event>> \notin ckpts'
        BY DEF NotRecorded
      <3>1. /\ v # w /\ await'[v] = await[v] /\ await[v] # Idle
            /\ await[v].run \in held[v] /\ await[v].run \in Run
            /\ <<runs[await[v].run].task, await[v].event>> \notin ckpts
        BY <1>0, <2>1, IdleTx DEF HeldRuns, AtomInv, NotRecorded, AwaitTx
      <3>2. runs[await[v].run].task # runs[r].task
        <4>1. ExclusiveExecution
          BY <1>0, PromptInvSuffices
        <4> QED
          BY <2>0, <3>1, <4>1 DEF ExclusiveExecution
      <3> QED
        BY <2>2, <3>1, <3>2
    <2>5. ASSUME NEW m \in Emitter PROVE SeenAgrees(m)'
      <3>1. CASE emit[m] = Idle
        BY <2>1, <3>1 DEF SeenAgrees
      <3>2. CASE emit[m] # Idle
        <4>1. emit[m].event # e /\ emit[m].event # None
          BY <1>0, <2>0, <3>2, IdleTx, NoneAssumption DEF AwaitAgrees, Emitting, EmitTx, e
        <4> QED
          BY <2>1, <2>2, <2>3, <4>1, SeenKept
      <3> QED
        BY <3>1, <3>2
    <2> QED
      BY <2>4, <2>5
  <1>7. ASSUME NEW m \in Emitter, (\E e \in Event : EmitUpsert(m, e)) \/ EmitMatch(m) \/ EmitRollback(m)
        PROVE  Goal
    <2>1. /\ UNCHANGED <<vars, await>> /\ runs' = runs /\ ckpts' = ckpts
          /\ \A n \in Emitter : n # m => emit'[n] = emit[n]
      BY <1>0, <1>7 DEF EmitUpsert, EmitMatch, EmitRollback, EmitEnds, TxTypeOK, vars
    <2>2. NotRecorded'
      BY <2>1, NotRecordedKept
    <2>3. SeenAgrees(m)'
      <3>1. ASSUME NEW e \in Event, EmitUpsert(m, e) PROVE SeenAgrees(m)'
        BY <1>0, <3>1 DEF EmitUpsert, TxTypeOK, SeenAgrees
      <3>2. CASE EmitMatch(m)
        <4>1. emit[m] \in EmitTx
          BY <1>0, <3>2, IdleTx DEF EmitMatch
        <4>2. emit'[m].event = emit[m].event /\ emit'[m].seen = Waiters(emit[m].event)
          BY <1>0, <3>2, <4>1 DEF EmitMatch, TxTypeOK, EmitTx
        <4> QED
          BY <2>1, <4>2 DEF SeenAgrees, Waiters
      <3>3. CASE EmitRollback(m)
        BY <1>0, <3>3 DEF EmitRollback, EmitEnds, TxTypeOK, SeenAgrees
      <3> QED
        BY <1>7, <3>1, <3>2, <3>3
    <2>4. ASSUME NEW n \in Emitter, n # m PROVE SeenAgrees(n)'
      BY <2>1, <2>4, SeenKept
    <2> QED
      BY <2>2, <2>3, <2>4
  <1>8. ASSUME NEW m \in Emitter, EmitCommit(m) PROVE Goal
    <2> DEFINE e == emit[m].event
    <2>0. /\ EmitEvent(e) /\ e \in Event /\ EmitAgrees(m)
      BY <1>0, <1>8, EmitCommitIsAtomic DEF EmitCommit, LocksAgree
    <2>1. /\ emit'[m] = Idle /\ await' = await /\ ckpts' = ckpts
          /\ \A n \in Emitter : n # m => emit'[n] = emit[n]
      BY <1>0, <1>8 DEF EmitCommit, EmitEnds, TxTypeOK
    <2>2. \A r \in Run : /\ runs'[r].task = runs[r].task
                         /\ IF runs[r].wait = e THEN runs'[r].wait = None ELSE runs'[r] = runs[r]
      <3>1. \A r \in Run : Woken(runs[r]).task = runs[r].task /\ Woken(runs[r]).wait = None
        BY <1>0, WokenRow DEF TypeOK
      <3> QED
        BY <2>0, <3>1 DEF EmitEvent, Waiters
    <2>3. \A r \in Run : runs[r].wait = e => runs[r].state # "deleted"
      BY <1>0, <2>0, NoneAssumption DEF PromptInv, RowAgrees
    <2> HIDE DEF e
    <2>4. NotRecorded'
      BY <2>1, <2>2, NotRecordedKept
    <2>5. ASSUME NEW n \in Emitter PROVE SeenAgrees(n)'
      <3>1. CASE n = m \/ emit[n] = Idle
        BY <2>1, <3>1 DEF SeenAgrees
      <3>2. CASE n # m /\ emit[n] # Idle
        <4>1. emit[n].event # e /\ emit[n].event # None
          BY <1>0, <2>0, <3>2, IdleTx, NoneAssumption DEF EmitAgrees, Emitting, EmitTx, e
        <4> QED
          BY <2>1, <2>2, <2>3, <3>2, <4>1, SeenKept
      <3> QED
        BY <3>1, <3>2
    <2> QED
      BY <2>4, <2>5
  <1>9. ASSUME OtherStep PROVE Goal
    <2>1. LeavesWaits /\ await' = await /\ emit' = emit
      BY <1>0, <1>9, TaskStepsLeaveWaits DEF OtherStep, txVars
    <2>2. NotRecorded'
      BY <2>1, NotRecordedKept DEF LeavesWaits
    <2>3. ASSUME NEW m \in Emitter PROVE SeenAgrees(m)'
      <3>1. CASE emit[m] = Idle
        BY <2>1, <3>1 DEF SeenAgrees
      <3>2. CASE emit[m] # Idle
        <4>1. emit[m].event # None
          BY <1>0, <3>2, IdleTx, NoneAssumption DEF EmitTx
        <4> QED
          BY <2>1, <4>1, SeenKept DEF LeavesWaits
      <3> QED
        BY <3>1, <3>2
    <2> QED
      BY <2>2, <2>3
  <1>10. ASSUME UNCHANGED <<vars, txVars>> PROVE Goal
    BY <1>10 DEF AtomInv, NotRecorded, SeenAgrees, vars, txVars
  <1>11. ASSUME NEW m \in Emitter, NEW r \in Run, EmitLock(m, r) PROVE Goal
    <2>1. emit[m] # Idle /\ emit[m] \in EmitTx
      BY <1>0, <1>11, IdleTx DEF EmitLock
    <2>2. /\ UNCHANGED <<vars, await>> /\ runs' = runs /\ ckpts' = ckpts
          /\ emit'[m].event = emit[m].event /\ emit'[m].at = emit[m].at
          /\ emit'[m].seen = emit[m].seen
          /\ \A n \in Emitter : n # m => emit'[n] = emit[n]
      BY <1>0, <1>11, <2>1 DEF EmitLock, TxTypeOK, EmitTx, vars
    <2>3. NotRecorded'
      BY <2>2, NotRecordedKept
    <2>4. SeenAgrees(m)'
      BY <2>1, <2>2 DEF AtomInv, SeenAgrees
    <2>5. ASSUME NEW n \in Emitter, n # m PROVE SeenAgrees(n)'
      BY <2>2, <2>5, SeenKept
    <2> QED
      BY <2>3, <2>4, <2>5
  <1>12. Goal
    BY <1>4, <1>5, <1>6, <1>7, <1>8, <1>9, <1>10, <1>11 DEF TxNext, AwaitStep, EmitStep
  <1> QED
    BY <1>1, <1>2, <1>12 DEF AtomInv

(* await_event and emit_event, statement by statement, do what TaskStore   *)
(* says in one step, while the deadlines are met and no event is cleaned   *)
(* up under await_event: each commit is a step AwaitEvent or EmitEvent     *)
(* (storage.rs:1078, 1268).                                                *)
THEOREM AtomicEventsHolds ==
  ASSUME Deadlines, ~CleanupRaces
  PROVE  TxSpec => AtomicEvents
  <1>1. TxInit => Init /\ AtomInv
    BY TypeInit, PromptInit
    DEF TxInit, AtomInv, TxTypeOK, HeldRuns, LocksAgree, Init, NoMissedEvent, NoRun,
        NotRecorded, SeenAgrees
  <1>2. AtomInv /\ [TxNext]_<<vars, txVars>> => AtomInv' /\ [Next]_vars
    BY AtomStep, TxRefines
  <1> QED
    BY <1>1, <1>2, PTL DEF TxSpec, AtomicEvents, Spec
==============================================================================
