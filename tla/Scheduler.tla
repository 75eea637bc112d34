----------------------------- MODULE Scheduler -----------------------------
(***************************************************************************)
(* The scheduler (taskturbine-cli/src/scheduler.rs): a process that spawns *)
(* the task of each entry of its configuration when the entry is due, and  *)
(* the table scheduler_state from which a restarted one goes on.           *)
(*                                                                         *)
(* Time is in seconds, as in the code (with_nanosecond(0)), and relative:  *)
(* in place of a time T the model has how long ago it is, `now - T`, up to *)
(* AgeBound, and of the clock itself it has what the cron schedules need,  *)
(* its value modulo Cycle.  So time goes on for ever in a finite model.    *)
(***************************************************************************)
EXTENDS Integers, FiniteSets, Sequences, SequencesExt, FiniteSetsExt

CONSTANTS
  Entry,      \* the schedules of the configuration
  Cron,       \* those given as a crontab
  Invalid,    \* those whose crontab cannot be parsed
  Every,      \* seconds between two times of each crontab
  Delta,      \* the timedeltas of the other entries
  Cycle,      \* a multiple of the periods of Cron
  AgeBound,   \* bound of the model: what is longer ago counts as this long
  LagBound,   \* bound of the model: seconds a tick takes, or is started late
  None

(* TimedeltaSchedule::new; what is not given is zero. *)
TotalSeconds(d) == d.seconds + d.minutes * 60 + d.hours * 60 * 60

(* Seconds between two intervals of an entry. *)
Period == [e \in Entry |-> IF e \in Cron THEN Every[e] ELSE TotalSeconds(Delta[e])]

ASSUME EntryAssumption == IsFiniteSet(Entry) /\ Invalid \subseteq Cron /\ Cron \subseteq Entry
ASSUME PeriodAssumption ==
  /\ Period \in [Entry -> Nat \ {0}] /\ Cycle \in Nat \ {0}
  /\ \A e \in Cron : Cycle % Period[e] = 0
ASSUME AgeAssumption ==
  /\ LagBound \in Nat \ {0} /\ AgeBound \in Nat /\ None \notin Int
  /\ \A e \in Entry : AgeBound > Period[e] + 3 * LagBound

VARIABLES
  phase,     \* the clock, modulo Cycle
  at,        \* where run_scheduler is
  order,     \* the entries as sort_entries left them
  age,       \* of the last_run of each entry, in memory
  stored,    \* of its last_run in scheduler_state, None without a row
  lag,       \* of the `now` of the current turn of the loop
  pos,       \* the entry that tick is at
  nap,       \* seconds left to sleep
  spawnAge,  \* history: of the `now` for which the entry was last spawned
  excused,   \* history: entries that are late through no fault of the loop:
             \* overdue when the scheduler started, or their spawn failed
  forgotten  \* history: entries whose last spawn was not recorded when the
             \* scheduler started

loop == <<at, order, lag, pos, nap>>
memory == <<phase, age, stored>>
history == <<spawnAge, excused, forgotten>>
vars == <<loop, memory, history>>

Ages == 0..AgeBound

Aged(a, seconds) == IF a + seconds < AgeBound THEN a + seconds ELSE AgeBound

----------------------------------------------------------------------------
(* The schedules.  Times are given by their ages; an age is negative for a *)
(* time to come.                                                           *)

NonNegative(n) == IF n > 0 THEN n ELSE 0

(* Seconds from the present to the first multiple of the period after a    *)
(* time `last` ago.                                                        *)
NextCron(e, last) == Period[e] - ((phase - last) % Period[e]) - last

(* remaining_seconds at a time `now` ago, for a last_run `last` ago.       *)
Remaining(e, now, last) ==
  IF e \in Cron
  THEN NonNegative(NextCron(e, last) + now)
  ELSE Period[e] - (last - now)

Due(e, now, last) == Remaining(e, now, last) <= 0

(* Mutant of Sorted: the entries keep the order of the configuration.      *)
SortedNot(entries, last) == entries

(* sort_by_key is stable: entries with the same time left keep their order.*)
Sorted(entries, last) ==
  LET left == [i \in DOMAIN entries |-> Remaining(entries[i], 0, last[entries[i]])]
      Before(i, j) == left[i] < left[j] \/ (left[i] = left[j] /\ i < j)
      place(i) == 1 + Cardinality({j \in DOMAIN entries : Before(j, i)})
  IN  [n \in DOMAIN entries |-> entries[CHOOSE i \in DOMAIN entries : place(i) = n]]

----------------------------------------------------------------------------
Init ==
  /\ phase \in 0..(Cycle - 1)
  /\ at = "down" /\ order = <<>> /\ lag = 0 /\ pos = 1 /\ nap = 0
  /\ age = [e \in Entry |-> None]
  /\ stored = [e \in Entry |-> None]
  /\ spawnAge = [e \in Entry |-> None]
  /\ excused = {} /\ forgotten = {}

(* The last_run of an entry when the process starts: now, without a row.   *)
Restored(e) == IF stored[e] = None THEN 0 ELSE stored[e]

(* Entries whose last spawn is not the last_run that a start would find.   *)
Unrecorded == {e \in Entry : spawnAge[e] # None /\ stored[e] # spawnAge[e]}

(* make_schedule refuses a crontab that cannot be parsed: its entry is     *)
(* passed over.                                                            *)
Scheduled == Entry \ Invalid

(* The entries come from a HashMap, in any order, and are added one by one.*)
Entries == SetToSeqs(Scheduled)

Start ==
  /\ at = "down"
  /\ age' = [e \in Entry |-> IF e \in Scheduled THEN Restored(e) ELSE None]
  /\ \E entries \in Entries : order' = Sorted(entries, age')
  /\ at' = "waiting"
  /\ forgotten' = Unrecorded
  /\ excused' = {e \in Scheduled : stored[e] # None /\ Due(e, 0, stored[e])}
  /\ UNCHANGED <<phase, stored, spawnAge, lag, pos, nap>>

(* The table cannot be read: the task panics in unwrap and the process     *)
(* waits for a signal, with nothing left to do.                            *)
StartFails ==
  /\ at = "down"
  /\ at' = "panicked"
  /\ UNCHANGED <<order, lag, pos, nap, memory, history>>

(* `now` was read at the top of the loop; timer.tick lets the tick start.  *)
TickStarts ==
  /\ at = "waiting"
  /\ at' = "ticking"
  /\ UNCHANGED <<order, lag, pos, nap, memory, history>>

AtDue == pos <= Len(order) /\ Due(order[pos], lag, age[order[pos]])

(* Mutant of LastRun: the entry keeps its last_run. *)
LastRunKept(e) == age[e]

(* last_run becomes the `now` of the tick. *)
LastRun(e) == lag

(* The task of the entry is spawned. *)
Spawn ==
  /\ at = "ticking" /\ AtDue
  /\ LET e == order[pos] IN
       /\ age' = [age EXCEPT ![e] = LastRun(e)]
       /\ spawnAge' = [spawnAge EXCEPT ![e] = lag]
       /\ excused' = excused \ {e} /\ forgotten' = forgotten \ {e}
  /\ at' = "spawned"
  /\ UNCHANGED <<phase, stored, order, lag, pos, nap>>

SpawnFails ==
  /\ at = "ticking" /\ AtDue
  /\ excused' = excused \cup {order[pos]}
  /\ pos' = pos + 1
  /\ UNCHANGED <<at, order, lag, nap, memory, spawnAge, forgotten>>

(* Mutant of Recorded: the row has the time of the write. *)
RecordedNow(e) == 0

Recorded(e) == age[e]

(* set_scheduler_last_run, whose result is ignored. *)
Record ==
  /\ at = "spawned"
  /\ \E saved \in BOOLEAN :
       stored' = IF saved THEN [stored EXCEPT ![order[pos]] = Recorded(order[pos])] ELSE stored
  /\ at' = "ticking" /\ pos' = pos + 1
  /\ UNCHANGED <<order, lag, nap, phase, age, history>>

(* The first entry that is not due ends the tick: the entries are sorted by*)
(* the clock, and the loop sleeps for what remained at `now` for the first.*)
TickEnds ==
  /\ at = "ticking" /\ ~AtDue
  /\ order' = Sorted(order, age)
  /\ nap' = IF order = <<>> THEN 1
            ELSE NonNegative(Remaining(order'[1], lag, age[order'[1]]))
  /\ at' = "sleeping" /\ lag' = 0 /\ pos' = 1
  /\ UNCHANGED <<memory, history>>

Wakes ==
  /\ at = "sleeping" /\ nap = 0
  /\ at' = "waiting"
  /\ UNCHANGED <<order, lag, pos, nap, memory, history>>

(* The process stops, at any point, and with it goes what it had in memory.*)
Stops ==
  /\ at # "down"
  /\ at' = "down" /\ order' = <<>> /\ lag' = 0 /\ pos' = 1 /\ nap' = 0
  /\ age' = [e \in Entry |-> None]
  /\ excused' = {} /\ forgotten' = {}
  /\ UNCHANGED <<phase, stored, spawnAge>>

InTurn == at \in {"waiting", "ticking", "spawned"}

Passed(a) == IF a = None THEN None ELSE Aged(a, 1)

(* A second passes.  A turn of the loop is over within LagBound seconds,   *)
(* and a sleep ends on time.                                               *)
ClockTicks ==
  /\ InTurn => lag < LagBound
  /\ at = "sleeping" => nap > 0
  /\ phase' = (phase + 1) % Cycle
  /\ age' = [e \in Entry |-> Passed(age[e])]
  /\ stored' = [e \in Entry |-> Passed(stored[e])]
  /\ spawnAge' = [e \in Entry |-> Passed(spawnAge[e])]
  /\ lag' = IF InTurn THEN lag + 1 ELSE lag
  /\ nap' = IF at = "sleeping" THEN nap - 1 ELSE nap
  /\ UNCHANGED <<at, order, pos, excused, forgotten>>

Next ==
  \/ Start \/ StartFails \/ Stops
  \/ TickStarts \/ Spawn \/ SpawnFails \/ Record \/ TickEnds \/ Wakes
  \/ ClockTicks

Spec == Init /\ [][Next]_vars

----------------------------------------------------------------------------
(* What the scheduler promises *)

Up == InTurn \/ at = "sleeping"

(* The clock and the ages are in their bounds, the loop is at an entry or  *)
(* past the last one, and the entries in order are those of the            *)
(* configuration that have a schedule, once the process has started.       *)
STypeOK ==
  /\ phase \in 0..(Cycle - 1) /\ lag \in 0..LagBound /\ nap \in 0..(AgeBound + LagBound)
  /\ at \in {"down", "panicked", "waiting", "ticking", "spawned", "sleeping"}
  /\ order \in Seq(Entry) /\ pos \in 1..(Cardinality(Entry) + 1)
  /\ Up => IsInjective(order) /\ Range(order) = Scheduled
  /\ age \in [Entry -> Ages \cup {None}]
  /\ Up => \A e \in Scheduled : age[e] # None
  /\ stored \in [Entry -> Ages \cup {None}]
  /\ spawnAge \in [Entry -> Ages \cup {None}]
  /\ excused \subseteq Entry /\ forgotten \subseteq Entry

(* scheduler_state is never ahead of what was spawned, so that a restart   *)
(* does not pass over an interval it should have spawned (scheduler.rs     *)
(* lines 397-402, 160-163).                                                *)
StoredWasSpawned ==
  \A e \in Entry : stored[e] # None => spawnAge[e] # None /\ stored[e] >= spawnAge[e]

(* An interval is not spawned twice, in one process or across restarts,    *)
(* unless the process stopped, or the write failed, between the spawn and  *)
(* its record (scheduler.rs:397): what was spawned is due again, from the  *)
(* last time it was spawned for, and missed intervals are skipped and not  *)
(* made up for ("those interval will be skipped", scheduler.rs:354).       *)
NoIntervalTwice ==
  [][\A e \in Entry :
       /\ at = "ticking" /\ at' = "spawned" /\ order[pos] = e
       /\ spawnAge[e] # None /\ e \notin forgotten
       => Remaining(e, lag, spawnAge[e]) <= 0]_vars

(* How late an entry is, counted from the interval it was last spawned for *)
(* or, if that is not known, from what the loop takes for it.              *)
Overdue(e) ==
  LET last == IF spawnAge[e] = None \/ e \in forgotten THEN age[e] ELSE spawnAge[e]
  IN  IF e \in Cron THEN -NextCron(e, last) ELSE last - Period[e]

(* No entry is forgotten behind others that are not due yet or cannot be   *)
(* spawned, the loop does not sleep through one, and a restart does not    *)
(* put one off ("The scheduler will catch up by whenever possible",        *)
(* scheduler.rs:352): an entry that could be spawned on time is, in less   *)
(* than three turns of the loop.  One is the turn in which it becomes due; *)
(* the loop sleeps for what remained at the start of that turn, and so too *)
(* long by as much as it took; then comes the turn that spawns it.         *)
SpawnedInTime == Up => \A e \in Scheduled \ excused : Overdue(e) < 3 * LagBound
=============================================================================
