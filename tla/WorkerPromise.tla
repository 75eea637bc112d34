---------------------------- MODULE WorkerPromise ----------------------------
(***************************************************************************)
(* What a worker process does with the runs it claims, in the abstract and *)
(* the same for all three workers: it has what it has claimed until it     *)
(* settles it, once, and drops something only when something went wrong.   *)
(* `held` is what TaskStore calls held[w], of one process, and the actions *)
(* are what a worker does to it there: ClaimTask, the operations that      *)
(* settle a run, and WorkerLoses.                                          *)
(***************************************************************************)
EXTENDS Naturals

CONSTANT ClaimBound  \* bound of the models: runs that the worker claims

VARIABLES
  claimed,  \* how many runs were claimed: claims are numbered
  held,     \* those that are queued or executed
  settled,  \* those whose outcome was sent to the storage
  trouble   \* whether something went wrong that may cost the worker a claim

promised == <<claimed, held, settled, trouble>>

PInit ==
  /\ claimed = 0 /\ held = {} /\ settled = {}
  /\ trouble \in BOOLEAN

ClaimsMore(rows) ==
  /\ claimed' = claimed + rows
  /\ held' = held \cup (claimed + 1 .. claimed + rows)
  /\ UNCHANGED settled

SettlesOne(n) ==
  /\ n \in held \ settled
  /\ held' = held \ {n} /\ settled' = settled \cup {n}
  /\ UNCHANGED claimed

LosesSome(lost) ==
  /\ trouble'
  /\ held' = held \ lost
  /\ UNCHANGED <<claimed, settled>>

PNext ==
  /\ \/ \E rows \in 0 .. ClaimBound : ClaimsMore(rows)
     \/ \E n \in held : SettlesOne(n)
     \/ \E lost \in SUBSET held : LosesSome(lost)
  /\ trouble => trouble'

PSpec == PInit /\ [][PNext]_promised
==============================================================================
