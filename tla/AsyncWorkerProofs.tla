-------------------------- MODULE AsyncWorkerProofs --------------------------
(***************************************************************************)
(* AsyncWorker for any concurrency: no claim is lost or settled twice, the *)
(* worker returns only with everything settled, and the tasks at work are  *)
(* fewer than twice the concurrency.                                       *)
(***************************************************************************)
EXTENDS AsyncWorker, FiniteSetTheorems, TLAPS

(* ReturnsSettled needs to know, wherever the loop may return, that no     *)
(* task is left in hand; the bound, that a claim starts with room.         *)
AsyncInv ==
  /\ ATypeOK
  /\ EachClaimOnce
  /\ InFlightBound
  /\ main # "settling" /\ main # "raised" => done = {}
  /\ main = "returned" => pending = {}
  /\ main = "claiming" => HasRoom

USE ConcurrencyAssumption, ClaimAssumption

(* The tasks that are pending are finitely many.                           *)
LEMMA PendingFinite ==
  ASSUME ATypeOK
  PROVE  IsFiniteSet(pending) /\ Cardinality(pending) \in Nat
<1>1. IsFiniteSet(1 .. claimed)
  BY FS_Interval DEF ATypeOK
<1>2. IsFiniteSet(pending)
  BY <1>1, FS_Subset DEF ATypeOK
<1>3. QED
  BY <1>2, FS_CardinalityType

(* A batch that is claimed with room for one more task is within the bound *)
(* (asynclib.py:480-495).                                                  *)
LEMMA BatchFits ==
  ASSUME ATypeOK, HasRoom, NEW rows \in 0 .. Concurrency
  PROVE  Cardinality(pending \cup (claimed + 1 .. claimed + rows)) < 2 * Concurrency
<1> DEFINE new == claimed + 1 .. claimed + rows
<1>1. claimed \in Nat /\ rows \in Nat /\ rows <= Concurrency
  BY DEF ATypeOK
<1>2. IsFiniteSet(pending) /\ Cardinality(pending) \in Nat
  BY PendingFinite
<1>3. IsFiniteSet(new) /\ Cardinality(new) = rows
  <2>1. IsFiniteSet(new)
        /\ Cardinality(new) = IF claimed + 1 > claimed + rows THEN 0
                              ELSE (claimed + rows) - (claimed + 1) + 1
    BY <1>1, FS_Interval
  <2>2. QED
    BY <2>1, <1>1
<1>4. IsFiniteSet(pending \cap new) /\ Cardinality(pending \cap new) \in Nat
  BY <1>2, FS_Intersection, FS_CardinalityType
<1>5. Cardinality(pending \cup new)
        = Cardinality(pending) + Cardinality(new) - Cardinality(pending \cap new)
  BY <1>2, <1>3, FS_Union
<1>6. Cardinality(pending) < Concurrency
  BY DEF HasRoom
<1>7. QED
  BY <1>1, <1>2, <1>3, <1>4, <1>5, <1>6

LEMMA AsyncInit == Init => AsyncInv
<1> SUFFICES ASSUME Init PROVE AsyncInv
  OBVIOUS
<1>1. Cardinality(pending) = 0
  BY FS_EmptySet DEF Init
<1>2. InFlightBound
  BY <1>1 DEF InFlightBound
<1>3. 1 .. claimed = {}
  BY DEF Init
<1>4. ATypeOK /\ EachClaimOnce
  <2>1. ATypeOK
    <3>1. claimed \in 0 .. ClaimBound
      BY DEF Init
    <3>2. QED
      BY <3>1, Zenon DEF Init, ATypeOK
  <2>2. EachClaimOnce
    BY <1>3 DEF Init, EachClaimOnce
  <2>3. QED
    BY <2>1, <2>2
<1>5. QED
  BY <1>2, <1>4 DEF Init, AsyncInv

LEMMA AsyncStep ==
  ASSUME AsyncInv, [Next]_vars
  PROVE  AsyncInv'
<1> USE DEF AsyncInv, ATypeOK, EachClaimOnce, claims, tasks
<1>1. CASE ShutsDown
  BY <1>1 DEF ShutsDown, Drained, HasRoom, InFlightBound
<1>2. CASE StartsClaim
  BY <1>2 DEF StartsClaim, MayClaim, HasRoom, InFlightBound
<1>3. CASE SkipsClaim
  BY <1>3 DEF SkipsClaim, AfterClaim, HasRoom, InFlightBound
<1>4. CASE ClaimReturns
  <2>1. PICK rows \in 0 .. Concurrency :
          /\ claimed + rows <= ClaimBound
          /\ claimed' = claimed + rows
          /\ got' = (rows > 0)
          /\ missed' = (rows = 0)
          /\ pending' = pending \cup (claimed + 1 .. claimed + rows)
    BY <1>4 DEF ClaimReturns, Started
  <2>2. InFlightBound'
    BY <1>4, <2>1, BatchFits DEF ClaimReturns, InFlightBound
  <2>3. main = "claiming" /\ main' = AfterClaim(pending')
        /\ UNCHANGED <<stopOnIdle, finished, done, settled, shutdown>>
    BY <1>4 DEF ClaimReturns
  <2>4. ATypeOK'
    BY <2>1, <2>3 DEF AfterClaim
  <2>5. EachClaimOnce'
    BY <2>1, <2>3
  <2>6. QED
    BY <2>2, <2>3, <2>4, <2>5 DEF AfterClaim
<1>5. CASE WaitEnds
  <2>1. InFlightBound'
    <3>1. IsFiniteSet(pending) /\ Cardinality(pending) \in Nat
      BY PendingFinite
    <3>2. pending' \subseteq pending
      BY <1>5 DEF WaitEnds
    <3>3. Cardinality(pending') <= Cardinality(pending) /\ Cardinality(pending') \in Nat
      BY <3>1, <3>2, FS_Subset, FS_CardinalityType
    <3>4. QED
      BY <3>1, <3>3 DEF InFlightBound
  <2>2. QED
    BY <1>5, <2>1 DEF WaitEnds
<1>6. ASSUME NEW n \in done, Settles(n) PROVE AsyncInv'
  BY <1>6 DEF Settles, InFlightBound
<1>7. CASE TurnEnds
  BY <1>7 DEF TurnEnds, IdleStop, HasRoom, InFlightBound
<1>8. CASE UpkeepStarts
  BY <1>8 DEF UpkeepStarts, InFlightBound
<1>9. CASE Raises
  BY <1>9 DEF Raises, InFlightBound
<1>10. ASSUME NEW n \in pending, TaskReturns(n) PROVE AsyncInv'
  BY <1>10 DEF TaskReturns, HasRoom, InFlightBound
<1>11. CASE Signal
  BY <1>11 DEF Signal, HasRoom, InFlightBound
<1>12. CASE SecondPasses
  BY <1>12 DEF SecondPasses, MissForgotten, HasRoom, InFlightBound
<1>13. CASE UNCHANGED vars
  BY <1>13 DEF vars, HasRoom, InFlightBound
<1>14. QED
  BY <1>1, <1>2, <1>3, <1>4, <1>5, <1>6, <1>7, <1>8, <1>9, <1>10, <1>11, <1>12,
     <1>13 DEF Next, LoopStep

LEMMA AsyncInvariant == Spec => []AsyncInv
<1>1. Init => AsyncInv
  BY AsyncInit
<1>2. AsyncInv /\ [Next]_vars => AsyncInv'
  BY AsyncStep
<1>3. QED
  BY <1>1, <1>2, PTL DEF Spec

(* Every reachable state of the asyncio worker is well typed.              *)
THEOREM AsyncTypeCorrect == Spec => []ATypeOK
<1>1. AsyncInv => ATypeOK
  BY DEF AsyncInv
<1>2. QED
  BY <1>1, AsyncInvariant, PTL

(* The asyncio worker loses no claim and settles none twice, for any       *)
(* concurrency and any number of claims (asynclib.py:470-513).             *)
THEOREM AsyncClaimsHold == Spec => []EachClaimOnce
<1>1. AsyncInv => EachClaimOnce
  BY DEF AsyncInv
<1>2. QED
  BY <1>1, AsyncInvariant, PTL

(* However its tasks end, fewer than twice worker_concurrency of them are  *)
(* at work (asynclib.py:482).                                              *)
THEOREM InFlightBoundHolds == Spec => []InFlightBound
<1>1. AsyncInv => InFlightBound
  BY DEF AsyncInv
<1>2. QED
  BY <1>1, AsyncInvariant, PTL

(* run() returns, for a signal or for idleness, only when everything the   *)
(* worker has claimed is settled (asynclib.py:474, asynclib.py:511).       *)
THEOREM ReturnsSettledHolds == Spec => []ReturnsSettled
<1>1. AsyncInv => ReturnsSettled
  BY DEF AsyncInv, EachClaimOnce, ReturnsSettled
<1>2. QED
  BY <1>1, AsyncInvariant, PTL

----------------------------------------------------------------------------
(* What the worker does to its claims *)

LEMMA AsyncPromiseInit == Init => Promise!PInit
  BY DEF Init, Held, Promise!PInit

(* A step that leaves the claims of the worker as they are.                *)
LEMMA AsyncStutters ==
  ASSUME UNCHANGED <<claimed, settled>>, Held' = Held,
         main # "raised" /\ main' # "raised"
  PROVE  UNCHANGED Promise!promised
  BY DEF Promise!promised

LEMMA AsyncPromiseStep ==
  ASSUME AsyncInv, [Next]_vars
  PROVE  [Promise!PNext]_(Promise!promised)
<1> USE DEF claims, tasks
<1>1. CASE ClaimReturns
  <2>1. PICK rows \in 0 .. Concurrency :
          /\ claimed + rows <= ClaimBound
          /\ claimed' = claimed + rows
          /\ pending' = pending \cup (claimed + 1 .. claimed + rows)
    BY <1>1 DEF ClaimReturns, Started
  <2>2. /\ main = "claiming" /\ main' \in {"waiting", "settled"}
        /\ UNCHANGED <<done, settled>>
    BY <1>1 DEF ClaimReturns, AfterClaim
  <2>3. rows \in 0 .. ClaimBound
    BY <2>1 DEF AsyncInv, ATypeOK
  <2>4. Promise!ClaimsMore(rows)
    BY <2>1, <2>2 DEF Promise!ClaimsMore, Held
  <2>5. QED
    BY <2>2, <2>3, <2>4 DEF Promise!PNext
<1>2. ASSUME NEW n \in done, Settles(n)
      PROVE  Promise!PNext
  <2>1. /\ main = "settling" /\ main' \in {"settled", "settling"}
        /\ done' = done \ {n} /\ settled' = settled \cup {n}
        /\ UNCHANGED <<claimed, pending>>
    BY <1>2 DEF Settles
  <2>2. n \in Held \ settled /\ n \notin pending
    BY <2>1 DEF AsyncInv, EachClaimOnce, Held
  <2>3. Held' = Held \ {n}
    BY <2>1, <2>2 DEF Held
  <2>4. Promise!SettlesOne(n)
    BY <2>1, <2>2, <2>3 DEF Promise!SettlesOne
  <2>5. QED
    BY <2>1, <2>2, <2>4 DEF Promise!PNext
<1>3. CASE Raises
  <2>1. main' = "raised" /\ UNCHANGED <<claimed, settled>> /\ Held' = {}
    BY <1>3 DEF Raises, Held
  <2>2. Promise!LosesSome(Held)
    BY <2>1 DEF Promise!LosesSome
  <2>3. QED
    BY <2>1, <2>2 DEF Promise!PNext
<1>4. CASE WaitEnds
  <2>1. /\ main = "waiting" /\ main' = "settling" /\ UNCHANGED <<claimed, settled>>
        /\ done' = finished /\ pending' = pending \ finished
        /\ done = {} /\ finished \subseteq pending
    BY <1>4 DEF WaitEnds, AsyncInv, ATypeOK
  <2>2. QED
    BY <2>1, AsyncStutters DEF Held
<1>5. CASE ShutsDown \/ StartsClaim \/ SkipsClaim \/ TurnEnds \/ UpkeepStarts
  <2>1. /\ main # "raised" /\ main' # "raised"
        /\ UNCHANGED <<claimed, settled, pending, done>>
    BY <1>5 DEF ShutsDown, StartsClaim, SkipsClaim, AfterClaim, TurnEnds, UpkeepStarts
  <2>2. QED
    BY <2>1, AsyncStutters DEF Held
<1>6. ASSUME (\E n \in pending : TaskReturns(n)) \/ Signal \/ SecondPasses \/ UNCHANGED vars
      PROVE  UNCHANGED Promise!promised
  <2>1. UNCHANGED <<main, claimed, settled, pending, done>>
    BY <1>6 DEF TaskReturns, Signal, SecondPasses, vars
  <2>2. QED
    BY <2>1 DEF Held, Promise!promised
<1>7. QED
  BY <1>1, <1>2, <1>3, <1>4, <1>5, <1>6 DEF Next, LoopStep

(* The asyncio worker keeps the promise of WorkerPromise: all it does to   *)
(* its claims is to claim, to settle each once, and to drop what it has    *)
(* when run() raises (asynclib.py:474-512).                                *)
THEOREM AsyncKeepsPromise == Spec => KeepsPromise
<1>1. Init => Promise!PInit
  BY AsyncPromiseInit
<1>2. AsyncInv /\ [Next]_vars => [Promise!PNext]_(Promise!promised)
  BY AsyncPromiseStep
<1>3. QED
  BY <1>1, <1>2, AsyncInvariant, PTL DEF Spec, KeepsPromise, Promise!PSpec
=============================================================================
