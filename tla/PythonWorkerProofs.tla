-------------------------- MODULE PythonWorkerProofs --------------------------
(***************************************************************************)
(* PythonWorker for any concurrency and any number of claims: no claim is  *)
(* handed to the pool twice and no result committed twice, and none is     *)
(* dropped between the threads.                                            *)
(***************************************************************************)
EXTENDS PythonWorker, TLAPS

----------------------------------------------------------------------------
(* Queues of distinct claims *)

LEMMA TailFacts ==
  ASSUME NEW S, NEW s \in Seq(S), s # <<>>
  PROVE  /\ Tail(s) \in Seq(S) /\ Len(Tail(s)) = Len(s) - 1
         /\ Head(s) \in S /\ Range(s) = Range(Tail(s)) \cup {Head(s)}
         /\ IsInjective(s) => IsInjective(Tail(s)) /\ Head(s) \notin Range(Tail(s))
  <1>1. Len(s) \in Nat \ {0} /\ DOMAIN s = 1 .. Len(s) /\ DOMAIN Tail(s) = 1 .. Len(s) - 1
    OBVIOUS
  <1>2. \A i \in 1 .. Len(s) - 1 : Tail(s)[i] = s[i + 1]
    OBVIOUS
  <1>3. Tail(s) \in Seq(S) /\ Len(Tail(s)) = Len(s) - 1 /\ Head(s) = s[1] /\ s[1] \in S
    BY <1>1
  <1>4. \A i \in 1 .. Len(s) : i = 1 \/ (i - 1 \in 1 .. Len(s) - 1 /\ (i - 1) + 1 = i)
    BY <1>1
  <1>5. Range(s) = Range(Tail(s)) \cup {Head(s)}
    <2>1. ASSUME NEW i \in 1 .. Len(s) PROVE s[i] \in Range(Tail(s)) \cup {Head(s)}
      <3>1. CASE i = 1
        BY <1>3, <3>1
      <3>2. CASE i - 1 \in 1 .. Len(s) - 1 /\ (i - 1) + 1 = i
        <4>1. Tail(s)[i - 1] = s[i]
          BY <1>2, <3>2
        <4> QED
          BY <1>1, <3>2, <4>1 DEF Range
      <3> QED
        BY <1>4, <3>1, <3>2
    <2>2. ASSUME NEW i \in 1 .. Len(s) - 1 PROVE Tail(s)[i] \in Range(s)
      BY <1>1, <1>2 DEF Range
    <2> QED
      BY <1>1, <1>3, <2>1, <2>2 DEF Range
  <1>6. ASSUME IsInjective(s) PROVE IsInjective(Tail(s)) /\ Head(s) \notin Range(Tail(s))
    <2>1. \A i, j \in 1 .. Len(s) : s[i] = s[j] => i = j
      BY <1>1, <1>6 DEF IsInjective
    <2>2. ASSUME NEW i \in 1 .. Len(s) - 1, NEW j \in 1 .. Len(s) - 1, Tail(s)[i] = Tail(s)[j]
          PROVE  i = j
      <3>1. i + 1 \in 1 .. Len(s) /\ j + 1 \in 1 .. Len(s)
        BY <1>1
      <3> QED
        BY <1>2, <2>1, <2>2, <3>1
    <2>3. ASSUME NEW i \in 1 .. Len(s) - 1 PROVE Tail(s)[i] # s[1]
      <3>1. i + 1 \in 1 .. Len(s) /\ 1 \in 1 .. Len(s) /\ i + 1 # 1
        BY <1>1
      <3> QED
        BY <1>2, <2>1, <3>1
    <2> QED
      BY <1>1, <1>3, <2>2, <2>3 DEF IsInjective, Range
  <1> QED
    BY <1>3, <1>5, <1>6

LEMMA AppendFacts ==
  ASSUME NEW S, NEW s \in Seq(S), NEW e \in S
  PROVE  /\ Append(s, e) \in Seq(S) /\ Len(Append(s, e)) = Len(s) + 1
         /\ Range(Append(s, e)) = Range(s) \cup {e}
         /\ IsInjective(s) /\ e \notin Range(s) => IsInjective(Append(s, e))
  <1>1. /\ Len(s) \in Nat /\ DOMAIN s = 1 .. Len(s) /\ DOMAIN Append(s, e) = 1 .. Len(s) + 1
        /\ Append(s, e) \in Seq(S) /\ Len(Append(s, e)) = Len(s) + 1
    OBVIOUS
  <1>2. /\ \A i \in 1 .. Len(s) : Append(s, e)[i] = s[i]
        /\ Append(s, e)[Len(s) + 1] = e
    OBVIOUS
  <1>3. 1 .. Len(s) + 1 = (1 .. Len(s)) \cup {Len(s) + 1} /\ Len(s) + 1 \notin 1 .. Len(s)
    BY <1>1
  <1>4. Range(Append(s, e)) = Range(s) \cup {e}
    BY <1>1, <1>2, <1>3 DEF Range
  <1>5. IsInjective(s) /\ e \notin Range(s) => IsInjective(Append(s, e))
    BY <1>1, <1>2, <1>3 DEF IsInjective, Range
  <1> QED
    BY <1>1, <1>4, <1>5

LEMMA ConcatFacts ==
  ASSUME NEW S, NEW s \in Seq(S), NEW t \in Seq(S)
  PROVE  /\ Range(s \o t) = Range(s) \cup Range(t)
         /\ IsInjective(s) /\ IsInjective(t) /\ Range(s) \cap Range(t) = {}
              => IsInjective(s \o t)
  <1>1. /\ Len(s) \in Nat /\ Len(t) \in Nat /\ DOMAIN s = 1 .. Len(s) /\ DOMAIN t = 1 .. Len(t)
        /\ DOMAIN (s \o t) = 1 .. Len(s) + Len(t)
    OBVIOUS
  <1>2. /\ \A i \in 1 .. Len(s) : (s \o t)[i] = s[i]
        /\ \A i \in 1 .. Len(s) + Len(t) : i \notin 1 .. Len(s) => (s \o t)[i] = t[i - Len(s)]
    OBVIOUS
  <1>3. \A i \in 1 .. Len(s) + Len(t) :
          i \notin 1 .. Len(s) => i - Len(s) \in 1 .. Len(t) /\ i = (i - Len(s)) + Len(s)
    BY <1>1
  <1>4. \A i \in 1 .. Len(t) :
          i + Len(s) \in 1 .. Len(s) + Len(t) /\ i + Len(s) \notin 1 .. Len(s)
            /\ (i + Len(s)) - Len(s) = i
    BY <1>1
  <1>5. 1 .. Len(s) \subseteq 1 .. Len(s) + Len(t)
    BY <1>1
  <1>6. Range(s \o t) = Range(s) \cup Range(t)
    <2>1. Range(s \o t) \subseteq Range(s) \cup Range(t)
      BY <1>1, <1>2, <1>3 DEF Range
    <2>2. Range(s) \subseteq Range(s \o t)
      BY <1>1, <1>2, <1>5 DEF Range
    <2>3. ASSUME NEW i \in 1 .. Len(t) PROVE t[i] \in Range(s \o t)
      BY <1>1, <1>2, <1>4 DEF Range
    <2> QED
      BY <1>1, <2>1, <2>2, <2>3 DEF Range
  <1>7. ASSUME IsInjective(s), IsInjective(t), Range(s) \cap Range(t) = {},
               NEW i \in DOMAIN (s \o t), NEW j \in DOMAIN (s \o t), (s \o t)[i] = (s \o t)[j]
        PROVE  i = j
    <2>1. CASE i \in 1 .. Len(s) /\ j \in 1 .. Len(s)
      BY <1>1, <1>2, <1>7, <2>1 DEF IsInjective
    <2>2. CASE i \notin 1 .. Len(s) /\ j \notin 1 .. Len(s)
      BY <1>1, <1>2, <1>3, <1>7, <2>2 DEF IsInjective
    <2>3. \A k \in DOMAIN (s \o t) :
             IF k \in 1 .. Len(s) THEN (s \o t)[k] \in Range(s) ELSE (s \o t)[k] \in Range(t)
      <3>1. ASSUME NEW k \in 1 .. Len(s) PROVE (s \o t)[k] \in Range(s)
        BY <1>1, <1>2 DEF Range
      <3>2. ASSUME NEW k \in 1 .. Len(s) + Len(t), k \notin 1 .. Len(s)
            PROVE  (s \o t)[k] \in Range(t)
        <4>1. (s \o t)[k] = t[k - Len(s)] /\ k - Len(s) \in DOMAIN t
          BY <1>1, <1>2, <1>3, <3>2
        <4> QED
          BY <4>1 DEF Range
      <3> QED
        BY <1>1, <3>1, <3>2
    <2>4. i \in 1 .. Len(s) <=> j \in 1 .. Len(s)
      BY <1>7, <2>3
    <2> QED
      BY <2>1, <2>2, <2>3, <2>4
  <1>8. IsInjective(s) /\ IsInjective(t) /\ Range(s) \cap Range(t) = {} => IsInjective(s \o t)
    BY <1>7 DEF IsInjective
  <1> QED
    BY <1>6, <1>8

LEMMA Wider ==
  ASSUME NEW m \in Nat, NEW n \in Nat, m <= n, NEW s \in Seq(1 .. m)
  PROVE  s \in Seq(1 .. n)
  <1>1. Len(s) \in Nat /\ s \in [1 .. Len(s) -> 1 .. m] /\ 1 .. m \subseteq 1 .. n
    OBVIOUS
  <1>2. s \in [1 .. Len(s) -> 1 .. n]
    BY <1>1
  <1> QED
    BY <1>1, <1>2

LEMMA RangeIn == ASSUME NEW S, NEW s \in Seq(S) PROVE Range(s) \subseteq S
  BY DEF Range

(* Three queues one after the other, and a fourth. *)
LEMMA ConcatRange ==
  ASSUME NEW S, NEW p \in Seq(S), NEW q \in Seq(S), NEW r \in Seq(S), NEW s \in Seq(S)
  PROVE  Range(p \o q \o r \o s) = Range(p) \cup Range(q) \cup Range(r) \cup Range(s)
  <1> DEFINE pq == p \o q
  <1>1. pq \in Seq(S) /\ Range(pq) = Range(p) \cup Range(q)
    BY ConcatFacts
  <1> HIDE DEF pq
  <1> DEFINE pqr == pq \o r
  <1>2. pqr \in Seq(S) /\ Range(pqr) = Range(pq) \cup Range(r)
    BY <1>1, ConcatFacts
  <1> HIDE DEF pqr
  <1>3. Range(pqr \o s) = Range(pqr) \cup Range(s)
    BY <1>2, ConcatFacts
  <1> QED
    BY <1>1, <1>2, <1>3 DEF pq, pqr

LEMMA EmptyFacts == Range(<<>>) = {} /\ IsInjective(<<>>) /\ \A S : <<>> \in Seq(S)
  BY DEF Range, IsInjective

----------------------------------------------------------------------------
(* The invariant *)

Queued == Range(batch) \cup Range(claimedTasks)   \* on its way to the main thread

Put == Range(taskResults) \cup taken              \* its result was put on the queue

(* What is on its way is there once, and has no result.                    *)
QueuedOnce ==
  /\ IsInjective(batch) /\ IsInjective(claimedTasks)
  /\ Range(batch) \cap Range(claimedTasks) = {}
  /\ Queued \cap Range(inflight) = {} /\ Queued \cap ready = {}

(* A poll in the middle of its work: what it has looked at and does not    *)
(* keep was put.  A result is put once, and its future then forgotten.     *)
PolledOnce ==
  /\ IsInjective(inflight) /\ Range(taskResults) \subseteq ready
  /\ main = "polling" =>
       /\ IsInjective(look) /\ IsInjective(keep) /\ Range(look) \cap Range(keep) = {}
       /\ Range(look) \cup Range(keep) \subseteq Range(inflight)
       /\ Range(inflight) \subseteq Range(look) \cup Range(keep) \cup Put
  /\ pool =>
       /\ IsInjective(taskResults) /\ Range(taskResults) \cap taken = {}
       /\ IF main = "polling" THEN (Range(look) \cup Range(keep)) \cap Put = {}
                               ELSE Range(inflight) \cap Put = {}

Lossless == ~shutdown => 1 .. claimed \subseteq Queued \cup Range(inflight) \cup Put

(* run() goes on until it is told to stop. *)
RunsOn == main \in {"getting", "napping", "deciding", "raised"} => ~shutdown

PythonInv == WTypeOK /\ QueuedOnce /\ PolledOnce /\ Lossless /\ RunsOn

USE ConcurrencyAssumption, IdleAssumption

(* What the properties say of the queues one after the other.              *)
LEMMA PythonInvSuffices == PythonInv => AppliedOnce /\ NothingLost
  <1> SUFFICES ASSUME PythonInv PROVE AppliedOnce /\ NothingLost
    OBVIOUS
  <1>1. /\ batch \in Seq(1 .. claimed) /\ claimedTasks \in Seq(1 .. claimed)
        /\ inflight \in Seq(1 .. claimed) /\ taskResults \in Seq(1 .. claimed)
    BY DEF PythonInv, WTypeOK
  <1>2. Range(batch \o claimedTasks) = Queued /\ IsInjective(batch \o claimedTasks)
    BY <1>1, ConcatFacts DEF PythonInv, QueuedOnce, Queued
  <1>3. Range(batch \o claimedTasks \o inflight \o taskResults)
          = Queued \cup Range(inflight) \cup Range(taskResults)
    BY <1>1, ConcatRange DEF Queued
  <1>4. AppliedOnce
    BY <1>2 DEF PythonInv, QueuedOnce, PolledOnce, AppliedOnce
  <1>5. NothingLost
    BY <1>3 DEF PythonInv, Lossless, Put, NothingLost
  <1> QED
    BY <1>4, <1>5

LEMMA PythonInit == Init => PythonInv
  <1> SUFFICES ASSUME Init PROVE PythonInv
    OBVIOUS
  <1>1. WTypeOK
    <2>1. /\ claimed \in 0 .. ClaimBound /\ idle \in 0 .. IdleMax
          /\ Len(<<>>) <= Concurrency /\ <<>> \in Seq(1 .. claimed)
      BY DEF Init
    <2> QED
      BY <2>1 DEF Init, WTypeOK
  <1>2. QueuedOnce /\ PolledOnce
    BY EmptyFacts DEF Init, QueuedOnce, PolledOnce, Queued, Put
  <1>3. Lossless /\ RunsOn
    BY DEF Init, Lossless, RunsOn
  <1> QED
    BY <1>1, <1>2, <1>3 DEF PythonInv

----------------------------------------------------------------------------
(* The claim thread *)

LEMMA ClaimKeeps ==
  ASSUME PythonInv, Claim
  PROVE  PythonInv' /\ Queued' = Queued \cup (claimed + 1 .. claimed')
  <1>1. PICK rows \in 0 .. Concurrency :
          /\ claimed + rows <= ClaimBound /\ claimed' = claimed + rows
          /\ batch' = [i \in 1 .. rows |-> claimed + i]
          /\ idle' = Idle(rows)
          /\ claimer' = IF rows > 0 THEN "putting" ELSE "loop"
    BY DEF Claim
  <1>2. claimed \in Nat /\ rows \in Nat /\ claimed' \in Nat /\ claimed <= claimed'
    BY <1>1 DEF PythonInv, WTypeOK
  <1>3. /\ batch' \in Seq(1 .. claimed') /\ IsInjective(batch') /\ Len(batch') = rows
        /\ Range(batch') = claimed + 1 .. claimed'
    <2>1. DOMAIN batch' = 1 .. rows /\ \A i \in 1 .. rows : batch'[i] = claimed + i
      BY <1>1
    <2>2. \A n \in claimed + 1 .. claimed' :
            n - claimed \in 1 .. rows /\ n = claimed + (n - claimed)
      BY <1>1, <1>2
    <2>3. batch' \in [1 .. rows -> 1 .. claimed']
      BY <1>1, <1>2
    <2>4. Range(batch') = claimed + 1 .. claimed'
      <3>1. Range(batch') \subseteq claimed + 1 .. claimed'
        BY <1>1, <1>2, <2>1 DEF Range
      <3>2. ASSUME NEW n \in claimed + 1 .. claimed' PROVE n \in Range(batch')
        BY <2>1, <2>2 DEF Range
      <3> QED
        BY <3>1, <3>2
    <2>5. IsInjective(batch')
      BY <1>2, <2>1 DEF IsInjective
    <2> QED
      BY <1>1, <1>2, <2>3, <2>4, <2>5
  <1>4. batch = <<>> /\ Range(batch) = {}
    BY EmptyFacts DEF PythonInv, WTypeOK, Claim
  <1>5. UNCHANGED <<claimedTasks, turn, processes, taskResults, commits, shutdown>>
    BY DEF Claim
  <1>6. /\ claimedTasks \in Seq(1 .. claimed) /\ taskResults \in Seq(1 .. claimed)
        /\ inflight \in Seq(1 .. claimed) /\ look \in Seq(1 .. claimed)
        /\ keep \in Seq(1 .. claimed) /\ ready \subseteq 1 .. claimed
    BY DEF PythonInv, WTypeOK
  <1>7. WTypeOK'
    <2>1. /\ claimedTasks \in Seq(1 .. claimed') /\ taskResults \in Seq(1 .. claimed')
          /\ inflight \in Seq(1 .. claimed') /\ look \in Seq(1 .. claimed')
          /\ keep \in Seq(1 .. claimed') /\ 1 .. claimed \subseteq 1 .. claimed'
      BY <1>2, <1>6, Wider
    <2>2. batch' # <<>> <=> claimer' = "putting"
      BY <1>1, <1>2, <1>3
    <2>3. idle' \in 0 .. IdleMax /\ claimed' \in 0 .. ClaimBound
      BY <1>1, <1>2 DEF PythonInv, WTypeOK, Idle
    <2> QED
      BY <1>1, <1>3, <1>5, <2>1, <2>2, <2>3
      DEF PythonInv, WTypeOK, turn, processes, commits
  <1>8. QueuedOnce'
    <2>1. Range(claimedTasks) \subseteq 1 .. claimed /\ Range(inflight) \subseteq 1 .. claimed
      BY <1>6, RangeIn
    <2>2. \A n \in Range(batch') : n \notin 1 .. claimed
      BY <1>2, <1>3
    <2> QED
      BY <1>3, <1>5, <1>6, <2>1, <2>2
      DEF PythonInv, QueuedOnce, Queued, turn, processes
  <1>9. PolledOnce'
    BY <1>5 DEF PythonInv, PolledOnce, Put, turn, processes, commits
  <1>10. Lossless' /\ RunsOn'
    <2>1. 1 .. claimed' = (1 .. claimed) \cup (claimed + 1 .. claimed')
      BY <1>2
    <2> QED
      BY <1>3, <1>4, <1>5, <2>1 DEF PythonInv, Lossless, RunsOn, Queued, Put, turn, commits
  <1>11. Queued' = Queued \cup (claimed + 1 .. claimed')
    BY <1>3, <1>4, <1>5 DEF Queued
  <1> QED
    BY <1>7, <1>8, <1>9, <1>10, <1>11 DEF PythonInv

LEMMA ClaimerPutsKeeps ==
  ASSUME PythonInv, ClaimerPuts
  PROVE  PythonInv' /\ Queued' = Queued
  <1>1. /\ batch \in Seq(1 .. claimed) /\ claimedTasks \in Seq(1 .. claimed)
        /\ batch # <<>> /\ Len(claimedTasks) < Concurrency
    BY DEF PythonInv, WTypeOK, ClaimerPuts, Waiting, Full
  <1>2. /\ claimedTasks' = Append(claimedTasks, Head(batch)) /\ batch' = Tail(batch)
        /\ claimer' = IF Len(batch) = 1 THEN "loop" ELSE "putting"
        /\ UNCHANGED <<claimed, idle, turn, processes, taskResults, commits, shutdown>>
    BY DEF ClaimerPuts
  <1>3. /\ batch' \in Seq(1 .. claimed) /\ Len(batch') = Len(batch) - 1 /\ IsInjective(batch')
        /\ Head(batch) \in 1 .. claimed /\ Range(batch) = Range(batch') \cup {Head(batch)}
        /\ Head(batch) \notin Range(batch')
    BY <1>1, <1>2, TailFacts DEF PythonInv, QueuedOnce
  <1>4. Head(batch) \notin Range(claimedTasks)
    BY <1>3 DEF PythonInv, QueuedOnce
  <1>5. /\ claimedTasks' \in Seq(1 .. claimed) /\ Len(claimedTasks') = Len(claimedTasks) + 1
        /\ Range(claimedTasks') = Range(claimedTasks) \cup {Head(batch)}
        /\ IsInjective(claimedTasks')
    <2> DEFINE c == Append(claimedTasks, Head(batch))
    <2>1. c \in Seq(1 .. claimed) /\ Len(c) = Len(claimedTasks) + 1
      BY <1>1, <1>3, AppendFacts
    <2>2. IsInjective(claimedTasks)
      BY DEF PythonInv, QueuedOnce
    <2>3. Range(c) = Range(claimedTasks) \cup {Head(batch)} /\ IsInjective(c)
      BY <1>1, <1>3, <1>4, <2>2, AppendFacts
    <2>4. claimedTasks' = c
      BY <1>2
    <2> HIDE DEF c
    <2> QED
      BY <2>1, <2>3, <2>4
  <1>6. Queued' = Queued
    BY <1>3, <1>5 DEF Queued
  <1>7. WTypeOK'
    <2>1. Len(claimedTasks') <= Concurrency
      BY <1>1, <1>5
    <2>2. batch' # <<>> <=> claimer' = "putting"
      <3>1. batch' # <<>> <=> Len(batch) # 1
        BY <1>1, <1>3
      <3> QED
        BY <1>2, <3>1
    <2>3. WTypeOK
      BY DEF PythonInv
    <2>4. claimedTasks' \in Seq(1 .. claimed) /\ batch' \in Seq(1 .. claimed)
      BY <1>3, <1>5
    <2> QED
      BY <1>2, <2>1, <2>2, <2>3, <2>4 DEF WTypeOK, turn, processes, commits
  <1>8. QueuedOnce'
    BY <1>2, <1>3, <1>5, <1>6 DEF PythonInv, QueuedOnce, turn, processes
  <1>9. PolledOnce' /\ Lossless' /\ RunsOn'
    BY <1>2, <1>6 DEF PythonInv, PolledOnce, Lossless, RunsOn, Put, turn, processes, commits
  <1> QED
    BY <1>6, <1>7, <1>8, <1>9 DEF PythonInv

(* The steps that only move a thread on, and set shutdown.                 *)
LEMMA MovesKeep ==
  ASSUME PythonInv,
         \/ ClaimerChecks \/ ClaimFails \/ ClaimerStops
         \/ NapEnds \/ Decides \/ ShutdownCalled \/ Returns \/ Raises
         \/ ResulterEmpty \/ ResulterLooks \/ UNCHANGED vars
  PROVE  PythonInv'
  <1>1. /\ UNCHANGED <<claimed, batch, idle, claimedTasks, got, inflight, look, keep, ready, gone,
                       taskResults, taken>>
        /\ shutdown => shutdown'
        /\ main' = "polling" => main = "polling"
        /\ pool' => pool /\ (main = "polling" => main' = "polling")
        /\ RunsOn'
    <2>1. CASE ClaimerChecks \/ ClaimFails \/ ClaimerStops
      BY <2>1 DEF ClaimerChecks, ClaimFails, ClaimerStops, turn, processes, commits,
                  PythonInv, RunsOn
    <2>2. CASE ResulterEmpty \/ ResulterLooks
      BY <2>2 DEF ResulterEmpty, ResulterLooks, claims, turn, processes, PythonInv, RunsOn
    <2>3. CASE NapEnds \/ ShutdownCalled \/ Returns \/ Raises
      BY <2>3 DEF NapEnds, ShutdownCalled, Returns, Raises, claims, processes, commits,
                  PythonInv, RunsOn
    <2>4. CASE Decides
      <3>1. ~shutdown
        BY <2>4 DEF Decides, PythonInv, RunsOn
      <3> QED
        BY <2>4, <3>1 DEF Decides, claims, processes, commits, RunsOn
    <2>5. CASE UNCHANGED vars
      BY <2>5 DEF vars, claims, turn, processes, commits, PythonInv, RunsOn
    <2> QED
      BY <2>1, <2>2, <2>3, <2>4, <2>5
  <1>2. /\ claimer' \in {"loop", "claiming", "putting", "dead", "stopped"}
        /\ main' \in {"getting", "polling", "napping", "deciding", "raised", "joining",
                       "ending", "returned"}
        /\ resulter' \in {"loop", "empty", "dead", "stopped"}
        /\ pool' \in BOOLEAN /\ shutdown' \in BOOLEAN
        /\ batch # <<>> <=> claimer' = "putting"
    <2>1. CASE ClaimerChecks \/ ClaimFails \/ ClaimerStops
      BY <2>1 DEF ClaimerChecks, ClaimFails, ClaimerStops, turn, processes, commits,
                  PythonInv, WTypeOK
    <2>2. CASE ResulterEmpty \/ ResulterLooks
      BY <2>2 DEF ResulterEmpty, ResulterLooks, claims, turn, processes, PythonInv, WTypeOK
    <2>3. CASE NapEnds \/ Decides \/ ShutdownCalled \/ Returns \/ Raises
      BY <2>3 DEF NapEnds, Decides, ShutdownCalled, Returns, Raises, claims, processes, commits,
                  PythonInv, WTypeOK
    <2>4. CASE UNCHANGED vars
      BY <2>4 DEF vars, claims, turn, processes, commits, PythonInv, WTypeOK
    <2> QED
      BY <2>1, <2>2, <2>3, <2>4
  <1>3. WTypeOK'
    BY <1>1, <1>2 DEF PythonInv, WTypeOK
  <1>4. QueuedOnce' /\ Lossless'
    BY <1>1 DEF PythonInv, QueuedOnce, Lossless, Queued, Put
  <1>5. PolledOnce'
    BY <1>1, <1>2 DEF PythonInv, PolledOnce, Put
  <1> QED
    BY <1>1, <1>3, <1>4, <1>5 DEF PythonInv

----------------------------------------------------------------------------
(* The pool *)

LEMMA PoolKeeps ==
  ASSUME PythonInv, NEW n \in 1 .. ClaimBound, TaskReturns(n) \/ ProcessDies(n)
  PROVE  PythonInv'
  <1>1. /\ UNCHANGED <<claims, claimedTasks, turn, pool, taskResults, commits, shutdown>>
        /\ n \in Range(inflight)
        /\ ready' \in {ready, ready \cup {n}} /\ gone' \in {gone, gone \cup {n}}
    BY DEF TaskReturns, ProcessDies, Executing
  <1>2. n \in 1 .. claimed
    BY <1>1, RangeIn DEF PythonInv, WTypeOK
  <1>3. WTypeOK'
    BY <1>1, <1>2 DEF PythonInv, WTypeOK, claims, turn, commits
  <1>4. QueuedOnce'
    BY <1>1 DEF PythonInv, QueuedOnce, Queued, claims, turn
  <1>5. PolledOnce' /\ Lossless' /\ RunsOn'
    BY <1>1 DEF PythonInv, PolledOnce, Lossless, RunsOn, Queued, Put, claims, turn, commits
  <1> QED
    BY <1>3, <1>4, <1>5 DEF PythonInv

----------------------------------------------------------------------------
(* The result thread *)

LEMMA ResultTakenKeeps == ASSUME PythonInv, ResultTaken PROVE PythonInv'
  <1>1. /\ taskResults # <<>> /\ taskResults' = Tail(taskResults)
        /\ taken' = taken \cup {Head(taskResults)} /\ resulter' \in {"dead", "loop"}
        /\ UNCHANGED <<claims, claimedTasks, turn, processes, shutdown>>
    BY DEF ResultTaken
  <1>2. /\ taskResults \in Seq(1 .. claimed)
        /\ Range(taskResults) \subseteq ready /\ taken \subseteq ready
    BY DEF PythonInv, WTypeOK, PolledOnce
  <1>3. /\ taskResults' \in Seq(1 .. claimed) /\ Len(taskResults') = Len(taskResults) - 1
        /\ Range(taskResults) = Range(taskResults') \cup {Head(taskResults)}
        /\ IsInjective(taskResults)
             => IsInjective(taskResults') /\ Head(taskResults) \notin Range(taskResults')
    BY <1>1, <1>2, TailFacts
  <1>4. Put' = Put
    BY <1>1, <1>3 DEF Put
  <1>5. WTypeOK'
    <2>1. Len(taskResults') <= Concurrency
      BY <1>2, <1>3 DEF PythonInv, WTypeOK
    <2>2. taken' \subseteq ready
      BY <1>1, <1>2, <1>3
    <2> QED
      BY <1>1, <1>3, <2>1, <2>2 DEF PythonInv, WTypeOK, claims, turn, processes
  <1>6. QueuedOnce' /\ Lossless' /\ RunsOn'
    BY <1>1, <1>4 DEF PythonInv, QueuedOnce, Lossless, RunsOn, Queued, claims, turn, processes
  <1>7. PolledOnce'
    BY <1>1, <1>2, <1>3, <1>4 DEF PythonInv, PolledOnce, turn, processes
  <1> QED
    BY <1>5, <1>6, <1>7 DEF PythonInv

----------------------------------------------------------------------------
(* The main thread *)

LEMMA GetsKeeps ==
  ASSUME PythonInv, Gets
  PROVE  PythonInv' /\ Queued' \cup Range(inflight') = Queued \cup Range(inflight)
  <1>1. /\ main = "getting" /\ main' = "polling" /\ look' = inflight' /\ keep' = <<>>
        /\ got' \in BOOLEAN
        /\ UNCHANGED <<claims, processes, taskResults, commits, shutdown>>
    BY DEF Gets
  <1>2. /\ claimedTasks \in Seq(1 .. claimed) /\ inflight \in Seq(1 .. claimed)
        /\ taken \subseteq ready /\ Range(taskResults) \subseteq ready
    BY DEF PythonInv, WTypeOK, PolledOnce
  <1>3. /\ inflight' \in Seq(1 .. claimed) /\ claimedTasks' \in Seq(1 .. claimed)
        /\ Len(claimedTasks') <= Len(claimedTasks)
        /\ IsInjective(inflight') /\ IsInjective(claimedTasks')
        /\ Range(claimedTasks') \subseteq Range(claimedTasks)
        /\ Range(claimedTasks') \cup Range(inflight') = Range(claimedTasks) \cup Range(inflight)
        /\ Range(claimedTasks') \cap Range(inflight') = {}
        /\ Range(inflight') \subseteq Range(inflight) \cup Range(claimedTasks)
        /\ Range(inflight) \subseteq Range(inflight')
        /\ Range(batch) \cap Range(inflight') = {}
    <2>1. CASE claimedTasks = <<>>
      BY <1>2, <2>1 DEF Gets, PythonInv, QueuedOnce, PolledOnce, Queued
    <2>2. CASE claimedTasks # <<>>
      <3>1. /\ inflight' = Append(inflight, Head(claimedTasks))
            /\ claimedTasks' = Tail(claimedTasks)
        BY <2>2 DEF Gets
      <3>2. /\ claimedTasks' \in Seq(1 .. claimed) /\ Len(claimedTasks') = Len(claimedTasks) - 1
            /\ Head(claimedTasks) \in 1 .. claimed
            /\ Range(claimedTasks) = Range(claimedTasks') \cup {Head(claimedTasks)}
            /\ IsInjective(claimedTasks') /\ Head(claimedTasks) \notin Range(claimedTasks')
        BY <1>2, <2>2, <3>1, TailFacts DEF PythonInv, QueuedOnce
      <3>3. Head(claimedTasks) \notin Range(inflight) /\ Head(claimedTasks) \notin Range(batch)
        BY <3>2 DEF PythonInv, QueuedOnce, Queued
      <3>4. /\ inflight' \in Seq(1 .. claimed) /\ IsInjective(inflight')
            /\ Range(inflight') = Range(inflight) \cup {Head(claimedTasks)}
        BY <1>2, <3>1, <3>2, <3>3, AppendFacts DEF PythonInv, PolledOnce
      <3>5. Len(claimedTasks) \in Nat
        BY <1>2
      <3> QED
        BY <3>2, <3>3, <3>4, <3>5 DEF PythonInv, QueuedOnce, Queued
    <2> QED
      BY <2>1, <2>2
  <1>4. WTypeOK'
    <2>1. Len(claimedTasks') <= Concurrency
      BY <1>2, <1>3 DEF PythonInv, WTypeOK
    <2> QED
      BY <1>1, <1>3, <2>1, EmptyFacts DEF PythonInv, WTypeOK, claims, processes, commits
  <1>5. QueuedOnce'
    BY <1>1, <1>3 DEF PythonInv, QueuedOnce, Queued, claims, processes
  <1>6. PolledOnce'
    <2>1. pool => Range(inflight') \cap Put = {}
      <3>1. Range(claimedTasks) \cap Put = {}
        BY <1>2 DEF PythonInv, QueuedOnce, Queued, Put
      <3>2. pool => Range(inflight) \cap Put = {}
        BY <1>1 DEF PythonInv, PolledOnce
      <3> QED
        BY <1>3, <3>1, <3>2
    <2> QED
      BY <1>1, <1>3, <2>1, EmptyFacts DEF PythonInv, PolledOnce, Put, processes, commits
  <1>7. Lossless' /\ RunsOn'
    BY <1>1, <1>3 DEF PythonInv, Lossless, RunsOn, Queued, Put, claims, commits
  <1>8. Queued' \cup Range(inflight') = Queued \cup Range(inflight)
    BY <1>1, <1>3 DEF Queued, claims
  <1> QED
    BY <1>4, <1>5, <1>6, <1>7, <1>8 DEF PythonInv

LEMMA PollsOneKeeps ==
  ASSUME PythonInv, PollsOne
  PROVE  /\ PythonInv'
         /\ Range(taskResults) \subseteq Range(taskResults')
         /\ Range(taskResults') \subseteq Range(taskResults) \cup Range(inflight)
  <1>1. PICK Claims : Claims = 1 .. claimed
    OBVIOUS
  <1> PICK n : n = Head(look)
    OBVIOUS
  <1>2. /\ main = "polling" /\ look # <<>> /\ look' = Tail(look)
        /\ n \in ready => ~Full(taskResults)
        /\ taskResults' = IF n \in ready THEN Append(taskResults, n) ELSE taskResults
        /\ keep' = IF n \in ready THEN keep ELSE Append(keep, n)
        /\ UNCHANGED <<claims, claimedTasks, main, got, inflight, processes, commits, shutdown>>
    BY DEF PollsOne, StillRunning
  <1>3. /\ look \in Seq(Claims) /\ keep \in Seq(Claims)
        /\ taskResults \in Seq(Claims) /\ Len(taskResults) \in Nat
    BY <1>1 DEF PythonInv, WTypeOK
  <1>4. /\ look' \in Seq(Claims) /\ IsInjective(look') /\ n \in Claims
        /\ Range(look) = Range(look') \cup {n} /\ n \notin Range(look')
    BY <1>2, <1>3, TailFacts DEF PythonInv, PolledOnce
  <1>5. n \notin Range(keep) /\ (pool => n \notin Put)
    BY <1>2, <1>4 DEF PythonInv, PolledOnce
  <1>6. /\ keep' \in Seq(Claims) /\ IsInjective(keep')
        /\ Range(keep') = IF n \in ready THEN Range(keep) ELSE Range(keep) \cup {n}
    <2>1. /\ Append(keep, n) \in Seq(Claims)
          /\ Range(Append(keep, n)) = Range(keep) \cup {n}
          /\ IsInjective(keep) => IsInjective(Append(keep, n))
      BY <1>3, <1>4, <1>5, AppendFacts
    <2>2. IsInjective(keep)
      BY <1>2 DEF PythonInv, PolledOnce
    <2> QED
      BY <1>2, <1>3, <2>1, <2>2
  <1>7. /\ taskResults' \in Seq(Claims) /\ Len(taskResults') <= Concurrency
        /\ Range(taskResults') = IF n \in ready THEN Range(taskResults) \cup {n}
                                               ELSE Range(taskResults)
        /\ pool => IsInjective(taskResults')
    <2>1. CASE n \in ready
      <3>1. /\ taskResults' = Append(taskResults, n) /\ Len(taskResults) < Concurrency
            /\ pool => n \notin Range(taskResults)
        BY <1>2, <1>3, <1>5, <2>1 DEF Full, Put
      <3>2. /\ taskResults' \in Seq(Claims) /\ Len(taskResults') = Len(taskResults) + 1
            /\ Range(taskResults') = Range(taskResults) \cup {n}
            /\ IsInjective(taskResults) /\ n \notin Range(taskResults)
                 => IsInjective(taskResults')
        BY <1>3, <1>4, <3>1, AppendFacts
      <3>3. Len(taskResults') <= Concurrency
        BY <1>3, <3>1, <3>2
      <3> QED
        BY <2>1, <3>1, <3>2, <3>3 DEF PythonInv, PolledOnce
    <2>2. CASE n \notin ready
      BY <1>2, <1>3, <2>2, <1>1 DEF PythonInv, WTypeOK, PolledOnce
    <2> QED
      BY <2>1, <2>2
  <1>8. /\ Put' = IF n \in ready THEN Put \cup {n} ELSE Put
        /\ Put \subseteq Put'
    BY <1>2, <1>7 DEF Put, commits
  <1>9. WTypeOK'
    BY <1>1, <1>2, <1>4, <1>6, <1>7 DEF PythonInv, WTypeOK, claims, processes, commits
  <1>10. QueuedOnce'
    BY <1>2 DEF PythonInv, QueuedOnce, Queued, claims, processes
  <1>11. PolledOnce'
    <2>1. IsInjective(inflight') /\ Range(taskResults') \subseteq ready'
      BY <1>2, <1>7 DEF PythonInv, PolledOnce, processes
    <2>2. /\ Range(look') \cap Range(keep') = {}
          /\ Range(look') \cup Range(keep') \subseteq Range(inflight')
          /\ Range(inflight') \subseteq Range(look') \cup Range(keep') \cup Put'
      BY <1>2, <1>4, <1>6, <1>8 DEF PythonInv, PolledOnce
    <2>3. pool => /\ Range(taskResults') \cap taken = {}
                  /\ (Range(look') \cup Range(keep')) \cap Put' = {}
      BY <1>2, <1>4, <1>5, <1>6, <1>7, <1>8 DEF PythonInv, PolledOnce, Put
    <2> QED
      BY <1>2, <1>4, <1>6, <1>7, <2>1, <2>2, <2>3 DEF PolledOnce, processes, commits
  <1>12. Lossless' /\ RunsOn'
    BY <1>2, <1>8 DEF PythonInv, Lossless, RunsOn, Queued, claims
  <1>13. n \in Range(inflight)
    BY <1>2, <1>4 DEF PythonInv, PolledOnce
  <1> QED
    BY <1>7, <1>9, <1>10, <1>11, <1>12, <1>13 DEF PythonInv

LEMMA PollEndsKeeps == ASSUME PythonInv, PollEnds PROVE PythonInv'
  <1>1. /\ main = "polling" /\ look = <<>> /\ inflight' = keep /\ keep' = <<>>
        /\ look' = keep \/ (look' = <<>> /\ main' # "polling")
        /\ main' \in {"ending", "polling", "getting", "deciding", "napping"}
        /\ main' \in {"getting", "deciding", "napping"} => ~shutdown
        /\ main' = "ending" => keep = <<>>
        /\ UNCHANGED <<claims, claimedTasks, got, processes, taskResults, commits, shutdown>>
    BY DEF PollEnds
  <1>2. /\ keep \in Seq(1 .. claimed) /\ IsInjective(keep) /\ Range(look) = {}
        /\ Range(keep) \subseteq Range(inflight)
        /\ Range(inflight) \subseteq Range(keep) \cup Put
        /\ pool => Range(keep) \cap Put = {}
    BY <1>1, EmptyFacts DEF PythonInv, WTypeOK, PolledOnce
  <1>3. WTypeOK'
    BY <1>1, <1>2, EmptyFacts DEF PythonInv, WTypeOK, claims, processes, commits
  <1>4. QueuedOnce'
    BY <1>1, <1>2 DEF PythonInv, QueuedOnce, Queued, claims, processes
  <1>5. PolledOnce'
    BY <1>1, <1>2, EmptyFacts DEF PythonInv, PolledOnce, Put, processes, commits
  <1>6. Lossless' /\ RunsOn'
    BY <1>1, <1>2 DEF PythonInv, Lossless, RunsOn, Queued, Put, claims, commits
  <1> QED
    BY <1>3, <1>4, <1>5, <1>6 DEF PythonInv

LEMMA JoinsKeeps == ASSUME PythonInv, Joins PROVE PythonInv'
  <1>1. /\ main = "joining" /\ main' = "polling" /\ look' = inflight /\ keep' = <<>>
        /\ UNCHANGED <<claims, claimedTasks, got, inflight, processes, taskResults,
                       commits, shutdown>>
    BY DEF Joins
  <1>2. WTypeOK'
    BY <1>1, EmptyFacts DEF PythonInv, WTypeOK, claims, processes, commits
  <1>3. QueuedOnce' /\ Lossless' /\ RunsOn'
    BY <1>1 DEF PythonInv, QueuedOnce, Lossless, RunsOn, Queued, Put, claims, processes, commits
  <1>4. PolledOnce'
    BY <1>1, EmptyFacts DEF PythonInv, PolledOnce, Put, processes, commits
  <1> QED
    BY <1>2, <1>3, <1>4 DEF PythonInv

----------------------------------------------------------------------------
(* Every step *)

LEMMA PythonStep == PythonInv /\ [Next]_vars => PythonInv'
  <1> SUFFICES ASSUME PythonInv, [Next]_vars PROVE PythonInv'
    OBVIOUS
  <1>1. CASE ClaimerStep \/ (Running /\ ClaimFails)
    BY <1>1, MovesKeep, ClaimKeeps, ClaimerPutsKeeps DEF ClaimerStep
  <1>2. CASE MainStep \/ Raises
    BY <1>2, MovesKeep, GetsKeeps, PollsOneKeeps, PollEndsKeeps, JoinsKeeps DEF MainStep
  <1>3. CASE ResulterStep \/ UNCHANGED vars
    BY <1>3, MovesKeep, ResultTakenKeeps DEF ResulterStep
  <1>4. ASSUME NEW n \in 1 .. ClaimBound, TaskReturns(n) \/ ProcessDies(n) PROVE PythonInv'
    BY <1>4, PoolKeeps
  <1> QED
    BY <1>1, <1>2, <1>3, <1>4 DEF Next

LEMMA PythonInvariant == Spec => []PythonInv
  BY PythonInit, PythonStep, PTL DEF Spec

(* Every reachable state of the Python worker is well typed: its queues    *)
(* stay within worker_concurrency, and only what a task has returned is    *)
(* taken for its result (worker.py:150-260).                               *)
THEOREM PythonTypeCorrect == Spec => []WTypeOK
  <1>1. PythonInv => WTypeOK
    BY DEF PythonInv
  <1> QED
    BY <1>1, PythonInvariant, PTL

(* No claim is handed to the pool twice and, unless an exception leaves    *)
(* run() in the middle of a poll, no result is committed twice             *)
(* (worker.py:401-410).                                                    *)
THEOREM AppliedOnceHolds == Spec => []AppliedOnce
  <1>1. PythonInv => AppliedOnce
    BY PythonInvSuffices
  <1> QED
    BY <1>1, PythonInvariant, PTL

(* Until it shuts down, no queue and no turn of the poll drops a claim or  *)
(* a result (worker.py:221, worker.py:405).                                *)
THEOREM PythonLosesNothing == Spec => []NothingLost
  <1>1. PythonInv => NothingLost
    BY PythonInvSuffices
  <1> QED
    BY <1>1, PythonInvariant, PTL

----------------------------------------------------------------------------
(* What the worker does to its claims *)

(* No process returns a task and dies under it. *)
DeadAreNotReady == ready \cap gone = {}

LEMMA DeadStep == PythonInv /\ DeadAreNotReady /\ [Next]_vars => DeadAreNotReady'
  <1> SUFFICES ASSUME DeadAreNotReady, [Next]_vars PROVE DeadAreNotReady'
    OBVIOUS
  <1> USE DEF claims, turn, processes, commits, DeadAreNotReady
  <1>1. CASE ClaimerStep \/ (Running /\ ClaimFails)
    BY <1>1 DEF ClaimerStep, ClaimFails, ClaimerChecks, Claim, ClaimerPuts, ClaimerStops
  <1>2. CASE MainStep \/ Raises
    BY <1>2 DEF MainStep, Raises, Gets, PollsOne, PollEnds, NapEnds, Decides, ShutdownCalled,
                Joins, Returns
  <1>3. CASE ResulterStep \/ UNCHANGED vars
    BY <1>3 DEF ResulterStep, ResultTaken, ResulterEmpty, ResulterLooks, vars
  <1>4. ASSUME NEW n \in 1 .. ClaimBound, TaskReturns(n) \/ ProcessDies(n)
        PROVE  DeadAreNotReady'
    BY <1>4 DEF TaskReturns, ProcessDies, Executing
  <1> QED
    BY <1>1, <1>2, <1>3, <1>4 DEF Next

LEMMA PythonInvariantAndDead == Spec => [](PythonInv /\ DeadAreNotReady)
  <1>1. Init => PythonInv /\ DeadAreNotReady
    BY PythonInit DEF Init, DeadAreNotReady
  <1>2. PythonInv /\ DeadAreNotReady /\ [Next]_vars => (PythonInv /\ DeadAreNotReady)'
    BY PythonStep, DeadStep
  <1> QED
    BY <1>1, <1>2, PTL DEF Spec

LEMMA HeldIs ==
  ASSUME PythonInv
  PROVE  Held = (Queued \cup Range(inflight) \cup Range(taskResults)) \ (taken \cup gone)
  <1>1. /\ batch \in Seq(1 .. claimed) /\ claimedTasks \in Seq(1 .. claimed)
        /\ inflight \in Seq(1 .. claimed) /\ taskResults \in Seq(1 .. claimed)
    BY DEF PythonInv, WTypeOK
  <1> QED
    BY <1>1, ConcatRange DEF Held, Queued

LEMMA HeldIsThen ==
  ASSUME PythonInv'
  PROVE  Held' = (Queued' \cup Range(inflight') \cup Range(taskResults')) \ (taken' \cup gone')
  <1>1. /\ batch' \in Seq(1 .. claimed') /\ claimedTasks' \in Seq(1 .. claimed')
        /\ inflight' \in Seq(1 .. claimed') /\ taskResults' \in Seq(1 .. claimed')
    BY DEF PythonInv, WTypeOK
  <1> QED
    BY <1>1, ConcatRange DEF Held, Queued

(* A step that only moves claims between the queues, or gives up futures   *)
(* whose results were put.                                                 *)
LEMMA PythonStutters ==
  ASSUME PythonInv, PythonInv', UNCHANGED <<claimed, taken, gone>>,
         (Queued \cup Range(inflight) \cup Range(taskResults)) \ taken
           = (Queued' \cup Range(inflight') \cup Range(taskResults')) \ taken'
  PROVE  UNCHANGED Promise!promised
  <1>1. Held' = Held
    BY HeldIs, HeldIsThen
  <1> QED
    BY <1>1 DEF Promise!promised

LEMMA PythonPromiseStep ==
  ASSUME PythonInv, PythonInv', DeadAreNotReady, [Next]_vars
  PROVE  [Promise!PNext]_(Promise!promised)
  <1> USE DEF claims, turn, processes, commits
  <1>1. ASSUME Claim PROVE Promise!PNext
    <2>1. PICK rows \in 0 .. Concurrency :
            claimed + rows <= ClaimBound /\ claimed' = claimed + rows
      BY <1>1 DEF Claim
    <2>2. rows \in 0 .. ClaimBound /\ claimed \in Nat
      BY <2>1 DEF PythonInv, WTypeOK
    <2>3. UNCHANGED <<inflight, taskResults, taken, gone>>
      BY <1>1 DEF Claim
    <2>4. taken \subseteq 1 .. claimed /\ gone \subseteq 1 .. claimed
      BY DEF PythonInv, WTypeOK
    <2>5. (claimed + 1 .. claimed') \cap (1 .. claimed) = {}
      BY <2>1, <2>2
    <2>6. Held' = Held \cup (claimed + 1 .. claimed')
      BY <1>1, <2>3, <2>4, <2>5, ClaimKeeps, HeldIs, HeldIsThen
    <2>7. Promise!ClaimsMore(rows)
      BY <2>1, <2>3, <2>6 DEF Promise!ClaimsMore
    <2> QED
      BY <2>2, <2>3, <2>7 DEF Promise!PNext
  <1>2. ASSUME ClaimerPuts \/ Gets \/ PollsOne PROVE UNCHANGED Promise!promised
    <2>1. UNCHANGED <<claimed, taken, gone>>
      BY <1>2 DEF ClaimerPuts, Gets, PollsOne
    <2>2. CASE ClaimerPuts
      BY <2>1, <2>2, ClaimerPutsKeeps, PythonStutters DEF ClaimerPuts
    <2>3. CASE Gets
      BY <2>1, <2>3, GetsKeeps, PythonStutters DEF Gets
    <2>4. CASE PollsOne
      <3>1. UNCHANGED <<batch, claimedTasks, inflight>>
        BY <2>4 DEF PollsOne
      <3> QED
        BY <2>1, <2>4, <3>1, PollsOneKeeps, PythonStutters DEF Queued
    <2> QED
      BY <1>2, <2>2, <2>3, <2>4
  <1>3. ASSUME PollEnds PROVE UNCHANGED Promise!promised
    <2>1. /\ main = "polling" /\ look = <<>> /\ inflight' = keep
          /\ UNCHANGED <<claimed, batch, claimedTasks, taskResults, taken, gone>>
      BY <1>3 DEF PollEnds
    <2>2. /\ Range(keep) \subseteq Range(inflight)
          /\ Range(inflight) \subseteq Range(keep) \cup Range(taskResults) \cup taken
      BY <2>1, EmptyFacts DEF PythonInv, PolledOnce, Put
    <2> QED
      BY <2>1, <2>2, PythonStutters DEF Queued
  <1>4. ASSUME ResultTaken PROVE [Promise!PNext]_(Promise!promised)
    <2> PICK n : n = Head(taskResults)
      OBVIOUS
    <2>1. /\ taskResults # <<>> /\ taskResults' = Tail(taskResults) /\ taken' = taken \cup {n}
          /\ UNCHANGED <<claimed, batch, claimedTasks, inflight, gone>>
      BY <1>4 DEF ResultTaken
    <2>2. /\ Range(taskResults) = Range(taskResults') \cup {n}
          /\ Range(taskResults) \subseteq ready
      BY <2>1, TailFacts DEF PythonInv, WTypeOK, PolledOnce
    <2>3. n \in Range(taskResults) /\ n \notin gone
      BY <2>2 DEF DeadAreNotReady
    <2>4. Held' = Held \ {n}
      BY <2>1, <2>2, HeldIs, HeldIsThen DEF Queued
    <2>5. CASE n \in taken
      <3>1. taken' = taken /\ n \notin Held
        BY <2>1, <2>5, HeldIs
      <3> QED
        BY <2>1, <2>4, <3>1 DEF Promise!promised
    <2>6. CASE n \notin taken
      <3>1. n \in Held \ taken
        BY <2>3, <2>6, HeldIs
      <3>2. Promise!SettlesOne(n)
        BY <2>1, <2>4, <3>1 DEF Promise!SettlesOne
      <3> QED
        BY <2>1, <3>1, <3>2 DEF Promise!PNext
    <2> QED
      BY <2>5, <2>6
  <1>5. ASSUME NEW n \in 1 .. ClaimBound, TaskReturns(n)
        PROVE  UNCHANGED Promise!promised
    <2>1. UNCHANGED <<claimed, batch, claimedTasks, inflight, taskResults, taken, gone>>
      BY <1>5 DEF TaskReturns
    <2> QED
      BY <2>1, PythonStutters DEF Queued
  <1>6. ASSUME NEW n \in 1 .. ClaimBound, ProcessDies(n)
        PROVE  Promise!PNext
    <2>1. /\ n \in Range(inflight) \ (ready \cup gone) /\ gone' = gone \cup {n}
          /\ UNCHANGED <<claimed, batch, claimedTasks, inflight, taskResults, taken>>
      BY <1>6 DEF ProcessDies, Executing
    <2>2. n \in Held
      BY <2>1, HeldIs DEF PythonInv, WTypeOK
    <2>3. Held' = Held \ {n}
      BY <2>1, HeldIs, HeldIsThen DEF Queued
    <2>4. Promise!LosesSome({n}) /\ gone' # {}
      BY <2>1, <2>3 DEF Promise!LosesSome
    <2> QED
      BY <2>2, <2>4 DEF Promise!PNext
  <1>7. ASSUME \/ ClaimerChecks \/ ClaimFails \/ ClaimerStops
               \/ NapEnds \/ Decides \/ ShutdownCalled \/ Returns \/ Raises \/ Joins
               \/ ResulterEmpty \/ ResulterLooks \/ UNCHANGED vars
        PROVE  UNCHANGED Promise!promised
    <2>1. UNCHANGED <<claimed, batch, claimedTasks, inflight, taskResults, taken, gone>>
      <3>1. CASE ClaimerChecks \/ ClaimFails \/ ClaimerStops
        BY <3>1 DEF ClaimerChecks, ClaimFails, ClaimerStops
      <3>2. CASE NapEnds \/ Decides \/ ShutdownCalled \/ Returns \/ Raises \/ Joins
        BY <3>2 DEF NapEnds, Decides, ShutdownCalled, Returns, Raises, Joins
      <3>3. CASE ResulterEmpty \/ ResulterLooks \/ UNCHANGED vars
        BY <3>3 DEF ResulterEmpty, ResulterLooks, vars
      <3> QED
        BY <1>7, <3>1, <3>2, <3>3
    <2> QED
      BY <2>1, PythonStutters DEF Queued
  <1> QED
    BY <1>1, <1>2, <1>3, <1>4, <1>5, <1>6, <1>7
    DEF Next, ClaimerStep, MainStep, ResulterStep

LEMMA PythonPromiseInit == Init => Promise!PInit
  <1> SUFFICES ASSUME Init PROVE Promise!PInit
    OBVIOUS
  <1>1. Held = {}
    BY PythonInit, HeldIs, EmptyFacts DEF Init, Queued
  <1> QED
    BY <1>1 DEF Init, Promise!PInit

(* The Python worker keeps the promise of WorkerPromise: all it does to    *)
(* its claims is to claim, to settle each once, and to drop the one whose  *)
(* process was killed (worker.py:183-433).                                 *)
THEOREM PythonKeepsPromise == Spec => KeepsPromise
  <1>1. PythonInv /\ DeadAreNotReady /\ PythonInv' /\ [Next]_vars
          => [Promise!PNext]_(Promise!promised)
    BY PythonPromiseStep
  <1> QED
    BY <1>1, PythonPromiseInit, PythonInvariantAndDead, PTL
    DEF Spec, KeepsPromise, Promise!PSpec
=============================================================================
