--------------------------- MODULE SchedulerProofs ---------------------------
(***************************************************************************)
(* The scheduler keeps its promises for every configuration of timedeltas  *)
(* and crontabs, and however slow its turns are: the table is never ahead  *)
(* of what was spawned, no interval is spawned twice, and an entry that    *)
(* can be spawned is, in less than three turns.  The inductive invariant   *)
(* is SchedInv.                                                            *)
(***************************************************************************)
EXTENDS Scheduler, FiniteSetTheorems, SequenceTheorems, TLAPS

----------------------------------------------------------------------------
(* Arithmetic *)

LEMMA DivisionExact ==
  ASSUME NEW P \in Nat \ {0}, NEW a \in Int
  PROVE  a = (P * (a \div P)) + (a % P)
  BY SMT

LEMMA RemainderUnique ==
  ASSUME NEW P \in Nat \ {0}, NEW p \in Int, NEW q \in Int,
         NEW r \in 0 .. P - 1, NEW s \in 0 .. P - 1, (p * P) + r = (q * P) + s
  PROVE  r = s
  BY SMT

(* A remainder does not change when a multiple of the divisor is added.    *)
LEMMA RemainderPeriodic ==
  ASSUME NEW P \in Nat \ {0}, NEW a \in Int, NEW k \in Int
  PROVE  (a + k * P) % P = a % P
  <1> DEFINE b == a + k * P
             r == a % P
             s == b % P
             p == (a \div P) + k
             q == b \div P
  <1>1. /\ r \in 0 .. P - 1 /\ s \in 0 .. P - 1
        /\ p \in Int /\ q \in Int /\ (a \div P) \in Int /\ b \in Int
    BY SMT
  <1>2. a = (P * (a \div P)) + r /\ b = (P * q) + s
    BY DivisionExact
  <1>3. (p * P) + r = (q * P) + s
    <2>1. p * P = (P * (a \div P)) + k * P
      BY <1>1, SMT
    <2> QED BY <2>1, <1>2, <1>1, SMT
  <1> HIDE DEF r, s, p, q, b
  <1>4. r = s
    BY <1>1, <1>3, RemainderUnique
  <1> QED BY <1>4 DEF r, s, b

(* The clock, which starts again at Cycle, shows no difference to a period *)
(* that divides Cycle.                                                     *)
LEMMA CyclePeriodic ==
  ASSUME NEW P \in Nat \ {0}, NEW C \in Nat, C % P = 0, NEW a \in Int
  PROVE  (a + C) % P = a % P
  <1>1. C = (C \div P) * P /\ C \div P \in Int
    <2>1. C = (P * (C \div P)) + (C % P)
      BY DivisionExact
    <2> QED BY <2>1, SMT
  <1> QED BY <1>1, RemainderPeriodic

LEMMA ClockStep ==
  ASSUME NEW C \in Nat \ {0}, NEW c \in 0 .. C - 1
  PROVE  (c + 1) % C = IF c + 1 = C THEN 0 ELSE c + 1
  <1>1. (c + 1) \div C \in Int /\ (c + 1) % C \in 0 .. C - 1
    BY SMT
  <1>2. c + 1 = (C * ((c + 1) \div C)) + ((c + 1) % C)
    BY DivisionExact
  <1> DEFINE q == (c + 1) \div C
             r == (c + 1) % C
             n == IF c + 1 = C THEN 1 ELSE 0
             m == IF c + 1 = C THEN 0 ELSE c + 1
  <1>3. (q * C) + r = (n * C) + m
    BY <1>2, <1>1, SMT
  <1>4. n \in Int /\ m \in 0 .. C - 1 /\ q \in Int /\ r \in 0 .. C - 1
    BY <1>1, SMT
  <1> HIDE DEF q, r, n, m
  <1>5. r = m
    BY <1>3, <1>4, RemainderUnique
  <1> QED BY <1>5 DEF r, m

----------------------------------------------------------------------------
(* Sorting *)

(* Places that are counted, as Sorted does: everybody has one, and one who *)
(* comes before another has a smaller one.                                 *)
LEMMA PlacesAreTaken ==
  ASSUME NEW n \in Nat, NEW key \in [1 .. n -> Int]
  PROVE  LET Before(i, j) == key[i] < key[j] \/ (key[i] = key[j] /\ i < j)
             place(i) == 1 + Cardinality({j \in 1 .. n : Before(j, i)})
         IN  /\ \A i, j \in 1 .. n : Before(i, j) => place(i) < place(j)
             /\ \A m \in 1 .. n : \E i \in 1 .. n : place(i) = m
             /\ \A i \in 1 .. n : place(i) \in 1 .. n
  <1> DEFINE Before(i, j) == key[i] < key[j] \/ (key[i] = key[j] /\ i < j)
             Ahead(i) == {j \in 1 .. n : Before(j, i)}
             place(i) == 1 + Cardinality(Ahead(i))
  <1>1. IsFiniteSet(1 .. n) /\ Cardinality(1 .. n) = n
    BY FS_Interval
  <1>2. ASSUME NEW i \in 1 .. n
        PROVE  /\ IsFiniteSet(Ahead(i)) /\ Cardinality(Ahead(i)) \in Nat
               /\ Cardinality(Ahead(i)) < n
    <2>1. Ahead(i) \in SUBSET (1 .. n)
      OBVIOUS
    <2>2. i \notin Ahead(i)
      OBVIOUS
    <2>3. Ahead(i) # 1 .. n
      BY <2>2
    <2>4. /\ IsFiniteSet(Ahead(i)) /\ Cardinality(Ahead(i)) <= n
          /\ n = Cardinality(Ahead(i)) => 1 .. n = Ahead(i)
      <3> HIDE DEF Ahead
      <3> QED BY <2>1, <1>1, FS_Subset
    <2>5. Cardinality(Ahead(i)) \in Nat
      BY <2>4, FS_CardinalityType
    <2> HIDE DEF Ahead
    <2> QED BY <2>3, <2>4, <2>5
  <1>3. ASSUME NEW i \in 1 .. n, NEW j \in 1 .. n, Before(i, j)
        PROVE  place(i) < place(j)
    <2>1. Ahead(i) \in SUBSET Ahead(j)
      BY <1>3
    <2>2. i \in Ahead(j) /\ i \notin Ahead(i)
      BY <1>3
    <2> HIDE DEF Ahead
    <2>3. /\ Cardinality(Ahead(i)) <= Cardinality(Ahead(j))
          /\ Cardinality(Ahead(j)) = Cardinality(Ahead(i)) => Ahead(j) = Ahead(i)
      BY <2>1, <1>2, FS_Subset
    <2> QED BY <2>2, <2>3, <1>2
  <1>4. \A i \in 1 .. n : place(i) \in 1 .. n
    <2> HIDE DEF Ahead
    <2> QED BY <1>2
  <1>5. ASSUME NEW m \in 1 .. n
        PROVE  \E i \in 1 .. n : place(i) = m
    <2> DEFINE p == [i \in 1 .. n |-> place(i)]
    <2>1. p \in [1 .. n -> 1 .. n]
      <3> HIDE DEF place
      <3> QED BY <1>4
    <2>2. ASSUME NEW i \in 1 .. n, NEW j \in 1 .. n, i # j
          PROVE  p[i] # p[j]
      <3>1. Before(i, j) \/ Before(j, i)
        BY <2>2
      <3>2. place(i) < place(j) \/ place(j) < place(i)
        <4> HIDE DEF place, Before
        <4> QED BY <3>1, <1>3
      <3> HIDE DEF place
      <3> QED BY <3>2, <1>4
    <2> HIDE DEF p
    <2>3. p \in Injection(1 .. n, 1 .. n)
      BY <2>1, <2>2 DEF Injection, IsInjective
    <2>4. p \in Surjection(1 .. n, 1 .. n)
      BY <2>3, <1>1, FS_Injection
    <2>5. PICK i \in 1 .. n : p[i] = m
      BY <2>4 DEF Surjection
    <2> HIDE DEF place
    <2>6. p[i] = place(i)
      BY DEF p
    <2> QED BY <2>5, <2>6
  <1> HIDE DEF place, Before
  <1>6. /\ \A i, j \in 1 .. n : Before(i, j) => place(i) < place(j)
        /\ \A m \in 1 .. n : \E i \in 1 .. n : place(i) = m
        /\ \A i \in 1 .. n : place(i) \in 1 .. n
    BY <1>3, <1>4, <1>5
  <1> QED BY <1>6 DEF place, Before

LEMMA RemainingType ==
  ASSUME phase \in Int, NEW e \in Entry, NEW now \in Int, NEW last \in Int
  PROVE  Remaining(e, now, last) \in Int
  <1>1. Period[e] \in Nat \ {0}
    BY PeriodAssumption
  <1> QED BY <1>1, SMT DEF Remaining, NextCron, NonNegative

(* Sorting loses no entry, doubles none, and puts first what is due first. *)
LEMMA SortedSorts ==
  ASSUME phase \in Int, NEW n \in Nat,
         NEW entries \in [1 .. n -> Scheduled], IsInjective(entries),
         NEW last, \A e \in Scheduled : last[e] \in Int
  PROVE  /\ Sorted(entries, last) \in [1 .. n -> Scheduled]
         /\ IsInjective(Sorted(entries, last))
         /\ Range(Sorted(entries, last)) = Range(entries)
         /\ \A i, j \in 1 .. n : i < j =>
              LET e == Sorted(entries, last)[i]
                  f == Sorted(entries, last)[j]
              IN  Remaining(e, 0, last[e]) <= Remaining(f, 0, last[f])
  <1> DEFINE key == [i \in 1 .. n |-> Remaining(entries[i], 0, last[entries[i]])]
             Before(i, j) == key[i] < key[j] \/ (key[i] = key[j] /\ i < j)
             place(i) == 1 + Cardinality({j \in 1 .. n : Before(j, i)})
             nth(m) == CHOOSE i \in 1 .. n : place(i) = m
             s == [m \in 1 .. n |-> entries[nth(m)]]
  <1>1. key \in [1 .. n -> Int]
    <2>1. \A i \in 1 .. n : entries[i] \in Entry /\ last[entries[i]] \in Int
      BY DEF Scheduled
    <2> QED BY <2>1, RemainingType
  <1>2. Sorted(entries, last) = s
    <2>1. DOMAIN entries = 1 .. n
      OBVIOUS
    <2> QED BY <2>1 DEF Sorted
  <1> HIDE DEF key
  <1>3. /\ \A i, j \in 1 .. n : Before(i, j) => place(i) < place(j)
        /\ \A m \in 1 .. n : \E i \in 1 .. n : place(i) = m
        /\ \A i \in 1 .. n : place(i) \in 1 .. n
    BY <1>1, PlacesAreTaken
  <1>4. \A i, j \in 1 .. n : i = j \/ Before(i, j) \/ Before(j, i)
    BY <1>1
  <1>5. \A i \in 1 .. n : key[i] = Remaining(entries[i], 0, last[entries[i]])
    BY DEF key
  <1>6. \A i, j \in 1 .. n : Before(i, j) => key[i] <= key[j]
    BY <1>1
  <1> HIDE DEF place, Before
  <1>7. \A m \in 1 .. n : nth(m) \in 1 .. n /\ place(nth(m)) = m
    BY <1>3
  <1>8. \A i \in 1 .. n : nth(place(i)) = i
    <2> SUFFICES ASSUME NEW i \in 1 .. n PROVE nth(place(i)) = i
      OBVIOUS
    <2>1. nth(place(i)) \in 1 .. n /\ place(nth(place(i))) = place(i)
      BY <1>3, <1>7
    <2> HIDE DEF nth
    <2>2. /\ Before(i, nth(place(i))) => place(i) < place(nth(place(i)))
          /\ Before(nth(place(i)), i) => place(nth(place(i))) < place(i)
      BY <2>1, <1>3
    <2>3. place(i) \in Int
      BY <1>3
    <2>4. ~ Before(i, nth(place(i))) /\ ~ Before(nth(place(i)), i)
      BY <2>1, <2>2, <2>3
    <2> QED BY <2>1, <2>4, <1>4
  <1> HIDE DEF nth
  <1>9. s \in [1 .. n -> Scheduled]
    BY <1>7
  <1>10. IsInjective(s)
    <2> SUFFICES ASSUME NEW a \in 1 .. n, NEW b \in 1 .. n, entries[nth(a)] = entries[nth(b)]
                 PROVE  a = b
      BY DEF IsInjective
    <2>1. nth(a) = nth(b)
      BY <1>7 DEF IsInjective
    <2> QED BY <2>1, <1>7
  <1>11. Range(s) = Range(entries)
    <2>1. \A m \in 1 .. n : entries[nth(m)] \in Range(entries)
      BY <1>7 DEF Range
    <2>2. \A i \in 1 .. n : entries[i] = s[place(i)] /\ place(i) \in DOMAIN s
      BY <1>3, <1>8
    <2>3. \A i \in 1 .. n : entries[i] \in Range(s)
      <3> HIDE DEF s
      <3> QED BY <2>2 DEF Range
    <2> QED BY <2>1, <2>3 DEF Range
  <1>12. ASSUME NEW i \in 1 .. n, NEW j \in 1 .. n, i < j
         PROVE  Remaining(s[i], 0, last[s[i]]) <= Remaining(s[j], 0, last[s[j]])
    <2>1. Before(nth(i), nth(j))
      <3>1. place(nth(i)) = i /\ place(nth(j)) = j /\ nth(i) \in 1 .. n /\ nth(j) \in 1 .. n
        BY <1>7
      <3>2. ~ Before(nth(j), nth(i))
        <4>1. Before(nth(j), nth(i)) => place(nth(j)) < place(nth(i))
          BY <1>3, <3>1
        <4> QED BY <4>1, <3>1, <1>12
      <3>3. nth(i) # nth(j)
        BY <3>1, <1>12
      <3> QED BY <3>1, <3>2, <3>3, <1>4
    <2>2. key[nth(i)] <= key[nth(j)]
      BY <2>1, <1>6, <1>7
    <2>3. s[i] = entries[nth(i)] /\ s[j] = entries[nth(j)]
      OBVIOUS
    <2> QED BY <2>2, <2>3, <1>5, <1>7
  <1> HIDE DEF s
  <1> QED BY <1>2, <1>9, <1>10, <1>11, <1>12

----------------------------------------------------------------------------
(* The inductive invariant *)

(* Seconds until an entry is due, by a clock and the age of its last run;  *)
(* negative when it is overdue.                                            *)
Until(e, clock, last) ==
  IF e \in Cron THEN Period[e] - ((clock - last) % Period[e]) - last ELSE Period[e] - last

Left(e) == Until(e, phase, age[e])

(* The first place of order that tick has not been through.                *)
Ahead == IF at = "spawned" THEN pos + 1 ELSE pos

(* Where the loop is agrees with what it has in hand.                      *)
LoopAgrees ==
  /\ ~Up => order = <<>>
  /\ ~InTurn => lag = 0
  /\ at # "sleeping" => nap = 0
  /\ at \notin {"ticking", "spawned"} => pos = 1
  /\ pos <= Len(order) + 1
  /\ at = "spawned" =>
       /\ pos <= Len(order)
       /\ age[order[pos]] = lag /\ spawnAge[order[pos]] = lag

(* The process takes for the last run of an entry what was last spawned,   *)
(* unless it could not know; the table has that or an earlier one.         *)
MemoryAgrees ==
  Up => \A e \in Scheduled :
          /\ spawnAge[e] # None /\ e \notin forgotten => age[e] = spawnAge[e]
          /\ stored[e] # None => stored[e] >= age[e]

(* What is still ahead of tick is sorted, though the clock has gone on     *)
(* since it was, except behind an entry that is due.                       *)
AheadSorted ==
  \A i, j \in DOMAIN order :
    Ahead <= i /\ i < j => Left(order[i]) + lag <= 0 \/ Left(order[i]) <= Left(order[j])

(* What tick has been through is not due at its `now`, unless it failed.   *)
BehindDone ==
  \A i \in DOMAIN order : i < Ahead => order[i] \in excused \/ Left(order[i]) + lag > 0

(* How late an entry may be: a sleep may be too long by a turn, and may    *)
(* have begun a turn late; the turn that follows adds its own time.        *)
LateBound ==
  Up => \A e \in Scheduled \ excused : -Left(e) <= 2 * LagBound - 1 + lag - nap

SchedInv ==
  /\ STypeOK /\ StoredWasSpawned
  /\ LoopAgrees /\ MemoryAgrees /\ AheadSorted /\ BehindDone /\ LateBound

----------------------------------------------------------------------------
(* What is left of an interval *)

LEMMA UntilBounds ==
  ASSUME NEW e \in Entry, NEW clock \in Int, NEW last \in Int
  PROVE  /\ Until(e, clock, last) \in Int
         /\ 1 - last <= Until(e, clock, last)
         /\ Until(e, clock, last) <= Period[e] - last
  <1>1. Period[e] \in Nat \ {0}
    BY PeriodAssumption
  <1>2. (clock - last) % Period[e] \in 0 .. Period[e] - 1
    BY <1>1, SMT
  <1> QED BY <1>1, <1>2, SMT DEF Until

(* A second takes one from what is left, the clock's turn included.        *)
LEMMA UntilStep ==
  ASSUME NEW e \in Entry, NEW clock \in 0 .. Cycle - 1, NEW last \in Int
  PROVE  Until(e, (clock + 1) % Cycle, last + 1) = Until(e, clock, last) - 1
  <1>1. Period[e] \in Nat \ {0} /\ Cycle \in Nat \ {0}
    BY PeriodAssumption
  <1>2. CASE e \notin Cron
    BY <1>1, <1>2, SMT DEF Until
  <1>3. CASE e \in Cron
    <2> DEFINE P == Period[e]
               next == (clock + 1) % Cycle
    <2>1. next = IF clock + 1 = Cycle THEN 0 ELSE clock + 1
      BY <1>1, ClockStep
    <2>2. (next - (last + 1)) % P = (clock - last) % P
      <3>1. CASE clock + 1 = Cycle
        <4>1. next - (last + 1) = -last - 1 /\ clock - last = (-last - 1) + Cycle
          BY <2>1, <3>1, <1>1, SMT
        <4>2. ((-last - 1) + Cycle) % P = (-last - 1) % P
          <5>1. Cycle % P = 0 /\ -last - 1 \in Int
            BY <1>3, PeriodAssumption
          <5> HIDE DEF P
          <5> QED BY <5>1, <1>1, CyclePeriodic DEF P
        <4> QED BY <4>1, <4>2
      <3>2. CASE clock + 1 # Cycle
        <4>1. next - (last + 1) = clock - last
          BY <2>1, <3>2, <1>1, SMT
        <4> QED BY <4>1
      <3> QED BY <3>1, <3>2
    <2> DEFINE x == (next - (last + 1)) % P
               y == (clock - last) % P
    <2>3. x = y /\ y \in Int
      BY <2>2, <1>1, SMT
    <2>4. /\ Until(e, next, last + 1) = P - x - (last + 1)
          /\ Until(e, clock, last) = P - y - last
      BY <1>3 DEF Until
    <2> HIDE DEF x, y
    <2>5. P - x - (last + 1) = P - y - last - 1
      BY <2>3, <1>1
    <2> QED BY <2>4, <2>5
  <1> QED BY <1>2, <1>3

LEMMA RemainingIsLeft ==
  ASSUME phase \in Int, NEW e \in Entry, NEW now \in Int, NEW last \in Int
  PROVE  /\ Due(e, now, last) <=> Until(e, phase, last) + now <= 0
         /\ Remaining(e, now, last) =
              IF e \in Cron THEN NonNegative(Until(e, phase, last) + now)
                            ELSE Until(e, phase, last) + now
  <1>1. Period[e] \in Nat \ {0}
    BY PeriodAssumption
  <1>2. Until(e, phase, last) \in Int
    BY UntilBounds
  <1>3. Remaining(e, now, last) =
              IF e \in Cron THEN NonNegative(Until(e, phase, last) + now)
                            ELSE Until(e, phase, last) + now
    BY <1>1 DEF Remaining, Until, NextCron
  <1> QED BY <1>2, <1>3 DEF Due, NonNegative

----------------------------------------------------------------------------
(* The order of the entries *)

LEMMA OrderLength ==
  ASSUME NEW n \in Nat, NEW f \in [1 .. n -> Entry], IsInjective(f)
  PROVE  Cardinality(Entry) \in Nat /\ n <= Cardinality(Entry)
  <1>1. IsFiniteSet(Entry)
    BY EntryAssumption
  <1>2. f \in Injection(1 .. n, Entry)
    BY DEF Injection
  <1>3. Cardinality(1 .. n) <= Cardinality(Entry)
    BY <1>1, <1>2, FS_Injection
  <1>4. Cardinality(1 .. n) = n
    BY FS_Interval
  <1> QED BY <1>1, <1>3, <1>4, FS_CardinalityType

LEMMA OrderShape ==
  ASSUME STypeOK, LoopAgrees
  PROVE  /\ Len(order) \in Nat /\ DOMAIN order = 1 .. Len(order)
         /\ order \in [1 .. Len(order) -> Scheduled]
         /\ IsInjective(order)
         /\ ~Up => Len(order) = 0
         /\ Up => \A e \in Scheduled :
                     /\ age[e] \in Ages
                     /\ \E i \in 1 .. Len(order) : order[i] = e
  <1>1. order \in Seq(Entry) /\ Len(order) \in Nat /\ DOMAIN order = 1 .. Len(order)
    BY DEF STypeOK
  <1>2. ~Up => Len(order) = 0
    BY DEF LoopAgrees
  <1>3. Up => IsInjective(order) /\ Range(order) = Scheduled
    BY DEF STypeOK
  <1>4. Up => \A e \in Scheduled : age[e] \in Ages
    BY DEF STypeOK, Scheduled
  <1>5. order \in [1 .. Len(order) -> Scheduled]
    <2>1. \A i \in 1 .. Len(order) : order[i] \in Scheduled
      BY <1>1, <1>2, <1>3 DEF Range
    <2> QED BY <2>1, <1>1
  <1>6. IsInjective(order)
    BY <1>1, <1>2, <1>3 DEF IsInjective
  <1>7. Up => \A e \in Scheduled : \E i \in 1 .. Len(order) : order[i] = e
    BY <1>1, <1>3 DEF Range
  <1> QED BY <1>1, <1>2, <1>4, <1>5, <1>6, <1>7

(* A SetToSeqs of the schedules has each of them once.                     *)
LEMMA EntriesShape ==
  ASSUME NEW entries \in Entries
  PROVE  /\ Cardinality(Scheduled) \in Nat
         /\ entries \in [1 .. Cardinality(Scheduled) -> Scheduled]
         /\ IsInjective(entries) /\ Range(entries) = Scheduled
  <1> DEFINE n == Cardinality(Scheduled)
  <1>1. IsFiniteSet(Scheduled) /\ n \in Nat
    BY EntryAssumption, FS_Subset, FS_CardinalityType DEF Scheduled
  <1>2. entries \in [1 .. n -> Scheduled] /\ IsInjective(entries)
    BY DEF Entries, SetToSeqs, IsInjective
  <1>3. Cardinality(1 .. n) = n
    BY <1>1, FS_Interval
  <1>4. entries \in Surjection(1 .. n, Scheduled)
    <2>1. entries \in Injection(1 .. n, Scheduled)
      BY <1>2 DEF Injection
    <2> QED BY <2>1, <1>1, <1>3, FS_Injection
  <1>5. Range(entries) = Scheduled
    BY <1>2, <1>4 DEF Surjection, Range
  <1> QED BY <1>1, <1>2, <1>5

(* What Sorted gives, in the terms of the invariant: a later entry has as  *)
(* much left, or the earlier one is due.                                   *)
LEMMA SortedByLeft ==
  ASSUME phase \in Int, NEW n \in Nat, NEW entries \in [1 .. n -> Scheduled],
         IsInjective(entries), NEW last, \A e \in Scheduled : last[e] \in Int
  PROVE  /\ Sorted(entries, last) \in [1 .. n -> Scheduled]
         /\ IsInjective(Sorted(entries, last))
         /\ Range(Sorted(entries, last)) = Range(entries)
         /\ Sorted(entries, last) \in Seq(Entry) /\ Len(Sorted(entries, last)) = n
         /\ \A i, j \in 1 .. n : i < j =>
              LET e == Sorted(entries, last)[i]
                  f == Sorted(entries, last)[j]
              IN  \/ Until(e, phase, last[e]) <= 0
                  \/ Until(e, phase, last[e]) <= Until(f, phase, last[f])
  <1> DEFINE s == Sorted(entries, last)
             left(e) == Until(e, phase, last[e])
             shown(e) == Remaining(e, 0, last[e])
  <1>1. /\ s \in [1 .. n -> Scheduled] /\ IsInjective(s) /\ Range(s) = Range(entries)
        /\ \A i, j \in 1 .. n : i < j => shown(s[i]) <= shown(s[j])
    BY SortedSorts
  <1> HIDE DEF s
  <1>2. \A e \in Scheduled :
          /\ left(e) \in Int
          /\ shown(e) = left(e) \/ (shown(e) = 0 /\ left(e) <= 0)
    <2> SUFFICES ASSUME NEW e \in Scheduled
                 PROVE  /\ left(e) \in Int
                        /\ shown(e) = left(e) \/ (shown(e) = 0 /\ left(e) <= 0)
      OBVIOUS
    <2>1. e \in Entry /\ last[e] \in Int
      BY DEF Scheduled
    <2>2. left(e) \in Int
      BY <2>1, UntilBounds
    <2>3. shown(e) = IF e \in Cron THEN NonNegative(left(e) + 0) ELSE left(e) + 0
      BY <2>1, RemainingIsLeft
    <2> HIDE DEF left, shown
    <2> QED BY <2>2, <2>3 DEF NonNegative
  <1>3. ASSUME NEW i \in 1 .. n, NEW j \in 1 .. n, i < j
        PROVE  left(s[i]) <= 0 \/ left(s[i]) <= left(s[j])
    <2>1. s[i] \in Scheduled /\ s[j] \in Scheduled /\ shown(s[i]) <= shown(s[j])
      BY <1>1, <1>3
    <2> HIDE DEF left, shown
    <2> QED BY <2>1, <1>2
  <1>4. s \in Seq(Entry) /\ Len(s) = n
    BY <1>1 DEF Scheduled
  <1> QED BY <1>1, <1>3, <1>4 DEF s

----------------------------------------------------------------------------
(* SchedInv is inductive: one lemma per action that the invariant is about *)

LEMMA InitSchedInv == Init => SchedInv
  <1> SUFFICES ASSUME Init PROVE SchedInv
    OBVIOUS
  <1>1. LagBound \in Nat /\ AgeBound \in Nat /\ Cardinality(Entry) \in Nat
    BY AgeAssumption, EntryAssumption, FS_CardinalityType
  <1>2. order \in Seq(Entry) /\ Len(order) = 0 /\ DOMAIN order = {}
    BY DEF Init
  <1>3. ~Up /\ ~InTurn
    BY DEF Init, Up, InTurn
  <1>4. STypeOK
    BY <1>1, <1>2, <1>3 DEF Init, STypeOK
  <1> QED BY <1>2, <1>3, <1>4 DEF Init, SchedInv, StoredWasSpawned, LoopAgrees, MemoryAgrees,
                AheadSorted, BehindDone, LateBound

(* Places where the loop only moves on, with the same in hand.             *)
LEMMA MovesOn ==
  ASSUME SchedInv, StartFails \/ TickStarts \/ Wakes
  PROVE  SchedInv'
  <1>1. UNCHANGED <<order, lag, pos, nap, phase, age, stored, spawnAge, excused, forgotten>>
    BY DEF StartFails, TickStarts, Wakes, memory, history
  <1>2. /\ at' \in {"panicked", "ticking", "waiting"} /\ at \in {"down", "waiting", "sleeping"}
        /\ Up' <=> Up
        /\ at = "sleeping" => nap = 0
        /\ InTurn => InTurn'
        /\ at' = "waiting" => at = "sleeping"
    BY DEF StartFails, TickStarts, Wakes, Up, InTurn
  <1>3. STypeOK'
    BY <1>1, <1>2 DEF SchedInv, STypeOK, Scheduled
  <1>4. LoopAgrees'
    BY <1>1, <1>2 DEF SchedInv, LoopAgrees
  <1>5. Ahead' = Ahead
    BY <1>1, <1>2 DEF Ahead
  <1>6. \A e : Left(e)' = Left(e)
    BY <1>1 DEF Left
  <1>7. AheadSorted' /\ BehindDone' /\ LateBound'
    BY <1>1, <1>2, <1>5, <1>6 DEF SchedInv, AheadSorted, BehindDone, LateBound
  <1> QED BY <1>1, <1>2, <1>3, <1>4, <1>7 DEF SchedInv, StoredWasSpawned, MemoryAgrees

LEMMA StopsSchedInv ==
  ASSUME SchedInv, Stops
  PROVE  SchedInv'
  <1>1. LagBound \in Nat /\ AgeBound \in Nat /\ Cardinality(Entry) \in Nat
    BY AgeAssumption, EntryAssumption, FS_CardinalityType
  <1>2. order' \in Seq(Entry) /\ Len(order') = 0 /\ DOMAIN order' = {} /\ order' = <<>>
    BY DEF Stops
  <1>3. ~Up' /\ ~InTurn'
    BY DEF Stops, Up, InTurn
  <1>4. STypeOK'
    BY <1>1, <1>2, <1>3 DEF SchedInv, Stops, STypeOK
  <1>5. LoopAgrees'
    BY <1>1, <1>2, <1>3 DEF Stops, LoopAgrees
  <1> QED BY <1>2, <1>3, <1>4, <1>5 DEF Stops, SchedInv, StoredWasSpawned, MemoryAgrees,
                AheadSorted, BehindDone, LateBound

LEMMA StartSchedInv ==
  ASSUME SchedInv, Start
  PROVE  SchedInv'
  <1>1. /\ LagBound \in Nat \ {0} /\ AgeBound \in Nat /\ None \notin Int
        /\ Scheduled \subseteq Entry /\ phase \in Int /\ 0 \in Ages
    BY AgeAssumption, PeriodAssumption DEF SchedInv, STypeOK, Scheduled, Ages
  <1>2. /\ at = "down" /\ at' = "waiting" /\ lag = 0 /\ nap = 0 /\ pos = 1
        /\ UNCHANGED <<phase, stored, spawnAge, lag, pos, nap>>
        /\ Up' /\ InTurn' /\ Scheduled' = Scheduled
    BY DEF SchedInv, LoopAgrees, Start, Up, InTurn, Scheduled
  <1>3. PICK entries \in Entries : order' = Sorted(entries, age')
    BY DEF Start
  <1>4. \A e \in Scheduled : age'[e] = Restored(e) /\ age'[e] \in Ages /\ age'[e] \in Int
    BY <1>1 DEF Start, Restored, SchedInv, STypeOK, Ages
  <1>5. age' \in [Entry -> Ages \cup {None}]
    BY <1>4 DEF Start
  <1> DEFINE n == Cardinality(Scheduled)
  <1>6. /\ n \in Nat /\ entries \in [1 .. n -> Scheduled] /\ IsInjective(entries)
        /\ Range(entries) = Scheduled
    BY EntriesShape
  <1>7. /\ order' \in [1 .. n -> Scheduled] /\ IsInjective(order')
        /\ Range(order') = Scheduled /\ order' \in Seq(Entry) /\ Len(order') = n
        /\ \A i, j \in 1 .. n : i < j =>
               \/ Until(order'[i], phase, age'[order'[i]]) <= 0
               \/ Until(order'[i], phase, age'[order'[i]]) <= Until(order'[j], phase, age'[order'[j]])
    BY <1>1, <1>3, <1>4, <1>6, SortedByLeft
  <1> HIDE DEF n
  <1>8. STypeOK'
    <2>1. excused' \subseteq Entry /\ forgotten' \subseteq Entry
      BY <1>1 DEF Start, Unrecorded
    <2>2. \A e \in Scheduled : age'[e] # None
      BY <1>1, <1>4
    <2> QED BY <1>2, <1>5, <1>7, <2>1, <2>2 DEF SchedInv, STypeOK
  <1>9. LoopAgrees'
    BY <1>2, <1>6, <1>7 DEF LoopAgrees
  <1>10. MemoryAgrees'
    <2> SUFFICES ASSUME NEW e \in Scheduled
                 PROVE  /\ spawnAge[e] # None /\ e \notin forgotten' => age'[e] = spawnAge[e]
                        /\ stored[e] # None => stored[e] >= age'[e]
      BY <1>2 DEF MemoryAgrees
    <2>1. stored[e] # None => age'[e] = stored[e]
      BY <1>4 DEF Restored
    <2>2. spawnAge[e] # None /\ e \notin forgotten' => stored[e] = spawnAge[e]
      BY <1>1 DEF Start, Unrecorded
    <2>3. stored[e] # None => stored[e] \in Int
      BY <1>1 DEF SchedInv, STypeOK, Ages
    <2> QED BY <2>1, <2>2, <2>3
  <1>11. AheadSorted' /\ BehindDone'
    <2>1. \A e : Left(e)' = Until(e, phase, age'[e])
      BY <1>2 DEF Left
    <2>2. DOMAIN order' = 1 .. n /\ Ahead' = 1 /\ lag' = 0
      BY <1>2, <1>7 DEF Ahead
    <2>3. \A i \in 1 .. n : Left(order[i])' \in Int
      BY <1>1, <1>2, <1>4, <1>7, UntilBounds DEF Left
    <2> QED BY <1>7, <2>1, <2>2, <2>3 DEF AheadSorted, BehindDone
  <1>12. LateBound'
    <2> SUFFICES ASSUME NEW e \in Scheduled, e \notin excused'
                 PROVE  -(Left(e)') <= 2 * LagBound - 1
      BY <1>1, <1>2 DEF LateBound
    <2>1. Left(e)' = Until(e, phase, age'[e])
      BY <1>2 DEF Left
    <2>2. e \in Entry /\ age'[e] \in Int /\ Until(e, phase, age'[e]) \in Int
      BY <1>1, <1>4, UntilBounds
    <2>3. CASE stored[e] = None
      <3>1. age'[e] = 0
        BY <1>4, <2>3 DEF Restored
      <3>2. Until(e, phase, 0) >= 1
        BY <1>1, <2>2, UntilBounds
      <3> QED BY <3>1, <3>2, <2>1, <2>2, <1>1
    <2>4. CASE stored[e] # None
      <3>1. age'[e] = stored[e] /\ ~Due(e, 0, stored[e])
        BY <1>4, <2>4 DEF Restored, Start
      <3>2. ~ (Until(e, phase, age'[e]) + 0 <= 0)
        BY <3>1, <2>2, <1>1, RemainingIsLeft
      <3> QED BY <3>2, <2>1, <2>2, <1>1
    <2> QED BY <2>3, <2>4
  <1>13. StoredWasSpawned'
    BY <1>2 DEF SchedInv, StoredWasSpawned
  <1> QED BY <1>8, <1>9, <1>10, <1>11, <1>12, <1>13 DEF SchedInv

LEMMA SpawnSchedInv ==
  ASSUME SchedInv, Spawn
  PROVE  SchedInv'
  <1> PICK e : e = order[pos]
    OBVIOUS
  <1> DEFINE left(f) == Until(f, phase', age'[f])
  <1>1. /\ LagBound \in Nat \ {0} /\ AgeBound \in Nat /\ None \notin Int
        /\ Scheduled \subseteq Entry /\ phase \in Int /\ lag \in 0 .. LagBound
        /\ \A f \in Entry : Period[f] \in Nat \ {0} /\ AgeBound > Period[f] + 3 * LagBound
    BY AgeAssumption, PeriodAssumption DEF SchedInv, STypeOK, Scheduled
  <1>2. /\ at = "ticking" /\ at' = "spawned" /\ AtDue /\ nap = 0 /\ Up /\ Up'
        /\ InTurn /\ InTurn' /\ Scheduled' = Scheduled
        /\ age' = [age EXCEPT ![e] = lag] /\ spawnAge' = [spawnAge EXCEPT ![e] = lag]
        /\ excused' = excused \ {e} /\ forgotten' = forgotten \ {e}
        /\ UNCHANGED <<phase, stored, order, lag, pos, nap>>
    BY DEF SchedInv, LoopAgrees, Spawn, LastRun, Up, InTurn, Scheduled
  <1>3. /\ Len(order) \in Nat /\ DOMAIN order = 1 .. Len(order)
        /\ order \in [1 .. Len(order) -> Scheduled] /\ IsInjective(order)
        /\ \A f \in Scheduled : age[f] \in Ages /\ age[f] \in Int
        /\ pos \in 1 .. Len(order) /\ e \in Scheduled /\ e \in Entry
    <2>1. pos \in 1 .. Len(order)
      BY <1>2 DEF AtDue, SchedInv, STypeOK
    <2> QED BY <1>1, <1>2, <2>1, OrderShape DEF SchedInv, Ages
  <1>4. lag \in Ages /\ lag \in Int /\ lag < AgeBound
    BY <1>1, <1>3 DEF Ages
  <1>5. age[e] >= lag
    <2>1. Until(e, phase, age[e]) + lag <= 0
      BY <1>1, <1>2, <1>3, RemainingIsLeft DEF AtDue
    <2>2. 1 - age[e] <= Until(e, phase, age[e]) /\ Until(e, phase, age[e]) \in Int
      BY <1>1, <1>3, UntilBounds
    <2> QED BY <2>1, <2>2, <1>3, <1>4
  <1>6. STypeOK'
    <2>1. age' \in [Entry -> Ages \cup {None}] /\ spawnAge' \in [Entry -> Ages \cup {None}]
      BY <1>2, <1>3, <1>4 DEF SchedInv, STypeOK
    <2>2. \A f \in Scheduled : age'[f] # None
      BY <1>1, <1>2, <1>3, <1>4 DEF SchedInv, STypeOK
    <2> QED BY <1>2, <2>1, <2>2 DEF SchedInv, STypeOK
  <1>7. StoredWasSpawned'
    <2> SUFFICES ASSUME NEW f \in Entry, stored[f] # None
                 PROVE  spawnAge'[f] # None /\ stored[f] >= spawnAge'[f]
      BY <1>2 DEF StoredWasSpawned
    <2>1. CASE f = e
      <3>1. spawnAge'[e] = lag
        BY <1>2, <1>3 DEF SchedInv, STypeOK
      <3>2. stored[e] >= age[e] /\ stored[e] \in Int
        BY <1>2, <1>3, <2>1 DEF SchedInv, MemoryAgrees, STypeOK, Ages
      <3> QED BY <3>1, <3>2, <2>1, <1>1, <1>3, <1>4, <1>5
    <2>2. CASE f # e
      BY <1>2, <2>2 DEF SchedInv, STypeOK, StoredWasSpawned
    <2> QED BY <2>1, <2>2
  <1>8. LoopAgrees'
    BY <1>2, <1>3 DEF SchedInv, STypeOK, LoopAgrees
  <1>9. MemoryAgrees'
    <2> SUFFICES ASSUME NEW f \in Scheduled
                 PROVE  /\ spawnAge'[f] # None /\ f \notin forgotten' => age'[f] = spawnAge'[f]
                        /\ stored[f] # None => stored[f] >= age'[f]
      BY <1>2 DEF MemoryAgrees
    <2>1. CASE f = e
      <3>1. spawnAge'[e] = lag /\ age'[e] = lag
        BY <1>2, <1>3 DEF SchedInv, STypeOK
      <3>2. stored[e] # None => stored[e] >= age[e] /\ stored[e] \in Int
        BY <1>2, <1>3, <2>1 DEF SchedInv, MemoryAgrees, STypeOK, Ages
      <3> QED BY <3>1, <3>2, <2>1, <1>3, <1>4, <1>5
    <2>2. CASE f # e
      BY <1>1, <1>2, <2>2 DEF SchedInv, STypeOK, MemoryAgrees
    <2> QED BY <2>1, <2>2
  <1>10. \A f \in Scheduled : f # e => left(f) = Left(f)
    BY <1>1, <1>2 DEF Left, SchedInv, STypeOK
  <1>11. left(e) \in Int /\ left(e) >= 1 - lag
    <2>1. left(e) = Until(e, phase, lag)
      BY <1>2, <1>3 DEF Left, SchedInv, STypeOK
    <2> QED BY <2>1, <1>1, <1>3, <1>4, UntilBounds
  <1>12. Ahead = pos /\ Ahead' = pos + 1
    BY <1>2 DEF Ahead
  <1>13. \A i \in 1 .. Len(order) : i # pos => order[i] # e
    BY <1>3 DEF IsInjective
  <1> HIDE DEF left
  <1>14. AheadSorted'
    <2> SUFFICES ASSUME NEW i \in 1 .. Len(order), NEW j \in 1 .. Len(order),
                        pos + 1 <= i, i < j
                 PROVE  left(order[i]) + lag <= 0 \/ left(order[i]) <= left(order[j])
      BY <1>2, <1>3, <1>12 DEF AheadSorted, Left, left
    <2>1. i # pos /\ j # pos /\ pos <= i
      BY <1>3
    <2>2. left(order[i]) = Left(order[i]) /\ left(order[j]) = Left(order[j])
      BY <2>1, <1>3, <1>10, <1>13
    <2> QED BY <2>1, <2>2, <1>3, <1>12 DEF SchedInv, AheadSorted
  <1>15. BehindDone'
    <2> SUFFICES ASSUME NEW i \in 1 .. Len(order), i < pos + 1
                 PROVE  order[i] \in excused' \/ left(order[i]) + lag > 0
      BY <1>2, <1>3, <1>12 DEF BehindDone, Left, left
    <2>1. CASE i = pos
      BY <2>1, <1>4, <1>11
    <2>2. CASE i # pos
      <3>1. i < pos /\ order[i] # e /\ order[i] \in Scheduled
        BY <2>2, <1>3, <1>13
      <3>2. left(order[i]) = Left(order[i])
        BY <3>1, <1>10
      <3> QED BY <3>1, <3>2, <1>2, <1>3, <1>12 DEF SchedInv, BehindDone
    <2> QED BY <2>1, <2>2
  <1>16. LateBound'
    <2> SUFFICES ASSUME NEW f \in Scheduled, f \notin excused'
                 PROVE  -left(f) <= 2 * LagBound - 1 + lag - nap
      BY <1>2 DEF LateBound, Left, left
    <2>1. CASE f = e
      BY <2>1, <1>1, <1>2, <1>4, <1>11
    <2>2. CASE f # e
      BY <2>2, <1>2, <1>10 DEF SchedInv, LateBound
    <2> QED BY <2>1, <2>2
  <1> QED BY <1>6, <1>7, <1>8, <1>9, <1>14, <1>15, <1>16 DEF SchedInv

LEMMA SpawnFailsSchedInv ==
  ASSUME SchedInv, SpawnFails
  PROVE  SchedInv'
  <1>1. /\ at = "ticking" /\ Up /\ Up' /\ InTurn /\ InTurn' /\ Scheduled' = Scheduled
        /\ excused' = excused \cup {order[pos]} /\ pos' = pos + 1
        /\ UNCHANGED <<at, order, lag, nap, phase, age, stored, spawnAge, forgotten>>
    BY DEF SpawnFails, Up, InTurn, Scheduled, memory
  <1>2. /\ Len(order) \in Nat /\ DOMAIN order = 1 .. Len(order)
        /\ order \in [1 .. Len(order) -> Scheduled] /\ IsInjective(order)
        /\ pos \in 1 .. Len(order) /\ order[pos] \in Entry
    <2>1. pos \in 1 .. Len(order)
      BY DEF SpawnFails, AtDue, SchedInv, STypeOK
    <2> QED BY <2>1, OrderShape DEF SchedInv, Scheduled
  <1>3. Len(order) <= Cardinality(Entry) /\ Cardinality(Entry) \in Nat
    BY <1>2, OrderLength DEF Scheduled
  <1>4. STypeOK'
    BY <1>1, <1>2, <1>3 DEF SchedInv, STypeOK
  <1>5. LoopAgrees'
    BY <1>1, <1>2 DEF SchedInv, LoopAgrees
  <1>6. Ahead = pos /\ Ahead' = pos + 1
    BY <1>1 DEF Ahead
  <1>7. \A e : Left(e)' = Left(e)
    BY <1>1 DEF Left
  <1>8. AheadSorted'
    BY <1>1, <1>2, <1>6, <1>7 DEF SchedInv, AheadSorted
  <1>9. BehindDone'
    BY <1>1, <1>2, <1>6, <1>7 DEF SchedInv, BehindDone
  <1>10. LateBound'
    BY <1>1, <1>7 DEF SchedInv, LateBound
  <1> QED BY <1>1, <1>4, <1>5, <1>8, <1>9, <1>10 DEF SchedInv, StoredWasSpawned, MemoryAgrees

LEMMA RecordSchedInv ==
  ASSUME SchedInv, Record
  PROVE  SchedInv'
  <1> DEFINE e == order[pos]
  <1>1. /\ at = "spawned" /\ at' = "ticking" /\ Up /\ Up' /\ InTurn /\ InTurn'
        /\ Scheduled' = Scheduled /\ pos' = pos + 1
        /\ stored' = stored \/ stored' = [stored EXCEPT ![e] = age[e]]
        /\ UNCHANGED <<order, lag, nap, phase, age, spawnAge, excused, forgotten>>
    BY DEF Record, Recorded, Up, InTurn, Scheduled, history
  <1>2. /\ Len(order) \in Nat /\ DOMAIN order = 1 .. Len(order)
        /\ order \in [1 .. Len(order) -> Scheduled] /\ IsInjective(order)
        /\ pos \in 1 .. Len(order) /\ e \in Entry /\ e \in Scheduled
        /\ age[e] = lag /\ spawnAge[e] = lag /\ lag \in Int /\ None \notin Int
        /\ age[e] \in Ages
    <2>1. pos \in 1 .. Len(order)
      BY <1>1, OrderShape DEF SchedInv, STypeOK, LoopAgrees
    <2>2. age[e] = lag /\ spawnAge[e] = lag /\ lag \in Int
      BY <1>1 DEF SchedInv, STypeOK, LoopAgrees
    <2> QED BY <1>1, <2>1, <2>2, OrderShape, AgeAssumption DEF SchedInv, Scheduled
  <1> HIDE DEF e
  <1>3. Len(order) <= Cardinality(Entry) /\ Cardinality(Entry) \in Nat
    BY <1>2, OrderLength DEF Scheduled
  <1>4. STypeOK'
    <2>1. stored' \in [Entry -> Ages \cup {None}]
      BY <1>1, <1>2 DEF SchedInv, STypeOK
    <2> QED BY <1>1, <1>2, <1>3, <2>1 DEF SchedInv, STypeOK
  <1>5. StoredWasSpawned'
    BY <1>1, <1>2 DEF SchedInv, STypeOK, StoredWasSpawned
  <1>6. MemoryAgrees'
    <2> SUFFICES ASSUME NEW f \in Scheduled
                 PROVE  stored'[f] # None => stored'[f] >= age[f]
      BY <1>1 DEF SchedInv, MemoryAgrees
    <2>1. CASE stored' = stored
      BY <1>1, <2>1 DEF SchedInv, MemoryAgrees
    <2>2. CASE f # e /\ stored' = [stored EXCEPT ![e] = age[e]]
      BY <1>1, <2>2 DEF SchedInv, MemoryAgrees, STypeOK, Scheduled
    <2>3. CASE f = e /\ stored' = [stored EXCEPT ![e] = age[e]]
      BY <1>2, <2>3 DEF SchedInv, STypeOK
    <2> QED BY <1>1, <2>1, <2>2, <2>3
  <1>7. LoopAgrees'
    BY <1>1, <1>2 DEF SchedInv, LoopAgrees
  <1>8. Ahead = pos + 1 /\ Ahead' = pos + 1
    BY <1>1 DEF Ahead
  <1>9. \A f : Left(f)' = Left(f)
    BY <1>1 DEF Left
  <1>10. AheadSorted' /\ BehindDone' /\ LateBound'
    BY <1>1, <1>8, <1>9 DEF SchedInv, AheadSorted, BehindDone, LateBound
  <1> QED BY <1>4, <1>5, <1>6, <1>7, <1>10 DEF SchedInv

(* When tick ends, no entry that could be spawned was due at its `now`.    *)
LEMMA NoneDue ==
  ASSUME SchedInv, at = "ticking", ~AtDue, NEW e \in Scheduled, e \notin excused
  PROVE  Left(e) \in Int /\ Left(e) + lag > 0
  <1>1. Up /\ Ahead = pos /\ phase \in Int /\ lag \in Int /\ pos \in Nat
    BY DEF Up, InTurn, Ahead, SchedInv, STypeOK
  <1>2. /\ Len(order) \in Nat /\ DOMAIN order = 1 .. Len(order)
        /\ order \in [1 .. Len(order) -> Scheduled]
        /\ \A f \in Scheduled : age[f] \in Int /\ \E i \in 1 .. Len(order) : order[i] = f
    BY <1>1, OrderShape DEF SchedInv, Ages
  <1>3. \A f \in Scheduled : Left(f) \in Int
    BY <1>1, <1>2, UntilBounds DEF Left, Scheduled
  <1>4. PICK i \in 1 .. Len(order) : order[i] = e
    BY <1>2
  <1>5. CASE i < pos
    BY <1>1, <1>2, <1>3, <1>4, <1>5 DEF SchedInv, BehindDone
  <1>6. CASE pos <= i
    <2>1. pos \in 1 .. Len(order) /\ order[pos] \in Scheduled
      BY <1>1, <1>2, <1>6 DEF SchedInv, STypeOK
    <2>2. Left(order[pos]) + lag > 0
      <3>1. ~Due(order[pos], lag, age[order[pos]])
        BY <1>2, <2>1 DEF AtDue
      <3>2. ~(Left(order[pos]) + lag <= 0)
        BY <3>1, <2>1, <1>1, <1>2, RemainingIsLeft DEF Left, Scheduled
      <3> QED BY <3>2, <2>1, <1>1, <1>3
    <2>3. i = pos \/ Left(order[pos]) + lag <= 0 \/ Left(order[pos]) <= Left(order[i])
      BY <1>1, <1>2, <1>6, <2>1 DEF SchedInv, AheadSorted
    <2> QED BY <2>1, <2>2, <2>3, <1>1, <1>3, <1>4
  <1> QED BY <1>1, <1>4, <1>5, <1>6, <1>3

LEMMA TickEndsSchedInv ==
  ASSUME SchedInv, TickEnds
  PROVE  SchedInv'
  <1>1. /\ LagBound \in Nat \ {0} /\ AgeBound \in Nat
        /\ Scheduled \subseteq Entry /\ phase \in Int /\ lag \in 0 .. LagBound
        /\ \A f \in Entry : Period[f] \in Nat \ {0} /\ AgeBound > Period[f] + 3 * LagBound
        /\ Cardinality(Entry) \in Nat
    BY AgeAssumption, PeriodAssumption, EntryAssumption, FS_CardinalityType
      DEF SchedInv, STypeOK, Scheduled
  <1>2. /\ at = "ticking" /\ at' = "sleeping" /\ ~AtDue /\ Up /\ Up' /\ ~InTurn'
        /\ Scheduled' = Scheduled /\ lag' = 0 /\ pos' = 1
        /\ UNCHANGED <<phase, age, stored, spawnAge, excused, forgotten>>
    BY DEF TickEnds, Up, InTurn, Scheduled, memory, history
  <1> DEFINE n == Len(order)
  <1>3. /\ n \in Nat /\ order \in [1 .. n -> Scheduled] /\ IsInjective(order)
        /\ \A e \in Scheduled : age[e] \in Ages /\ age[e] \in Nat
        /\ Range(order) = Scheduled
    BY <1>1, <1>2, OrderShape DEF SchedInv, STypeOK, Ages
  <1> HIDE DEF n
  <1>4. /\ order' \in [1 .. n -> Scheduled] /\ IsInjective(order')
        /\ Range(order') = Scheduled /\ order' \in Seq(Entry) /\ Len(order') = n
        /\ \A i, j \in 1 .. n : i < j =>
               Left(order'[i]) <= 0 \/ Left(order'[i]) <= Left(order'[j])
    <2> DEFINE s == Sorted(order, age)
    <2>1. order' = s
      BY DEF TickEnds
    <2>2. \A e \in Scheduled : age[e] \in Int
      BY <1>3
    <2>3. /\ s \in [1 .. n -> Scheduled] /\ IsInjective(s) /\ Range(s) = Range(order)
          /\ s \in Seq(Entry) /\ Len(s) = n
          /\ \A i, j \in 1 .. n : i < j =>
               \/ Until(s[i], phase, age[s[i]]) <= 0
               \/ Until(s[i], phase, age[s[i]]) <= Until(s[j], phase, age[s[j]])
      BY <1>1, <1>3, <2>2, SortedByLeft
    <2> HIDE DEF s
    <2>4. \A i, j \in 1 .. n : i < j => Left(s[i]) <= 0 \/ Left(s[i]) <= Left(s[j])
      BY <2>3 DEF Left
    <2> QED BY <2>1, <2>3, <2>4, <1>3
  <1>5. \A e \in Scheduled :
          Left(e) \in Int /\ 1 - age[e] <= Left(e) /\ Left(e) <= Period[e] - age[e]
    BY <1>1, <1>3, UntilBounds DEF Left
  <1>6. n = 0 \/ (1 \in 1 .. n /\ order'[1] \in Scheduled /\ order # <<>>)
    BY <1>3, <1>4
  <1>7. nap' = IF order = <<>> THEN 1
               ELSE IF Left(order'[1]) + lag > 0 THEN Left(order'[1]) + lag ELSE 0
    <2> DEFINE f == order'[1]
    <2>1. nap' = IF order = <<>> THEN 1 ELSE NonNegative(Remaining(f, lag, age[f]))
      BY DEF TickEnds
    <2>2. CASE order # <<>>
      <3>1. f \in Scheduled
        BY <1>3, <1>6, <2>2 DEF n
      <3>2. Remaining(f, lag, age[f]) =
              IF f \in Cron THEN NonNegative(Left(f) + lag) ELSE Left(f) + lag
        BY <3>1, <1>1, <1>3, RemainingIsLeft DEF Left
      <3>3. Left(f) \in Int
        BY <3>1, <1>5
      <3> HIDE DEF f
      <3>4. NonNegative(Remaining(f, lag, age[f])) = IF Left(f) + lag > 0 THEN Left(f) + lag ELSE 0
        BY <3>2, <3>3, <1>1 DEF NonNegative
      <3> QED BY <2>1, <2>2, <3>4 DEF f
    <2> QED BY <2>1, <2>2
  <1>8. STypeOK'
    <2>1. nap' \in 0 .. (AgeBound + LagBound)
      <3>1. CASE order = <<>>
        BY <3>1, <1>1, <1>7
      <3>2. CASE order # <<>>
        <4>1. order'[1] \in Scheduled
          BY <1>3, <1>6, <3>2 DEF n
        <4>2. Left(order'[1]) \in Int /\ Left(order'[1]) <= AgeBound
          <5>1. PICK f \in Scheduled : f = order'[1]
            BY <4>1
          <5>2. /\ Left(f) \in Int /\ Left(f) <= Period[f] - age[f] /\ age[f] \in Nat
                /\ Period[f] \in Nat /\ AgeBound > Period[f] + 3 * LagBound
            BY <1>1, <1>3, <1>5
          <5>3. Left(f) <= AgeBound
            BY <5>2, <1>1
          <5> QED BY <5>1, <5>2, <5>3
        <4> QED BY <3>2, <4>2, <1>1, <1>7
      <3> QED BY <3>1, <3>2
    <2> QED BY <2>1, <1>1, <1>2, <1>4 DEF SchedInv, STypeOK
  <1>9. LoopAgrees'
    BY <1>2, <1>3, <1>4 DEF LoopAgrees
  <1>10. MemoryAgrees' /\ StoredWasSpawned'
    BY <1>2 DEF SchedInv, MemoryAgrees, StoredWasSpawned
  <1>11. \A f : Until(f, phase', age'[f]) = Left(f)
    BY <1>2 DEF Left
  <1>12. Ahead' = 1 /\ DOMAIN order' = 1 .. n
    BY <1>2, <1>4 DEF Ahead
  <1>13. AheadSorted'
    <2> SUFFICES ASSUME NEW i \in 1 .. n, NEW j \in 1 .. n, i < j
                 PROVE  Left(order'[i]) + 0 <= 0 \/ Left(order'[i]) <= Left(order'[j])
      BY <1>2, <1>11, <1>12 DEF AheadSorted, Left
    <2>1. order'[i] \in Scheduled
      BY <1>4
    <2> QED BY <2>1, <1>4, <1>5
  <1>14. BehindDone'
    BY <1>12, <1>3 DEF BehindDone
  <1>15. LateBound'
    <2> SUFFICES ASSUME NEW e \in Scheduled, e \notin excused
                 PROVE  -Left(e) <= 2 * LagBound - 1 + 0 - nap'
      BY <1>2, <1>11 DEF LateBound, Left
    <2>1. Left(e) \in Int /\ Left(e) + lag > 0
      BY <1>2, NoneDue
    <2>2. PICK j \in 1 .. n : order'[j] = e
      BY <1>4 DEF Range
    <2>3. order # <<>> /\ 1 \in 1 .. n /\ order'[1] \in Scheduled
      BY <1>3, <1>6, <2>2
    <2>4. Left(order'[1]) \in Int
      BY <2>3, <1>5
    <2>5. Left(order'[1]) <= 0 \/ Left(order'[1]) <= Left(e)
      <3>1. CASE j = 1
        BY <3>1, <2>1, <2>2
      <3>2. CASE j # 1
        BY <3>2, <2>2, <2>3, <1>4
      <3> QED BY <3>1, <3>2
    <2>6. nap' = IF Left(order'[1]) + lag > 0 THEN Left(order'[1]) + lag ELSE 0
      BY <2>3, <1>7
    <2> QED BY <2>1, <2>4, <2>5, <2>6, <1>1
  <1> QED BY <1>8, <1>9, <1>10, <1>13, <1>14, <1>15 DEF SchedInv

(* A second takes one from what is left of each entry, but for those whose *)
(* age the model has stopped to count: these are long overdue.             *)
LEMMA SecondPasses ==
  ASSUME SchedInv, ClockTicks, Up, NEW e \in Scheduled
  PROVE  /\ Left(e) \in Int /\ Until(e, phase', age'[e]) \in Int
         /\ \/ Until(e, phase', age'[e]) = Left(e) - 1
            \/ Left(e) < -3 * LagBound /\ Until(e, phase', age'[e]) < -3 * LagBound
  <1>1. /\ LagBound \in Nat \ {0} /\ AgeBound \in Nat /\ e \in Entry
        /\ Period[e] \in Nat \ {0} /\ AgeBound > Period[e] + 3 * LagBound
        /\ phase \in 0 .. Cycle - 1 /\ phase \in Int /\ None \notin Int
    BY AgeAssumption, PeriodAssumption DEF SchedInv, STypeOK, Scheduled
  <1>2. age[e] \in 0 .. AgeBound
    BY OrderShape DEF SchedInv, Ages
  <1>3. phase' = (phase + 1) % Cycle /\ age'[e] = Aged(age[e], 1)
    BY <1>1, <1>2 DEF ClockTicks, Passed
  <1>4. phase' \in Int
    BY <1>1, <1>3, PeriodAssumption, ClockStep
  <1>5. age'[e] = IF age[e] = AgeBound THEN AgeBound ELSE age[e] + 1
    BY <1>1, <1>2, <1>3 DEF Aged
  <1>6. age[e] \in Int /\ age'[e] \in Int
    BY <1>1, <1>2, <1>5
  <1>7. /\ Left(e) \in Int /\ Until(e, phase', age'[e]) \in Int
        /\ Left(e) <= Period[e] - age[e]
        /\ Until(e, phase', age'[e]) <= Period[e] - age'[e]
    BY <1>1, <1>4, <1>6, UntilBounds DEF Left
  <1>8. CASE age[e] = AgeBound
    BY <1>1, <1>5, <1>7, <1>8
  <1>9. CASE age[e] # AgeBound
    <2>1. age'[e] = age[e] + 1
      BY <1>5, <1>9
    <2>2. Until(e, (phase + 1) % Cycle, age[e] + 1) = Until(e, phase, age[e]) - 1
      BY <1>1, <1>6, UntilStep
    <2> QED BY <2>1, <2>2, <1>3, <1>7 DEF Left
  <1> QED BY <1>7, <1>8, <1>9

(* Ages grow together. *)
LEMMA AgesGrow ==
  ASSUME NEW a \in Ages, NEW b \in Ages
  PROVE  /\ Aged(a, 1) \in Ages
         /\ a >= b => Aged(a, 1) >= Aged(b, 1)
         /\ a < AgeBound => Aged(a, 1) = a + 1
  BY AgeAssumption DEF Ages, Aged

LEMMA ClockTicksSchedInv ==
  ASSUME SchedInv, ClockTicks
  PROVE  SchedInv'
  <1>1. /\ LagBound \in Nat \ {0} /\ AgeBound \in Nat /\ None \notin Int
        /\ Scheduled \subseteq Entry /\ lag \in 0 .. LagBound
        /\ nap \in 0 .. (AgeBound + LagBound)
    BY AgeAssumption DEF SchedInv, STypeOK, Scheduled
  <1>2. /\ Up' = Up /\ InTurn' = InTurn /\ Scheduled' = Scheduled /\ Ahead' = Ahead
        /\ UNCHANGED <<at, order, pos, excused, forgotten>>
        /\ lag' = IF InTurn THEN lag + 1 ELSE lag
        /\ nap' = IF at = "sleeping" THEN nap - 1 ELSE nap
        /\ InTurn => lag < LagBound
        /\ at = "sleeping" => nap > 0
    BY DEF ClockTicks, Up, InTurn, Scheduled, Ahead
  <1>3. /\ Len(order) \in Nat /\ DOMAIN order = 1 .. Len(order)
        /\ order \in [1 .. Len(order) -> Scheduled]
        /\ ~Up => Len(order) = 0
    BY OrderShape DEF SchedInv
  <1>4. /\ age \in [Entry -> Ages \cup {None}] /\ stored \in [Entry -> Ages \cup {None}]
        /\ spawnAge \in [Entry -> Ages \cup {None}] /\ None \notin Ages
    BY <1>1 DEF SchedInv, STypeOK, Ages
  <1>5. \A e \in Entry :
          /\ age'[e] = Passed(age[e]) /\ stored'[e] = Passed(stored[e])
          /\ spawnAge'[e] = Passed(spawnAge[e])
    BY DEF ClockTicks
  <1>6. \A a \in Ages \cup {None} :
          /\ Passed(a) \in Ages \cup {None}
          /\ Passed(a) = None <=> a = None
    BY <1>4, AgesGrow DEF Passed
  <1>7. \A a, b \in Ages : a >= b => Passed(a) >= Passed(b)
    BY <1>4, AgesGrow DEF Passed
  <1>8. STypeOK'
    <2>1. phase' \in 0 .. (Cycle - 1)
      BY PeriodAssumption, ClockStep DEF ClockTicks, SchedInv, STypeOK
    <2>2. lag' \in 0 .. LagBound /\ nap' \in 0 .. (AgeBound + LagBound)
      BY <1>1, <1>2
    <2>3. /\ age' \in [Entry -> Ages \cup {None}] /\ stored' \in [Entry -> Ages \cup {None}]
          /\ spawnAge' \in [Entry -> Ages \cup {None}]
      <3>1. ASSUME NEW f \in [Entry -> Ages \cup {None}]
            PROVE  [e \in Entry |-> Passed(f[e])] \in [Entry -> Ages \cup {None}]
        <4>1. \A e \in Entry : f[e] \in Ages \cup {None}
          OBVIOUS
        <4>2. \A e \in Entry : Passed(f[e]) \in Ages \cup {None}
          BY <4>1, <1>6
        <4> QED BY <4>2
      <3> QED BY <3>1, <1>4 DEF ClockTicks
    <2>4. Up => \A e \in Scheduled : age'[e] # None
      BY <1>1, <1>4, <1>5, <1>6 DEF SchedInv, STypeOK
    <2> QED BY <1>2, <2>1, <2>2, <2>3, <2>4 DEF SchedInv, STypeOK
  <1>9. StoredWasSpawned'
    <2> SUFFICES ASSUME NEW e \in Entry, stored'[e] # None
                 PROVE  spawnAge'[e] # None /\ stored'[e] >= spawnAge'[e]
      BY DEF StoredWasSpawned
    <2>1. stored[e] # None
      BY <1>4, <1>5, <1>6
    <2>2. spawnAge[e] # None /\ stored[e] >= spawnAge[e]
      BY <2>1 DEF SchedInv, StoredWasSpawned
    <2>3. stored[e] \in Ages /\ spawnAge[e] \in Ages
      BY <2>1, <2>2, <1>4
    <2> QED BY <2>2, <2>3, <1>4, <1>5, <1>6, <1>7
  <1>10. LoopAgrees'
    <2>1. at = "spawned" => /\ pos <= Len(order)
                            /\ age'[order[pos]] = lag' /\ spawnAge'[order[pos]] = lag'
      <3> SUFFICES ASSUME at = "spawned"
                   PROVE  /\ pos <= Len(order)
                          /\ age'[order[pos]] = lag' /\ spawnAge'[order[pos]] = lag'
        OBVIOUS
      <3>1. /\ pos \in 1 .. Len(order) /\ order[pos] \in Entry
            /\ age[order[pos]] = lag /\ spawnAge[order[pos]] = lag
        BY <1>1, <1>3 DEF SchedInv, STypeOK, LoopAgrees
      <3>2. InTurn /\ lag' = lag + 1 /\ lag \in Ages /\ lag < AgeBound /\ lag # None
        <4>1. \A e \in Entry : Period[e] \in Nat \ {0} /\ AgeBound > Period[e] + 3 * LagBound
          BY AgeAssumption, PeriodAssumption
        <4>2. LagBound < AgeBound
          BY <4>1, <3>1, <1>1
        <4> QED BY <4>2, <1>1, <1>2 DEF InTurn, Ages
      <3>3. Passed(lag) = lag + 1
        BY <3>2, AgesGrow DEF Passed
      <3> QED BY <3>1, <3>2, <3>3, <1>5
    <2> QED BY <2>1, <1>1, <1>2 DEF SchedInv, LoopAgrees, InTurn
  <1>11. MemoryAgrees'
    <2> SUFFICES ASSUME Up, NEW e \in Scheduled
                 PROVE  /\ spawnAge'[e] # None /\ e \notin forgotten => age'[e] = spawnAge'[e]
                        /\ stored'[e] # None => stored'[e] >= age'[e]
      BY <1>2 DEF MemoryAgrees
    <2>1. /\ spawnAge[e] # None /\ e \notin forgotten => age[e] = spawnAge[e]
          /\ stored[e] # None => stored[e] >= age[e]
          /\ age[e] # None /\ e \in Entry
      BY <1>1 DEF SchedInv, MemoryAgrees, STypeOK
    <2>2. /\ age[e] \in Ages
          /\ stored'[e] # None => stored[e] # None /\ stored[e] \in Ages
          /\ spawnAge'[e] # None => spawnAge[e] # None
      BY <2>1, <1>4, <1>5, <1>6
    <2> QED BY <2>1, <2>2, <1>5, <1>7
  <1> DEFINE left(e) == Until(e, phase', age'[e])
  <1>12. ASSUME Up, NEW e \in Scheduled
         PROVE  /\ Left(e) \in Int /\ left(e) \in Int
                /\ \/ left(e) = Left(e) - 1
                   \/ Left(e) < -3 * LagBound /\ left(e) < -3 * LagBound
    BY <1>12, SecondPasses
  <1> HIDE DEF left
  <1>13. \A i \in 1 .. Len(order) : Up /\ order[i] \in Scheduled
    BY <1>3
  <1>14. lag' \in Int /\ lag' <= LagBound /\ (lag' = lag \/ lag' = lag + 1)
    BY <1>1, <1>2
  <1>15. AheadSorted'
    <2> SUFFICES ASSUME NEW i \in 1 .. Len(order), NEW j \in 1 .. Len(order),
                        Ahead <= i, i < j
                 PROVE  left(order[i]) + lag' <= 0 \/ left(order[i]) <= left(order[j])
      BY <1>2, <1>3 DEF AheadSorted, Left, left
    <2>1. Left(order[i]) + lag <= 0 \/ Left(order[i]) <= Left(order[j])
      BY <1>3 DEF SchedInv, AheadSorted
    <2> DEFINE e == order[i]
               f == order[j]
    <2>2. /\ Left(e) \in Int /\ left(e) \in Int
          /\ \/ left(e) = Left(e) - 1
             \/ Left(e) < -3 * LagBound /\ left(e) < -3 * LagBound
      BY <1>12, <1>13
    <2>3. /\ Left(f) \in Int /\ left(f) \in Int
          /\ \/ left(f) = Left(f) - 1
             \/ Left(f) < -3 * LagBound /\ left(f) < -3 * LagBound
      BY <1>12, <1>13
    <2> HIDE DEF e, f
    <2>4. Left(e) + lag <= 0 \/ Left(e) <= Left(f)
      BY <2>1 DEF e, f
    <2>5. left(e) + lag' <= 0 \/ left(e) <= left(f)
      BY <2>2, <2>3, <2>4, <1>1, <1>14
    <2> QED BY <2>5 DEF e, f
  <1>16. BehindDone'
    <2> SUFFICES ASSUME NEW i \in 1 .. Len(order), i < Ahead
                 PROVE  order[i] \in excused \/ left(order[i]) + lag' > 0
      BY <1>2, <1>3 DEF BehindDone, Left, left
    <2>1. order[i] \in excused \/ Left(order[i]) + lag > 0
      BY <1>3 DEF SchedInv, BehindDone
    <2>2. InTurn
      <3>1. Ahead > 1
        BY <1>3 DEF SchedInv, STypeOK, Ahead
      <3> QED BY <3>1 DEF SchedInv, LoopAgrees, Ahead, InTurn
    <2>3. lag' = lag + 1
      BY <1>2, <2>2
    <2> QED BY <2>1, <2>3, <1>1, <1>12, <1>13
  <1>17. LateBound'
    <2> SUFFICES ASSUME Up, NEW e \in Scheduled, e \notin excused
                 PROVE  -left(e) <= 2 * LagBound - 1 + lag' - nap'
      BY <1>2 DEF LateBound, Left, left
    <2>1. -Left(e) <= 2 * LagBound - 1 + lag - nap
      BY DEF SchedInv, LateBound
    <2>2. left(e) = Left(e) - 1
      BY <2>1, <1>1, <1>12
    <2>3. lag' - nap' = lag - nap + 1
      BY <1>1, <1>2 DEF Up, InTurn
    <2> QED BY <2>1, <2>2, <2>3, <1>1, <1>2, <1>12
  <1> QED BY <1>8, <1>9, <1>10, <1>11, <1>15, <1>16, <1>17 DEF SchedInv

LEMMA SchedInvInductive == SchedInv /\ [Next]_vars => SchedInv'
  <1> SUFFICES ASSUME SchedInv, [Next]_vars PROVE SchedInv'
    OBVIOUS
  <1>1. CASE Start
    BY <1>1, StartSchedInv
  <1>2. CASE StartFails \/ TickStarts \/ Wakes
    BY <1>2, MovesOn
  <1>3. CASE Stops
    BY <1>3, StopsSchedInv
  <1>4. CASE Spawn
    BY <1>4, SpawnSchedInv
  <1>5. CASE SpawnFails
    BY <1>5, SpawnFailsSchedInv
  <1>6. CASE Record
    BY <1>6, RecordSchedInv
  <1>7. CASE TickEnds
    BY <1>7, TickEndsSchedInv
  <1>8. CASE ClockTicks
    BY <1>8, ClockTicksSchedInv
  <1>9. CASE UNCHANGED vars
    <2>1. UNCHANGED <<at, order, lag, pos, nap, phase, age, stored, spawnAge, excused, forgotten>>
      BY <1>9 DEF vars, loop, memory, history
    <2> QED BY <2>1 DEF SchedInv, STypeOK, StoredWasSpawned, LoopAgrees, MemoryAgrees, AheadSorted,
                BehindDone, LateBound, Left, Until, Ahead, Up, InTurn, Scheduled, Ages
  <1> QED BY <1>1, <1>2, <1>3, <1>4, <1>5, <1>6, <1>7, <1>8, <1>9 DEF Next

LEMMA SchedInvHolds == Spec => []SchedInv
  <1> QED BY InitSchedInv, SchedInvInductive, PTL DEF Spec

----------------------------------------------------------------------------
(* What the scheduler promises, for every value of the constants *)

(* What the loop has in hand has its type: sorting keeps the entries that  *)
(* have a schedule, each once, and the sleep is bounded (scheduler.rs,     *)
(* run_scheduler and tick).                                                *)
THEOREM SchedulerTypeCorrect == Spec => []STypeOK
  <1>1. SchedInv => STypeOK
    BY DEF SchedInv
  <1> QED BY <1>1, SchedInvHolds, PTL

(* scheduler_state is never ahead of what was spawned (scheduler.rs:397):  *)
(* a restart does not pass over an interval that it should have spawned.   *)
THEOREM StoredWasSpawnedHolds == Spec => []StoredWasSpawned
  <1>1. SchedInv => StoredWasSpawned
    BY DEF SchedInv
  <1> QED BY <1>1, SchedInvHolds, PTL

(* No interval is spawned twice, by one process or across restarts, unless *)
(* a spawn was not recorded (scheduler.rs:397).                            *)
THEOREM NoIntervalTwiceHolds == Spec => NoIntervalTwice
  <1> DEFINE Again == \A e \in Entry :
               /\ at = "ticking" /\ at' = "spawned" /\ order[pos] = e
               /\ spawnAge[e] # None /\ e \notin forgotten
               => Remaining(e, lag, spawnAge[e]) <= 0
  <1>1. SchedInv /\ [Next]_vars => Again
    <2> SUFFICES ASSUME SchedInv, [Next]_vars, NEW e \in Entry,
                        at = "ticking", at' = "spawned", order[pos] = e,
                        spawnAge[e] # None, e \notin forgotten
                 PROVE  Remaining(e, lag, spawnAge[e]) <= 0
      OBVIOUS
    <2>1. Spawn
      BY DEF Next, vars, loop, Start, StartFails, Stops, TickStarts, SpawnFails, Record,
             TickEnds, Wakes, ClockTicks
    <2>2. Due(e, lag, age[e])
      BY <2>1 DEF Spawn, AtDue
    <2>3. e \in Scheduled
      <3>1. pos \in 1 .. Len(order)
        BY <2>1 DEF Spawn, AtDue, SchedInv, STypeOK
      <3> QED BY <3>1, OrderShape DEF SchedInv
    <2>4. age[e] = spawnAge[e]
      BY <2>3 DEF SchedInv, MemoryAgrees, Up, InTurn
    <2> QED BY <2>2, <2>4 DEF Due
  <1>2. Spec => [][Again]_vars
    BY <1>1, SchedInvHolds, PTL DEF Spec
  <1> QED BY <1>2 DEF NoIntervalTwice

(* An entry that can be spawned on time is, in less than three turns of    *)
(* the loop, however many others there are and however they are due        *)
(* ("The scheduler will catch up by whenever possible", scheduler.rs:352). *)
THEOREM SpawnedInTimeHolds == Spec => []SpawnedInTime
  <1>1. SchedInv => SpawnedInTime
    <2> SUFFICES ASSUME SchedInv, Up, NEW e \in Scheduled, e \notin excused
                 PROVE  Overdue(e) < 3 * LagBound
      BY DEF SpawnedInTime
    <2>1. /\ LagBound \in Nat \ {0} /\ AgeBound \in Nat /\ lag \in 0 .. LagBound
          /\ nap \in 0 .. (AgeBound + LagBound) /\ e \in Entry /\ phase \in Int
          /\ Period[e] \in Nat \ {0}
      BY AgeAssumption, PeriodAssumption DEF SchedInv, STypeOK, Scheduled
    <2>2. age[e] \in Int /\ Left(e) \in Int
      BY <2>1, OrderShape, UntilBounds DEF SchedInv, Ages, Left
    <2>3. spawnAge[e] # None /\ e \notin forgotten => age[e] = spawnAge[e]
      BY DEF SchedInv, MemoryAgrees
    <2>4. Overdue(e) = IF e \in Cron THEN -NextCron(e, age[e]) ELSE age[e] - Period[e]
      BY <2>3 DEF Overdue
    <2>5. Overdue(e) = -Left(e)
      <3>1. CASE e \in Cron
        BY <3>1, <2>4 DEF Left, Until, NextCron
      <3>2. CASE e \notin Cron
        BY <3>2, <2>1, <2>2, <2>4 DEF Left, Until
      <3> QED BY <3>1, <3>2
    <2>6. -Left(e) <= 2 * LagBound - 1 + lag - nap
      BY DEF SchedInv, LateBound
    <2> QED BY <2>1, <2>2, <2>5, <2>6
  <1> QED BY <1>1, SchedInvHolds, PTL
=============================================================================
