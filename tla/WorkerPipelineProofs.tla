------------------------ MODULE WorkerPipelineProofs ------------------------
(***************************************************************************)
(* WorkerPipeline for any number of executors, batches of any size and any *)
(* number of claims: every claim is in one place, none is lost on the way  *)
(* to the executors, and shutdown leaves nothing in the channel.           *)
(***************************************************************************)
EXTENDS WorkerPipeline, FiniteSetTheorems, TLAPS

----------------------------------------------------------------------------
(* Queues of distinct claims *)

LEMMA TailFacts ==
  ASSUME NEW S, NEW s \in Seq(S), s # <<>>
  PROVE  /\ Tail(s) \in Seq(S) /\ Len(Tail(s)) = Len(s) - 1
         /\ Head(s) \in S /\ Range(s) = Range(Tail(s)) \cup {Head(s)}
         /\ IsInjective(s) => IsInjective(Tail(s)) /\ Head(s) \notin Range(Tail(s))
  <1>1. Len(s) \in Nat \ {0} /\ DOMAIN s = 1 .. Len(s) /\ DOMAIN Tail(s) = 1 .. Len(s) - 1
    OBVIOUS
  <1>2. \A i \in 1 .. Len(s) - 1 : Tail(s)[i] = s[i + 1]
    OBVIOUS
  <1>3. Tail(s) \in Seq(S) /\ Len(Tail(s)) = Len(s) - 1 /\ Head(s) = s[1] /\ s[1] \in S
    BY <1>1
  <1>4. \A i \in 1 .. Len(s) : i = 1 \/ (i - 1 \in 1 .. Len(s) - 1 /\ (i - 1) + 1 = i)
    BY <1>1
  <1>5. Range(s) = Range(Tail(s)) \cup {Head(s)}
    <2>1. ASSUME NEW i \in 1 .. Len(s) PROVE s[i] \in Range(Tail(s)) \cup {Head(s)}
      <3>1. CASE i = 1
        BY <1>3, <3>1
      <3>2. CASE i - 1 \in 1 .. Len(s) - 1 /\ (i - 1) + 1 = i
        <4>1. Tail(s)[i - 1] = s[i]
          BY <1>2, <3>2
        <4> QED
          BY <1>1, <3>2, <4>1 DEF Range
      <3> QED
        BY <1>4, <3>1, <3>2
    <2>2. ASSUME NEW i \in 1 .. Len(s) - 1 PROVE Tail(s)[i] \in Range(s)
      BY <1>1, <1>2 DEF Range
    <2> QED
      BY <1>1, <1>3, <2>1, <2>2 DEF Range
  <1>6. ASSUME IsInjective(s) PROVE IsInjective(Tail(s)) /\ Head(s) \notin Range(Tail(s))
    <2>1. \A i, j \in 1 .. Len(s) : s[i] = s[j] => i = j
      BY <1>1, <1>6 DEF IsInjective
    <2>2. ASSUME NEW i \in 1 .. Len(s) - 1, NEW j \in 1 .. Len(s) - 1, Tail(s)[i] = Tail(s)[j]
          PROVE  i = j
      <3>1. i + 1 \in 1 .. Len(s) /\ j + 1 \in 1 .. Len(s)
        BY <1>1
      <3> QED
        BY <1>2, <2>1, <2>2, <3>1
    <2>3. ASSUME NEW i \in 1 .. Len(s) - 1 PROVE Tail(s)[i] # s[1]
      <3>1. i + 1 \in 1 .. Len(s) /\ 1 \in 1 .. Len(s) /\ i + 1 # 1
        BY <1>1
      <3> QED
        BY <1>2, <2>1, <3>1
    <2> QED
      BY <1>1, <1>3, <2>2, <2>3 DEF IsInjective, Range
  <1> QED
    BY <1>3, <1>5, <1>6

LEMMA FrontFacts ==
  ASSUME NEW S, NEW s \in Seq(S), s # <<>>
  PROVE  /\ Front(s) \in Seq(S) /\ Len(Front(s)) = Len(s) - 1
         /\ Last(s) \in S /\ Range(s) = Range(Front(s)) \cup {Last(s)}
         /\ IsInjective(s) => IsInjective(Front(s)) /\ Last(s) \notin Range(Front(s))
  <1>1. Len(s) \in Nat \ {0} /\ DOMAIN s = 1 .. Len(s)
    OBVIOUS
  <1>2. /\ Front(s) \in Seq(S) /\ Len(Front(s)) = Len(s) - 1 /\ DOMAIN Front(s) = 1 .. Len(s) - 1
        /\ \A i \in 1 .. Len(s) - 1 : Front(s)[i] = s[i]
    BY <1>1 DEF Front
  <1>3. Last(s) = s[Len(s)] /\ Last(s) \in S
    BY <1>1 DEF Last
  <1>4. 1 .. Len(s) = (1 .. Len(s) - 1) \cup {Len(s)} /\ Len(s) \notin 1 .. Len(s) - 1
    BY <1>1
  <1>5. Range(s) = Range(Front(s)) \cup {Last(s)}
    BY <1>1, <1>2, <1>3, <1>4 DEF Range
  <1>6. IsInjective(s) => IsInjective(Front(s)) /\ Last(s) \notin Range(Front(s))
    BY <1>1, <1>2, <1>3, <1>4 DEF IsInjective, Range
  <1> QED
    BY <1>2, <1>3, <1>5, <1>6

LEMMA AppendFacts ==
  ASSUME NEW S, NEW s \in Seq(S), NEW e \in S
  PROVE  /\ Append(s, e) \in Seq(S) /\ Len(Append(s, e)) = Len(s) + 1
         /\ Range(Append(s, e)) = Range(s) \cup {e}
         /\ IsInjective(s) /\ e \notin Range(s) => IsInjective(Append(s, e))
  <1>1. /\ Len(s) \in Nat /\ DOMAIN s = 1 .. Len(s) /\ DOMAIN Append(s, e) = 1 .. Len(s) + 1
        /\ Append(s, e) \in Seq(S) /\ Len(Append(s, e)) = Len(s) + 1
    OBVIOUS
  <1>2. /\ \A i \in 1 .. Len(s) : Append(s, e)[i] = s[i]
        /\ Append(s, e)[Len(s) + 1] = e
    OBVIOUS
  <1>3. 1 .. Len(s) + 1 = (1 .. Len(s)) \cup {Len(s) + 1} /\ Len(s) + 1 \notin 1 .. Len(s)
    BY <1>1
  <1>4. Range(Append(s, e)) = Range(s) \cup {e}
    BY <1>1, <1>2, <1>3 DEF Range
  <1>5. IsInjective(s) /\ e \notin Range(s) => IsInjective(Append(s, e))
    BY <1>1, <1>2, <1>3 DEF IsInjective, Range
  <1> QED
    BY <1>1, <1>4, <1>5

LEMMA ConcatFacts ==
  ASSUME NEW S, NEW s \in Seq(S), NEW t \in Seq(S)
  PROVE  /\ Range(s \o t) = Range(s) \cup Range(t)
         /\ IsInjective(s) /\ IsInjective(t) /\ Range(s) \cap Range(t) = {}
              => IsInjective(s \o t)
  <1>1. /\ Len(s) \in Nat /\ Len(t) \in Nat /\ DOMAIN s = 1 .. Len(s) /\ DOMAIN t = 1 .. Len(t)
        /\ DOMAIN (s \o t) = 1 .. Len(s) + Len(t)
    OBVIOUS
  <1>2. /\ \A i \in 1 .. Len(s) : (s \o t)[i] = s[i]
        /\ \A i \in 1 .. Len(s) + Len(t) : i \notin 1 .. Len(s) => (s \o t)[i] = t[i - Len(s)]
    OBVIOUS
  <1>3. \A i \in 1 .. Len(s) + Len(t) :
          i \notin 1 .. Len(s) => i - Len(s) \in 1 .. Len(t) /\ i = (i - Len(s)) + Len(s)
    BY <1>1
  <1>4. \A i \in 1 .. Len(t) :
          i + Len(s) \in 1 .. Len(s) + Len(t) /\ i + Len(s) \notin 1 .. Len(s)
            /\ (i + Len(s)) - Len(s) = i
    BY <1>1
  <1>5. 1 .. Len(s) \subseteq 1 .. Len(s) + Len(t)
    BY <1>1
  <1>6. Range(s \o t) = Range(s) \cup Range(t)
    <2>1. Range(s \o t) \subseteq Range(s) \cup Range(t)
      BY <1>1, <1>2, <1>3 DEF Range
    <2>2. Range(s) \subseteq Range(s \o t)
      BY <1>1, <1>2, <1>5 DEF Range
    <2>3. ASSUME NEW i \in 1 .. Len(t) PROVE t[i] \in Range(s \o t)
      BY <1>1, <1>2, <1>4 DEF Range
    <2> QED
      BY <1>1, <2>1, <2>2, <2>3 DEF Range
  <1>7. ASSUME IsInjective(s), IsInjective(t), Range(s) \cap Range(t) = {},
               NEW i \in DOMAIN (s \o t), NEW j \in DOMAIN (s \o t), (s \o t)[i] = (s \o t)[j]
        PROVE  i = j
    <2>1. CASE i \in 1 .. Len(s) /\ j \in 1 .. Len(s)
      BY <1>1, <1>2, <1>7, <2>1 DEF IsInjective
    <2>2. CASE i \notin 1 .. Len(s) /\ j \notin 1 .. Len(s)
      BY <1>1, <1>2, <1>3, <1>7, <2>2 DEF IsInjective
    <2>3. \A k \in DOMAIN (s \o t) :
             IF k \in 1 .. Len(s) THEN (s \o t)[k] \in Range(s) ELSE (s \o t)[k] \in Range(t)
      <3>1. ASSUME NEW k \in 1 .. Len(s) PROVE (s \o t)[k] \in Range(s)
        BY <1>1, <1>2 DEF Range
      <3>2. ASSUME NEW k \in 1 .. Len(s) + Len(t), k \notin 1 .. Len(s)
            PROVE  (s \o t)[k] \in Range(t)
        <4>1. (s \o t)[k] = t[k - Len(s)] /\ k - Len(s) \in DOMAIN t
          BY <1>1, <1>2, <1>3, <3>2
        <4> QED
          BY <4>1 DEF Range
      <3> QED
        BY <1>1, <3>1, <3>2
    <2>4. i \in 1 .. Len(s) <=> j \in 1 .. Len(s)
      BY <1>7, <2>3
    <2> QED
      BY <2>1, <2>2, <2>3, <2>4
  <1>8. IsInjective(s) /\ IsInjective(t) /\ Range(s) \cap Range(t) = {} => IsInjective(s \o t)
    BY <1>7 DEF IsInjective
  <1> QED
    BY <1>6, <1>8

LEMMA Wider ==
  ASSUME NEW m \in Nat, NEW n \in Nat, m <= n, NEW s \in Seq(1 .. m)
  PROVE  s \in Seq(1 .. n)
  <1>1. Len(s) \in Nat /\ s \in [1 .. Len(s) -> 1 .. m] /\ 1 .. m \subseteq 1 .. n
    OBVIOUS
  <1>2. s \in [1 .. Len(s) -> 1 .. n]
    BY <1>1
  <1> QED
    BY <1>1, <1>2

----------------------------------------------------------------------------
(* The invariant *)

(* A claim is in one place: ExecutedOnce, with the two queues apart.       *)
OnePlace ==
  /\ IsInjective(batch) /\ IsInjective(chan) /\ Range(batch) \cap Range(chan) = {}
  /\ \A x, y \in Executor : doing[x] = doing[y] /\ doing[x] # None => x = y
  /\ \A n \in Range(batch) \cup Range(chan) :
       n \notin finished /\ \A x \in Executor : doing[x] # n
  /\ \A x \in Executor : doing[x] \notin finished

StoppedCloses == \A x \in Executor : exec[x] = "stopped" => closed

PipelineInv == PTypeOK /\ OnePlace /\ NothingLost /\ StoppedCloses /\ ChannelDrained

USE ExecutorAssumption, CountAssumption, NothingAssumption

LEMMA OnePlaceSuffices == ASSUME PTypeOK, OnePlace PROVE ExecutedOnce
  <1>1. batch \in Seq(1 .. claimed) /\ chan \in Seq(1 .. claimed) /\ claimed \in Nat
    BY DEF PTypeOK
  <1>2. Range(batch \o chan) = Range(batch) \cup Range(chan) /\ IsInjective(batch \o chan)
    BY <1>1, ConcatFacts DEF OnePlace
  <1> QED
    BY <1>2 DEF OnePlace, ExecutedOnce

LEMMA NoneElsewhere ==
  ASSUME PTypeOK
  PROVE  /\ None \notin 1 .. claimed /\ None \notin finished
         /\ None \notin Range(batch) /\ None \notin Range(chan)
  <1>1. claimed \in Nat /\ finished \subseteq 1 .. claimed
    BY DEF PTypeOK
  <1>2. 1 .. claimed \subseteq Nat
    BY <1>1
  <1>3. Range(batch) \subseteq 1 .. claimed /\ Range(chan) \subseteq 1 .. claimed
    BY DEF PTypeOK, Range
  <1> QED
    BY <1>1, <1>2, <1>3

LEMMA BoundIsNat == ChannelBound \in Nat \ {0}
  <1>1. Cardinality(Executor) \in Nat /\ Cardinality(Executor) # 0
    BY FS_CardinalityType, FS_EmptySet
  <1> QED
    BY <1>1 DEF ChannelBound

LEMMA PipelineInit == Init => PipelineInv
  <1> SUFFICES ASSUME Init PROVE PipelineInv
    OBVIOUS
  <1>1. PTypeOK
    <2>1. Len(chan) <= ChannelBound
      BY BoundIsNat DEF Init
    <2>2. <<>> \in Seq(1 .. claimed) /\ claimed \in 0 .. ClaimBound /\ idle \in 0 .. IdleMax
      BY DEF Init
    <2>3. /\ doing \in [Executor -> (1 .. claimed) \cup {None}]
          /\ exec \in [Executor -> {"waiting", "executing", "stopped", "panicked"}]
          /\ \A x \in Executor : doing[x] # None <=> exec[x] \in {"executing", "panicked"}
      BY DEF Init
    <2> QED
      BY <2>1, <2>2, <2>3 DEF Init, PTypeOK, ClaimerState
  <1>2. OnePlace
    <2>1. Range(<<>>) = {} /\ IsInjective(<<>>)
      BY DEF Range, IsInjective
    <2> QED
      BY <2>1 DEF Init, OnePlace
  <1>3. NothingLost /\ StoppedCloses /\ ChannelDrained
    BY DEF Init, NothingLost, StoppedCloses, ChannelDrained
  <1> QED
    BY <1>1, <1>2, <1>3 DEF PipelineInv

----------------------------------------------------------------------------
(* The claim loop *)

LEMMA ClaimExecutedKeeps ==
  ASSUME PipelineInv, ClaimExecuted
  PROVE  PipelineInv' /\ Range(batch) = {} /\ Range(batch') = claimed + 1 .. claimed'
  <1>1. PICK rows \in 0 .. ClaimCount :
          /\ claimed + rows <= ClaimBound /\ claimed' = claimed + rows
          /\ batch' = [i \in 1 .. rows |-> claimed + i]
    BY DEF ClaimExecuted
  <1>2. claimed \in Nat /\ rows \in Nat /\ claimed' \in Nat /\ claimed <= claimed'
    BY <1>1 DEF PipelineInv, PTypeOK
  <1>3. /\ batch' \in Seq(1 .. claimed') /\ IsInjective(batch')
        /\ \A n \in Range(batch') : n > claimed /\ n \in Nat
        /\ Range(batch') = claimed + 1 .. claimed'
    <2>1. DOMAIN batch' = 1 .. rows /\ \A i \in 1 .. rows : batch'[i] = claimed + i
      BY <1>1
    <2>2. \A n \in claimed + 1 .. claimed' : n - claimed \in 1 .. rows /\ n = claimed + (n - claimed)
      BY <1>1, <1>2
    <2>3. batch' \in [1 .. rows -> 1 .. claimed']
      BY <1>1, <1>2
    <2>4. Range(batch') = claimed + 1 .. claimed'
      <3>1. Range(batch') \subseteq claimed + 1 .. claimed'
        BY <1>1, <1>2, <2>1 DEF Range
      <3>2. ASSUME NEW n \in claimed + 1 .. claimed' PROVE n \in Range(batch')
        BY <2>1, <2>2 DEF Range
      <3> QED
        BY <3>1, <3>2
    <2>5. IsInjective(batch')
      BY <1>2, <2>1 DEF IsInjective
    <2> QED
      BY <1>2, <2>3, <2>4, <2>5
  <1>4. batch = <<>> /\ Range(batch) = {}
    BY DEF PipelineInv, PTypeOK, ClaimExecuted, Range
  <1>5. PTypeOK'
    <2>1. chan \in Seq(1 .. claimed') /\ 1 .. claimed \subseteq 1 .. claimed'
      BY <1>2, Wider DEF PipelineInv, PTypeOK
    <2> QED
      BY <1>1, <1>2, <1>3, <2>1
      DEF PipelineInv, PTypeOK, ClaimExecuted, ClaimerState, pipe, executors, ChannelBound
  <1>6. OnePlace'
    <2>1. Range(chan) \subseteq 1 .. claimed /\ finished \subseteq 1 .. claimed
          /\ \A x \in Executor : doing[x] \in (1 .. claimed) \cup {None}
      BY DEF PipelineInv, PTypeOK, Range
    <2>2. \A n \in Range(batch') : n \notin 1 .. claimed /\ n # None
      BY <1>2, <1>3
    <2> QED
      BY <1>3, <2>1, <2>2 DEF PipelineInv, OnePlace, ClaimExecuted, pipe, executors
  <1>7. NothingLost'
    <2>1. 1 .. claimed' = (1 .. claimed) \cup (claimed + 1 .. claimed')
      BY <1>2
    <2>2. ~parallel => 1 .. claimed \subseteq Range(chan) \cup {doing[x] : x \in Executor}
                                               \cup finished
      BY <1>4 DEF PipelineInv, NothingLost, InHand, ClaimExecuted
    <2>3. UNCHANGED <<parallel, chan, doing, finished>>
      BY DEF ClaimExecuted, pipe, executors
    <2> QED
      BY <1>3, <2>1, <2>2, <2>3 DEF NothingLost, InHand
  <1>8. StoppedCloses' /\ ChannelDrained'
    BY DEF PipelineInv, StoppedCloses, ChannelDrained, ClaimExecuted, pipe, executors
  <1> QED
    BY <1>3, <1>4, <1>5, <1>6, <1>7, <1>8 DEF PipelineInv

(* The steps of the loop that leave the channel alone, and keep the batch  *)
(* or drop it when the loop ends.                                          *)
LEMMA ClaimerKeeps ==
  ASSUME PipelineInv,
         ClaimReturned \/ ClaimFailed \/ ClaimerStops \/ ClaimerSlept \/ PushClosed
  PROVE  PipelineInv'
  <1>1. /\ batch' = batch \/ (batch' = <<>> /\ claimer' \in {"failed", "stopped"})
        /\ UNCHANGED <<parallel, claimed, pipe, executors, shutdown, checker>>
    BY DEF ClaimReturned, ClaimFailed, ClaimerStops, ClaimerSlept, PushClosed
  <1>2. claimer \in {"failed", "stopped"} => claimer' \in {"failed", "stopped"}
    BY DEF ClaimReturned, ClaimFailed, ClaimerStops, ClaimerSlept, PushClosed
  <1>3. Range(<<>>) = {} /\ IsInjective(<<>>)
    BY DEF Range, IsInjective
  <1>4. idle' \in 0 .. IdleMax
    BY DEF PipelineInv, PTypeOK, ClaimReturned, ClaimFailed, ClaimerStops, ClaimerSlept,
           PushClosed, Counted
  <1>5. PTypeOK'
    <2>1. /\ batch' \in Seq(1 .. claimed) /\ claimer' \in ClaimerState
          /\ batch' # <<>> => claimer' \in {"claiming", "pushing"}
          /\ claimer' = "pushing" => batch' # <<>>
      <3>1. batch \in Seq(1 .. claimed) /\ (batch # <<>> => claimer \in {"claiming", "pushing"})
        BY DEF PipelineInv, PTypeOK
      <3>2. CASE ClaimReturned
        BY <3>1, <3>2 DEF ClaimReturned, ClaimerState
      <3>3. CASE ClaimerSlept
        BY <3>1, <3>3 DEF ClaimerSlept, ClaimerState
      <3>4. CASE ClaimFailed \/ ClaimerStops \/ PushClosed
        <4>1. batch' = <<>> /\ claimer' \in {"failed", "stopped"}
          BY <3>4 DEF ClaimFailed, ClaimerStops, PushClosed
        <4>2. <<>> \in Seq(1 .. claimed)
          OBVIOUS
        <4> QED
          BY <4>1, <4>2 DEF ClaimerState
      <3> QED
        BY <3>2, <3>3, <3>4
    <2> QED
      BY <1>1, <1>4, <2>1 DEF PipelineInv, PTypeOK, pipe, executors, ChannelBound
  <1>6. OnePlace'
    BY <1>1, <1>3 DEF PipelineInv, OnePlace, pipe, executors
  <1>7. NothingLost'
    BY <1>1, <1>2 DEF PipelineInv, NothingLost, InHand, pipe, executors
  <1>8. StoppedCloses' /\ ChannelDrained'
    BY <1>1 DEF PipelineInv, StoppedCloses, ChannelDrained, pipe, executors
  <1> QED
    BY <1>5, <1>6, <1>7, <1>8 DEF PipelineInv

LEMMA PushKeeps ==
  ASSUME PipelineInv, Push
  PROVE  /\ PipelineInv'
         /\ Range(batch') \cup Range(chan') = Range(batch) \cup Range(chan)
  <1>1. /\ batch \in Seq(1 .. claimed) /\ chan \in Seq(1 .. claimed) /\ claimed \in Nat
        /\ batch # <<>> /\ Len(chan) < ChannelBound
    BY DEF PipelineInv, PTypeOK, Push, Room
  <1>2. batch' = Front(batch) /\ chan' = Append(chan, Last(batch))
        /\ UNCHANGED <<parallel, claimed, idle, closed, executors, shutdown, checker>>
    BY DEF Push, Unsent
  <1>3. /\ batch' \in Seq(1 .. claimed) /\ IsInjective(batch')
        /\ Range(batch) = Range(batch') \cup {Last(batch)}
        /\ Last(batch) \notin Range(batch') /\ Last(batch) \in 1 .. claimed
    BY <1>1, <1>2, FrontFacts DEF PipelineInv, OnePlace
  <1>4. Last(batch) \notin Range(chan) /\ IsInjective(chan)
    BY <1>3 DEF PipelineInv, OnePlace
  <1>5. /\ chan' \in Seq(1 .. claimed) /\ Len(chan') = Len(chan) + 1 /\ IsInjective(chan')
        /\ Range(chan') = Range(chan) \cup {Last(batch)}
    <2> DEFINE c == Append(chan, Last(batch))
    <2>1. c \in Seq(1 .. claimed) /\ Len(c) = Len(chan) + 1
      BY <1>1, <1>3, AppendFacts
    <2>2. Range(c) = Range(chan) \cup {Last(batch)} /\ IsInjective(c)
      BY <1>1, <1>3, <1>4, AppendFacts
    <2>3. chan' = c
      BY <1>2
    <2> HIDE DEF c
    <2> QED
      BY <2>1, <2>2, <2>3
  <1>6. PTypeOK'
    <2>1. Len(chan') <= ChannelBound
      BY <1>1, <1>5, BoundIsNat
    <2>2. /\ claimer' \in {"select", "pushing"} /\ (claimer' = "pushing" <=> batch' # <<>>)
      BY DEF Push
    <2> QED
      BY <1>2, <1>3, <1>5, <2>1, <2>2
      DEF PipelineInv, PTypeOK, ClaimerState, executors, ChannelBound
  <1>7. OnePlace'
    BY <1>2, <1>3, <1>5 DEF PipelineInv, OnePlace, executors
  <1>8. NothingLost'
    BY <1>2, <1>3, <1>5 DEF PipelineInv, NothingLost, InHand, executors, Push
  <1>9. StoppedCloses' /\ ChannelDrained'
    BY <1>2 DEF PipelineInv, StoppedCloses, ChannelDrained, executors, Push
  <1> QED
    BY <1>3, <1>5, <1>6, <1>7, <1>8, <1>9 DEF PipelineInv

----------------------------------------------------------------------------
(* The executors *)

LEMMA ReceiveKeeps == ASSUME PipelineInv, NEW x \in Executor, Receive(x) PROVE PipelineInv'
  <1>1. PICK dropped \in SecondReceives :
          /\ exec' = [exec EXCEPT ![x] = IF dropped THEN "waiting" ELSE "executing"]
          /\ doing' = [doing EXCEPT ![x] = IF dropped THEN None ELSE Head(chan)]
    BY DEF Receive
  <1>2. /\ exec[x] = "waiting" /\ chan # <<>> /\ chan' = Tail(chan)
        /\ UNCHANGED <<parallel, claims, closed, finished, shutdown, checker>>
    BY DEF Receive
  <1>3. /\ chan \in Seq(1 .. claimed) /\ claimed \in Nat /\ doing[x] = None
        /\ doing \in [Executor -> (1 .. claimed) \cup {None}]
        /\ exec \in [Executor -> {"waiting", "executing", "stopped", "panicked"}]
    BY <1>2 DEF PipelineInv, PTypeOK
  <1>4. /\ chan' \in Seq(1 .. claimed) /\ Len(chan') = Len(chan) - 1 /\ IsInjective(chan')
        /\ Range(chan) = Range(chan') \cup {Head(chan)}
        /\ Head(chan) \notin Range(chan') /\ Head(chan) \in 1 .. claimed
    BY <1>2, <1>3, TailFacts DEF PipelineInv, OnePlace
  <1>5. /\ dropped => parallel
        /\ dropped \in BOOLEAN
    BY <1>1 DEF SecondReceives
  <1>6. PTypeOK'
    <2>1. Len(chan') <= ChannelBound
      BY <1>3, <1>4, BoundIsNat DEF PipelineInv, PTypeOK
    <2>2. /\ exec' \in [Executor -> {"waiting", "executing", "stopped", "panicked"}]
          /\ doing' \in [Executor -> (1 .. claimed) \cup {None}]
      BY <1>1, <1>3, <1>4
    <2>3. Head(chan) # None
      BY <1>4
    <2>4. \A y \in Executor : doing'[y] # None <=> exec'[y] \in {"executing", "panicked"}
      BY <1>1, <1>3, <2>3 DEF PipelineInv, PTypeOK
    <2> QED
      BY <1>2, <1>4, <2>1, <2>2, <2>4 DEF PipelineInv, PTypeOK, claims, ChannelBound
  <1>7. OnePlace'
    <2>1. /\ UNCHANGED <<batch, finished>> /\ IsInjective(chan') /\ None \notin finished
          /\ \A n \in Range(batch) \cup Range(chan) : n # None
      BY <1>2, <1>4, NoneElsewhere DEF PipelineInv, claims
    <2>2. Head(chan) \notin finished /\ \A y \in Executor : doing[y] # Head(chan)
      BY <1>4 DEF PipelineInv, OnePlace
    <2>3. \A y \in Executor : doing'[y] = IF y = x THEN doing'[x] ELSE doing[y]
      BY <1>1, <1>3
    <2>4. doing'[x] \in {None, Head(chan)}
      BY <1>1, <1>3
    <2>5. /\ IsInjective(batch') /\ Range(batch') \cap Range(chan') = {}
          /\ Head(chan) \notin Range(batch')
      BY <1>4, <2>1 DEF PipelineInv, OnePlace
    <2>6. \A y, z \in Executor : doing'[y] = doing'[z] /\ doing'[y] # None => y = z
      BY <2>2, <2>3, <2>4 DEF PipelineInv, OnePlace
    <2>7. \A n \in Range(batch') \cup Range(chan') :
            n \notin finished' /\ \A y \in Executor : doing'[y] # n
      BY <1>4, <2>1, <2>3, <2>4, <2>5 DEF PipelineInv, OnePlace
    <2>8. \A y \in Executor : doing'[y] \notin finished'
      BY <2>1, <2>2, <2>3, <2>4 DEF PipelineInv, OnePlace
    <2> QED
      BY <2>1, <2>5, <2>6, <2>7, <2>8 DEF OnePlace
  <1>8. NothingLost'
    <2> SUFFICES ASSUME ~parallel, claimer \notin {"failed", "stopped"}, NEW n \in 1 .. claimed
                 PROVE  n \in InHand' \cup finished
      BY <1>2 DEF NothingLost, claims
    <2>1. n \in Range(batch) \cup Range(chan) \cup {doing[y] : y \in Executor} \cup finished
      BY DEF PipelineInv, NothingLost, InHand
    <2>2. doing'[x] = Head(chan) /\ \A y \in Executor : y # x => doing'[y] = doing[y]
      BY <1>1, <1>3, <1>5
    <2>3. n # None
      OBVIOUS
    <2>4. n \in {doing[y] : y \in Executor} => n \in {doing'[y] : y \in Executor}
      BY <1>3, <2>2, <2>3
    <2>5. n = Head(chan) => n \in {doing'[y] : y \in Executor}
      BY <2>2
    <2> QED
      BY <1>2, <1>4, <2>1, <2>4, <2>5 DEF InHand, claims
  <1>9. StoppedCloses' /\ ChannelDrained'
    <2>1. \A y \in Executor : exec'[y] = "stopped" => exec[y] = "stopped"
      BY <1>1, <1>3
    <2> QED
      BY <1>2, <2>1 DEF PipelineInv, StoppedCloses, ChannelDrained
  <1> QED
    BY <1>6, <1>7, <1>8, <1>9 DEF PipelineInv

LEMMA ExecutorStopsKeeps ==
  ASSUME PipelineInv, NEW x \in Executor, ExecutorStops(x)
  PROVE  PipelineInv'
  <1>1. /\ exec[x] = "waiting" /\ exec' = [exec EXCEPT ![x] = "stopped"] /\ closed'
        /\ closed' \in BOOLEAN
        /\ UNCHANGED <<parallel, claims, chan, doing, finished, shutdown, checker>>
        /\ ~parallel => chan = <<>>
    BY DEF ExecutorStops, ClosedByReceiver, Drained
  <1>2. PTypeOK'
    <2>1. /\ exec' \in [Executor -> {"waiting", "executing", "stopped", "panicked"}]
          /\ \A y \in Executor : exec'[y] = IF y = x THEN "stopped" ELSE exec[y]
      BY <1>1 DEF PipelineInv, PTypeOK
    <2> QED
      BY <1>1, <2>1 DEF PipelineInv, PTypeOK, claims, ChannelBound
  <1>3. OnePlace' /\ NothingLost'
    BY <1>1 DEF PipelineInv, OnePlace, NothingLost, InHand, claims
  <1>4. StoppedCloses' /\ ChannelDrained'
    BY <1>1 DEF StoppedCloses, ChannelDrained
  <1> QED
    BY <1>2, <1>3, <1>4 DEF PipelineInv

LEMMA ExecutedKeeps == ASSUME PipelineInv, NEW x \in Executor, Executed(x) PROVE PipelineInv'
  <1>1. /\ exec[x] = "executing" /\ finished' = finished \cup {doing[x]}
        /\ exec' = [exec EXCEPT ![x] = "waiting"] /\ doing' = [doing EXCEPT ![x] = None]
        /\ UNCHANGED <<parallel, claims, pipe, shutdown, checker>>
    BY DEF Executed, NextTurn
  <1>2. /\ doing[x] \in 1 .. claimed /\ claimed \in Nat
        /\ doing \in [Executor -> (1 .. claimed) \cup {None}]
        /\ exec \in [Executor -> {"waiting", "executing", "stopped", "panicked"}]
    BY <1>1 DEF PipelineInv, PTypeOK
  <1>3. \A y \in Executor : doing'[y] = IF y = x THEN None ELSE doing[y]
    BY <1>1, <1>2
  <1>4. \A y \in Executor : exec'[y] = IF y = x THEN "waiting" ELSE exec[y]
    BY <1>1, <1>2
  <1>5. PTypeOK'
    <2>1. /\ exec' \in [Executor -> {"waiting", "executing", "stopped", "panicked"}]
          /\ doing' \in [Executor -> (1 .. claimed) \cup {None}]
          /\ \A y \in Executor : doing'[y] # None <=> exec'[y] \in {"executing", "panicked"}
      BY <1>1, <1>2, <1>3, <1>4 DEF PipelineInv, PTypeOK
    <2> QED
      BY <1>1, <1>2, <2>1 DEF PipelineInv, PTypeOK, claims, pipe, ChannelBound
  <1>6. OnePlace'
    <2>1. None # doing[x] /\ None \notin finished
      BY <1>2, NoneElsewhere DEF PipelineInv
    <2>2. \A n \in Range(batch) \cup Range(chan) : n # None
      BY NoneElsewhere DEF PipelineInv
    <2> QED
      BY <1>1, <1>2, <1>3, <2>1, <2>2 DEF PipelineInv, OnePlace, claims, pipe
  <1>7. NothingLost'
    <2> SUFFICES ASSUME ~parallel, claimer \notin {"failed", "stopped"}, NEW n \in 1 .. claimed
                 PROVE  n \in InHand' \cup finished'
      BY <1>1 DEF NothingLost, claims
    <2>1. n \in Range(batch) \cup Range(chan) \cup {doing[y] : y \in Executor} \cup finished
      BY DEF PipelineInv, NothingLost, InHand
    <2>2. n \in {doing[y] : y \in Executor} => n \in {doing'[y] : y \in Executor} \cup finished'
      BY <1>1, <1>3
    <2> QED
      BY <1>1, <2>1, <2>2 DEF InHand, claims, pipe
  <1>8. StoppedCloses' /\ ChannelDrained'
    BY <1>1, <1>4 DEF PipelineInv, StoppedCloses, ChannelDrained, pipe
  <1> QED
    BY <1>5, <1>6, <1>7, <1>8 DEF PipelineInv

LEMMA PanicsKeeps == ASSUME PipelineInv, NEW x \in Executor, Panics(x) PROVE PipelineInv'
  <1>1. /\ exec[x] = "executing" /\ exec' = [exec EXCEPT ![x] = "panicked"]
        /\ UNCHANGED <<parallel, claims, pipe, doing, finished, shutdown, checker>>
    BY DEF Panics
  <1>2. /\ exec' \in [Executor -> {"waiting", "executing", "stopped", "panicked"}]
        /\ \A y \in Executor : exec'[y] = IF y = x THEN "panicked" ELSE exec[y]
    BY <1>1 DEF PipelineInv, PTypeOK
  <1>3. PTypeOK'
    BY <1>1, <1>2 DEF PipelineInv, PTypeOK, claims, pipe, ChannelBound
  <1>4. OnePlace' /\ NothingLost'
    BY <1>1 DEF PipelineInv, OnePlace, NothingLost, InHand, claims, pipe
  <1>5. StoppedCloses' /\ ChannelDrained'
    BY <1>1, <1>2 DEF PipelineInv, StoppedCloses, ChannelDrained, pipe
  <1> QED
    BY <1>3, <1>4, <1>5 DEF PipelineInv

----------------------------------------------------------------------------
(* Every step *)

LEMMA PipelineStep == PipelineInv /\ [Next]_vars => PipelineInv'
  <1> SUFFICES ASSUME PipelineInv, [Next]_vars PROVE PipelineInv'
    OBVIOUS
  <1>1. CASE ClaimerStep \/ ClaimFailed
    BY <1>1, ClaimExecutedKeeps, ClaimerKeeps, PushKeeps DEF ClaimerStep
  <1>2. ASSUME NEW x \in Executor, ExecutorStep(x) \/ Panics(x) PROVE PipelineInv'
    BY <1>2, ReceiveKeeps, ExecutorStopsKeeps, ExecutedKeeps, PanicsKeeps DEF ExecutorStep
  <1>3. CASE CheckerStep \/ Signal \/ UNCHANGED vars
    <2>1. /\ UNCHANGED <<parallel, claims, pipe, executors>>
          /\ shutdown' \in BOOLEAN /\ checker' \in BOOLEAN
      BY <1>3 DEF CheckerStep, IdleReached, CheckerStops, Signal, vars, PipelineInv, PTypeOK
    <2>2. PTypeOK'
      BY <2>1 DEF PipelineInv, PTypeOK, claims, pipe, executors, ChannelBound
    <2> QED
      BY <2>1, <2>2 DEF PipelineInv, OnePlace, NothingLost, InHand, StoppedCloses,
                        ChannelDrained, claims, pipe, executors
  <1> QED
    BY <1>1, <1>2, <1>3 DEF Next

LEMMA PipelineInvariant == Spec => []PipelineInv
  BY PipelineInit, PipelineStep, PTL DEF Spec

(* Every reachable state of the Rust worker is well typed; its channel     *)
(* never holds more than twice the number of executors (app.rs:690).       *)
THEOREM PipelineTypeCorrect == Spec => []PTypeOK
  <1>1. PipelineInv => PTypeOK
    BY DEF PipelineInv
  <1> QED
    BY <1>1, PipelineInvariant, PTL

(* No claim is executed by two executors or twice, or queued twice, on a   *)
(* runtime of one thread or of several (app.rs:736-741).                   *)
THEOREM ExecutedOnceHolds == Spec => []ExecutedOnce
  <1>1. PipelineInv => ExecutedOnce
    BY OnePlaceSuffices DEF PipelineInv
  <1> QED
    BY <1>1, PipelineInvariant, PTL

(* On one thread nothing that was claimed is lost between the claim loop   *)
(* and the executors, as long as the loop goes on (app.rs:712-767).        *)
THEOREM PipelineLosesNothing == Spec => []NothingLost
  <1>1. PipelineInv => NothingLost
    BY DEF PipelineInv
  <1> QED
    BY <1>1, PipelineInvariant, PTL

(* On one thread the channel is empty once an executor has stopped.        *)
THEOREM ChannelDrainedHolds == Spec => []ChannelDrained
  <1>1. PipelineInv => ChannelDrained
    BY DEF PipelineInv
  <1> QED
    BY <1>1, PipelineInvariant, PTL

----------------------------------------------------------------------------
(* What the worker does to its claims *)

Live == {doing[x] : x \in {y \in Executor : exec[y] = "executing"}}

Trouble ==
  parallel \/ claimer \in {"failed", "stopped"} \/ \E x \in Executor : exec[x] = "panicked"

(* The claim loop does not come back once it has failed or stopped, nor an *)
(* executor that panicked.                                                 *)
LEMMA TroubleStays == ASSUME PipelineInv, [Next]_vars, Trouble PROVE Trouble'
  <1>1. parallel' = parallel
    BY DEF Next, ClaimerStep, ClaimExecuted, ClaimReturned, ClaimFailed, ClaimerStops,
           ClaimerSlept, Push, PushClosed, ExecutorStep, Receive, ExecutorStops, Executed, Panics,
           CheckerStep, IdleReached, CheckerStops, Signal, vars
  <1>2. claimer \in {"failed", "stopped"} => claimer' \in {"failed", "stopped"}
    BY DEF Next, ClaimerStep, ClaimExecuted, ClaimReturned, ClaimFailed, ClaimerStops,
           ClaimerSlept, Push, PushClosed, ExecutorStep, Receive, ExecutorStops, Executed, Panics,
           CheckerStep, IdleReached, CheckerStops, Signal, vars, claims
  <1>3. ASSUME NEW x \in Executor, exec[x] = "panicked" PROVE exec'[x] = "panicked"
    <2>1. CASE exec' = exec
      BY <1>3, <2>1
    <2>2. ASSUME NEW y \in Executor, exec[y] # "panicked", NEW state,
                 exec' = [exec EXCEPT ![y] = state]
          PROVE  exec'[x] = "panicked"
      BY <1>3, <2>2 DEF PipelineInv, PTypeOK
    <2>3. ASSUME NEW y \in Executor, ExecutorStep(y) \/ Panics(y)
          PROVE  exec'[x] = "panicked"
      BY <2>2, <2>3 DEF ExecutorStep, Receive, ExecutorStops, Executed, Panics
    <2>4. CASE ClaimerStep \/ ClaimFailed \/ CheckerStep \/ Signal \/ UNCHANGED vars
      BY <2>1, <2>4 DEF ClaimerStep, ClaimExecuted, ClaimReturned, ClaimFailed, ClaimerStops,
                        ClaimerSlept, Push, PushClosed, CheckerStep, IdleReached, CheckerStops,
                        Signal, vars, executors
    <2> QED
      BY <2>3, <2>4 DEF Next
  <1> QED
    BY <1>1, <1>2, <1>3 DEF Trouble

LEMMA PipelineLoses ==
  ASSUME Trouble', UNCHANGED <<claimed, finished>>,
         NEW lost \in SUBSET Held, Held' = Held \ lost
  PROVE  Promise!PNext
  <1>1. Promise!LosesSome(lost)
    BY DEF Promise!LosesSome, Trouble
  <1> QED
    BY <1>1 DEF Promise!PNext, Trouble

LEMMA PipelineStutters ==
  ASSUME UNCHANGED <<claimed, finished>>, Held' = Held, Trouble' <=> Trouble
  PROVE  UNCHANGED Promise!promised
  <1>1. Trouble' = Trouble
    BY DEF Trouble
  <1> QED
    BY <1>1 DEF Promise!promised, Trouble

LEMMA ClaimerPromise ==
  ASSUME PipelineInv, ClaimerStep \/ ClaimFailed, Trouble => Trouble'
  PROVE  [Promise!PNext]_(Promise!promised)
  <1> USE DEF claims, pipe, executors
  <1>1. CASE ClaimExecuted
    <2>1. PICK rows \in 0 .. ClaimCount :
            claimed + rows <= ClaimBound /\ claimed' = claimed + rows
      BY <1>1 DEF ClaimExecuted
    <2>2. rows \in 0 .. ClaimBound
      BY <2>1 DEF PipelineInv, PTypeOK
    <2>3. UNCHANGED <<chan, exec, doing, finished>>
      BY <1>1 DEF ClaimExecuted
    <2>4. Held' = Held \cup (claimed + 1 .. claimed')
      BY <1>1, <2>3, ClaimExecutedKeeps DEF Held
    <2>5. Promise!ClaimsMore(rows)
      BY <2>1, <2>3, <2>4 DEF Promise!ClaimsMore
    <2> QED
      BY <2>2, <2>5 DEF Promise!PNext, Trouble
  <1>2. CASE ClaimReturned \/ ClaimerSlept
    <2>1. /\ UNCHANGED <<parallel, claimed, batch, chan, exec, doing, finished>>
          /\ claimer \notin {"failed", "stopped"} /\ claimer' \notin {"failed", "stopped"}
      BY <1>2 DEF ClaimReturned, ClaimerSlept
    <2> QED
      BY <2>1, PipelineStutters DEF Held, Trouble
  <1>3. CASE Push
    <2>1. /\ UNCHANGED <<parallel, claimed, exec, doing, finished>>
          /\ claimer \notin {"failed", "stopped"} /\ claimer' \notin {"failed", "stopped"}
      BY <1>3 DEF Push
    <2>2. Held' = Held
      BY <1>3, <2>1, PushKeeps DEF Held
    <2> QED
      BY <2>1, <2>2, PipelineStutters DEF Trouble
  <1>4. CASE ClaimFailed \/ ClaimerStops \/ PushClosed
    <2>1. /\ UNCHANGED <<claimed, chan, exec, doing, finished>>
          /\ batch' = <<>> /\ claimer' \in {"failed", "stopped"}
      BY <1>4 DEF ClaimFailed, ClaimerStops, PushClosed
    <2>2. Range(batch') = {}
      BY <2>1 DEF Range
    <2>3. Held' \subseteq Held /\ Held' = Held \ (Held \ Held')
      BY <2>1, <2>2 DEF Held
    <2> QED
      BY <2>1, <2>3, PipelineLoses DEF Trouble
  <1> QED
    BY <1>1, <1>2, <1>3, <1>4 DEF ClaimerStep

LEMMA ExecutorPromise ==
  ASSUME PipelineInv, NEW x \in Executor, ExecutorStep(x) \/ Panics(x), Trouble => Trouble'
  PROVE  [Promise!PNext]_(Promise!promised)
  <1> USE DEF claims, pipe, executors
  <1>1. /\ doing \in [Executor -> (1 .. claimed) \cup {None}]
        /\ exec \in [Executor -> {"waiting", "executing", "stopped", "panicked"}]
    BY DEF PipelineInv, PTypeOK
  <1>2. CASE Receive(x)
    <2>1. PICK dropped \in SecondReceives :
            /\ exec' = [exec EXCEPT ![x] = IF dropped THEN "waiting" ELSE "executing"]
            /\ doing' = [doing EXCEPT ![x] = IF dropped THEN None ELSE Head(chan)]
      BY <1>2 DEF Receive
    <2>2. /\ exec[x] = "waiting" /\ chan # <<>> /\ chan' = Tail(chan)
          /\ UNCHANGED <<parallel, claimed, claimer, batch, finished>>
      BY <1>2 DEF Receive
    <2>3. /\ Range(chan) = Range(chan') \cup {Head(chan)} /\ Head(chan) \notin Range(chan')
          /\ Head(chan) \notin Range(batch) /\ \A y \in Executor : doing[y] # Head(chan)
      BY <2>2, TailFacts DEF PipelineInv, PTypeOK, OnePlace
    <2>4. CASE dropped
      <3>1. parallel
        BY <2>1, <2>4 DEF SecondReceives
      <3>2. \A y \in Executor : exec'[y] = exec[y] /\ (exec[y] = "executing" => doing'[y] = doing[y])
        BY <1>1, <2>1, <2>2, <2>4
      <3>3. Live' = Live /\ Head(chan) \notin Live
        BY <2>3, <3>2 DEF Live
      <3>4. Held' = Held \ {Head(chan)} /\ Head(chan) \in Held
        BY <2>2, <2>3, <3>3 DEF Held, Live
      <3> QED
        BY <2>2, <3>1, <3>4, PipelineLoses DEF Trouble
    <2>5. CASE ~dropped
      <3>1. \A y \in Executor : /\ exec'[y] = IF y = x THEN "executing" ELSE exec[y]
                               /\ doing'[y] = IF y = x THEN Head(chan) ELSE doing[y]
        BY <1>1, <2>1, <2>5
      <3>2. Live' = Live \cup {Head(chan)}
        BY <2>2, <3>1 DEF Live
      <3>3. Held' = Held
        BY <2>2, <2>3, <3>2 DEF Held, Live
      <3>4. Trouble' <=> Trouble
        BY <2>2, <3>1 DEF Trouble
      <3> QED
        BY <2>2, <3>3, <3>4, PipelineStutters
    <2> QED
      BY <2>1, <2>4, <2>5
  <1>3. CASE ExecutorStops(x)
    <2>1. /\ exec[x] = "waiting" /\ exec' = [exec EXCEPT ![x] = "stopped"]
          /\ UNCHANGED <<parallel, claimed, claimer, batch, chan, doing, finished>>
      BY <1>3 DEF ExecutorStops
    <2>2. \A y \in Executor : exec'[y] = IF y = x THEN "stopped" ELSE exec[y]
      BY <1>1, <2>1
    <2>3. Held' = Held
      BY <2>1, <2>2 DEF Held
    <2>4. Trouble' <=> Trouble
      BY <2>1, <2>2 DEF Trouble
    <2> QED
      BY <2>1, <2>3, <2>4, PipelineStutters
  <1>4. CASE Executed(x)
    <2>1. /\ exec[x] = "executing" /\ finished' = finished \cup {doing[x]}
          /\ exec' = [exec EXCEPT ![x] = "waiting"] /\ doing' = [doing EXCEPT ![x] = None]
          /\ UNCHANGED <<parallel, claimed, claimer, batch, chan>>
      BY <1>4 DEF Executed, NextTurn
    <2>2. \A y \in Executor : /\ exec'[y] = IF y = x THEN "waiting" ELSE exec[y]
                             /\ doing'[y] = IF y = x THEN None ELSE doing[y]
      BY <1>1, <2>1
    <2>3. doing[x] # None /\ doing[x] \notin Range(batch) \cup Range(chan) \cup finished
      BY <2>1 DEF PipelineInv, PTypeOK, OnePlace
    <2>4. \A y \in Executor : doing[y] = doing[x] => y = x
      BY <2>3 DEF PipelineInv, OnePlace
    <2>5. Live' = Live \ {doing[x]} /\ doing[x] \in Live
      BY <2>1, <2>2, <2>4 DEF Live
    <2>6. Held' = Held \ {doing[x]} /\ doing[x] \in Held
      BY <2>1, <2>3, <2>5 DEF Held, Live
    <2>7. Promise!SettlesOne(doing[x])
      BY <2>1, <2>3, <2>6 DEF Promise!SettlesOne
    <2> QED
      BY <2>6, <2>7 DEF Promise!PNext, Trouble
  <1>5. CASE Panics(x)
    <2>1. /\ exec[x] = "executing" /\ exec' = [exec EXCEPT ![x] = "panicked"]
          /\ UNCHANGED <<parallel, claimed, claimer, batch, chan, doing, finished>>
      BY <1>5 DEF Panics
    <2>2. \A y \in Executor : exec'[y] = IF y = x THEN "panicked" ELSE exec[y]
      BY <1>1, <2>1
    <2>3. Held' \subseteq Held /\ Held' = Held \ (Held \ Held')
      BY <2>1, <2>2 DEF Held
    <2> QED
      BY <2>1, <2>2, <2>3, PipelineLoses DEF Trouble
  <1> QED
    BY <1>2, <1>3, <1>4, <1>5 DEF ExecutorStep

LEMMA PipelinePromiseStep ==
  ASSUME PipelineInv, [Next]_vars
  PROVE  [Promise!PNext]_(Promise!promised)
  <1>1. Trouble => Trouble'
    BY TroubleStays
  <1>2. CASE ClaimerStep \/ ClaimFailed
    BY <1>1, <1>2, ClaimerPromise
  <1>3. ASSUME NEW x \in Executor, ExecutorStep(x) \/ Panics(x)
        PROVE  [Promise!PNext]_(Promise!promised)
    BY <1>1, <1>3, ExecutorPromise
  <1>4. CASE CheckerStep \/ Signal \/ UNCHANGED vars
    <2>1. UNCHANGED <<parallel, claimed, claimer, batch, chan, exec, doing, finished>>
      BY <1>4 DEF CheckerStep, IdleReached, CheckerStops, Signal, vars, claims, pipe, executors
    <2> QED
      BY <2>1, PipelineStutters DEF Held, Trouble
  <1> QED
    BY <1>2, <1>3, <1>4 DEF Next

LEMMA PipelinePromiseInit == Init => Promise!PInit
  <1> SUFFICES ASSUME Init PROVE Promise!PInit
    OBVIOUS
  <1>1. Held = {}
    BY DEF Init, Held, Range
  <1>2. Trouble \in BOOLEAN
    BY DEF Init, Trouble
  <1> QED
    BY <1>1, <1>2 DEF Init, Promise!PInit, Trouble

(* The Rust worker keeps the promise of WorkerPromise, with any number of  *)
(* executors, on one thread or several: all it does to its claims is to    *)
(* claim, to settle each once, and to drop some on several threads, when a *)
(* claim loop ends or a task function panics (app.rs:714-775).             *)
THEOREM PipelineKeepsPromise == Spec => KeepsPromise
  <1>1. PipelineInv /\ [Next]_vars => [Promise!PNext]_(Promise!promised)
    BY PipelinePromiseStep
  <1> QED
    BY <1>1, PipelinePromiseInit, PipelineInvariant, PTL DEF Spec, KeepsPromise, Promise!PSpec
=============================================================================
