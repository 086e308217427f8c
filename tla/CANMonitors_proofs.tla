-------------------------- MODULE CANMonitors_proofs --------------------------
(***************************************************************************)
(* The CAN side. TimingMonitor: a lost message is reported, a present one  *)
(* is not, and a silence is reported when it ends, for every timeout and   *)
(* delay, where no clock runs ahead. TrafficMonitor: the window is exact,  *)
(* a flood is limited, steady traffic is not, and the queues hold the      *)
(* newest entries, for every rate, window and limit, and for stamps in any *)
(* order. CANCodec: the checksum shows every corruption of one bit or two, *)
(* so that what is decoded is what was sent.                               *)
(***************************************************************************)
EXTENDS TimingMonitor, TrafficMonitor, CANCodec, ProofLemmas, SequenceTheorems

(***************************************************************************)
(* Timing                                                                  *)
(***************************************************************************)
\* What was seen last carries a stamp no further from its arrival than messages may be.
SeenInv ==
  /\ TimingTypeOK
  /\ \A id \in PeriodicIds :
       /\ arrived[id] <= now
       /\ arrived[id] # None => /\ arrived[id] - MaxDelay <= lastSeen[id]
                                /\ lastSeen[id] <= arrived[id] + MaxAhead

LEMMA SeenInvCorrect == TimingSpec => []SeenInv
<1> USE TimingAssumption DEF TimingAssumption, None
<1>1. TimingInit => SeenInv
  BY DEF TimingInit, SeenInv, TimingTypeOK, TimingActions
<1>2. SeenInv /\ [TimingNext]_timingVars => SeenInv'
  <2> SUFFICES ASSUME SeenInv, [TimingNext]_timingVars PROVE SeenInv'
    OBVIOUS
  <2> USE DEF SeenInv, TimingTypeOK
  <2>1. CASE Start
    BY <2>1 DEF Start
  <2>2. CASE Tick
    BY <2>2 DEF Tick
  <2>3. ASSUME NEW id \in PeriodicIds, NEW stamp \in MessageStamps, RecordMessage(id, stamp)
        PROVE  SeenInv'
    <3>1. /\ stamp \in Nat /\ now - MaxDelay <= stamp /\ stamp <= now + MaxAhead
          /\ Decide(id, stamp) \in TimingActions
      BY DEF MessageStamps, Decide, TimingActions
    <3>2. /\ lastSeen' = [lastSeen EXCEPT ![id] = stamp]
          /\ intervalDecision' = [intervalDecision EXCEPT ![id] = Decide(id, stamp)]
          /\ arrived' = [arrived EXCEPT ![id] = now] /\ UNCHANGED <<now, monitoringStart>>
      BY <2>3 DEF RecordMessage
    <3>3. TimingTypeOK'
      BY <3>1, <3>2
    <3>4. ASSUME NEW other \in PeriodicIds
          PROVE  /\ arrived'[other] <= now'
                 /\ arrived'[other] # None => /\ arrived'[other] - MaxDelay <= lastSeen'[other]
                                              /\ lastSeen'[other] <= arrived'[other] + MaxAhead
      <4>1. CASE other = id
        BY <3>1, <3>2, <4>1
      <4>2. CASE other # id
        BY <3>2, <4>2
      <4> QED BY <4>1, <4>2
    <3> QED BY <3>3, <3>4
  <2>4. CASE UNCHANGED timingVars
    BY <2>4 DEF timingVars
  <2> QED BY <2>1, <2>2, <2>3, <2>4 DEF TimingNext
<1> QED BY <1>1, <1>2, PTL DEF TimingSpec

\* Each variable of the timing monitor keeps its type.
THEOREM TimingTypeCorrect == TimingSpec => []TimingTypeOK
<1>1. SeenInv => TimingTypeOK
  BY DEF SeenInv
<1> QED BY <1>1, SeenInvCorrect, PTL

\* Where no clock runs ahead, every loss is reported.
THEOREM LossAlwaysDetected ==
  ASSUME MaxAhead = 0
  PROVE  TimingSpec => []LossIsDetected
<1>1. SeenInv => LossIsDetected
  <2> SUFFICES ASSUME SeenInv, NEW id \in PeriodicIds, Started, SilentFor(id) > AllowedGap[id]
               PROVE  Missing(id)
    BY DEF LossIsDetected
  <2>1. /\ now \in Nat /\ monitoringStart \in Nat /\ AllowedGap[id] \in Nat
        /\ lastSeen[id] \in Nat \cup {None} /\ arrived[id] \in Nat \cup {None}
        /\ lastSeen[id] = None <=> arrived[id] = None
        /\ arrived[id] # None => lastSeen[id] <= arrived[id]
    BY TimingAssumption DEF SeenInv, TimingTypeOK, TimingAssumption, Started
  <2> QED BY <2>1 DEF SilentFor, Missing, None
<1> QED BY <1>1, SeenInvCorrect, PTL

\* Nothing that arrives with the longest delay to spare is reported missing.
THEOREM PresentNeverMissing == TimingSpec => []PresentIsNotMissing
<1>1. SeenInv => PresentIsNotMissing
  <2> SUFFICES ASSUME SeenInv, NEW id \in PeriodicIds, arrived[id] # None,
                      now - arrived[id] <= AllowedGap[id] - MaxDelay
               PROVE  ~Missing(id)
    BY DEF PresentIsNotMissing
  <2>1. /\ now \in Nat /\ AllowedGap[id] \in Nat /\ MaxDelay \in Nat
        /\ lastSeen[id] \in Nat /\ arrived[id] \in Nat /\ arrived[id] - MaxDelay <= lastSeen[id]
    BY TimingAssumption DEF SeenInv, TimingTypeOK, TimingAssumption
  <2> QED BY <2>1 DEF Missing, None
<1> QED BY <1>1, SeenInvCorrect, PTL

\* Where no clock runs ahead, the message that ends a long silence reports it.
THEOREM SilenceAlwaysReported ==
  ASSUME MaxAhead = 0
  PROVE  TimingSpec => SilenceIsReportedOnArrival
<1> DEFINE Reported(id) ==
      arrived[id] # None /\ arrived'[id] # arrived[id]
        /\ now - arrived[id] > AllowedGap[id] + MaxDelay
      => intervalDecision'[id] = "DEGRADED"
<1>1. SeenInv /\ [TimingNext]_timingVars => \A id \in PeriodicIds : Reported(id)
  <2> SUFFICES ASSUME SeenInv, [TimingNext]_timingVars, NEW id \in PeriodicIds,
                      arrived[id] # None, arrived'[id] # arrived[id],
                      now - arrived[id] > AllowedGap[id] + MaxDelay
               PROVE  intervalDecision'[id] = "DEGRADED"
    OBVIOUS
  <2>1. PICK other \in PeriodicIds, stamp \in MessageStamps : RecordMessage(other, stamp)
    BY DEF TimingNext, Start, Tick, timingVars
  <2>2. /\ arrived' = [arrived EXCEPT ![other] = now]
        /\ intervalDecision' = [intervalDecision EXCEPT ![other] = Decide(other, stamp)]
    BY <2>1 DEF RecordMessage
  <2>3. other = id /\ intervalDecision'[id] = Decide(id, stamp)
    BY <2>2 DEF SeenInv, TimingTypeOK
  <2>4. /\ now \in Nat /\ AllowedGap[id] \in Nat /\ MaxDelay \in Nat /\ stamp \in Nat
        /\ now - MaxDelay <= stamp
        /\ lastSeen[id] \in Nat /\ arrived[id] \in Nat /\ lastSeen[id] <= arrived[id]
    BY TimingAssumption DEF SeenInv, TimingTypeOK, TimingAssumption, MessageStamps
  <2> QED BY <2>3, <2>4 DEF Decide, None
<1> QED BY <1>1, SeenInvCorrect, PTL DEF TimingSpec, SilenceIsReportedOnArrival

(***************************************************************************)
(* Traffic: the window                                                     *)
(***************************************************************************)
\* Pruning pops a number of frames, all older than the window, and stops at the first
\* that is not.
LEMMA PrunedFacts ==
  ASSUME NEW s \in Seq(Nat), NEW t \in Nat
  PROVE  \E g \in 0..Len(s) :
           /\ Pruned(s, t) \in Seq(Nat) /\ Len(Pruned(s, t)) = Len(s) - g
           /\ \A i \in 1..(Len(s) - g) : Pruned(s, t)[i] = s[g + i]
           /\ \A j \in 1..g : s[j] < t - RateWindow
           /\ g < Len(s) => s[g + 1] >= t - RateWindow
<1> USE TrafficAssumption DEF TrafficAssumption
<1> DEFINE Stops(i) == i <= Len(s) => s[i] >= t - RateWindow
           First(i) == (\A j \in 1..(i - 1) : s[j] < t - RateWindow) /\ Stops(i)
           Stopping == {i \in 1..(Len(s) + 1) : Stops(i)}
           first == CHOOSE i \in 1..(Len(s) + 1) : First(i)
<1>1. Len(s) \in Nat /\ \A i \in 1..Len(s) : s[i] \in Nat
  OBVIOUS
<1>2. Stopping \in SUBSET Nat /\ Len(s) + 1 \in Stopping
  BY <1>1
<1>3. PICK m \in Stopping : \A n \in Stopping : m <= n
  <2> HIDE DEF Stopping
  <2> QED BY <1>2, NatMinimum
<1>4. m \in 1..(Len(s) + 1) /\ First(m)
  BY <1>1, <1>3
<1>5. first \in 1..(Len(s) + 1) /\ First(first)
  <2> HIDE DEF First
  <2> QED BY <1>4
<1>6. Pruned(s, t) = SubSeq(s, first, Len(s))
  BY DEF Pruned
<1> HIDE DEF first
<1>7. first \in Nat /\ first >= 1 /\ first - 1 \in 0..Len(s) /\ Len(s) - (first - 1) = Len(s) - first + 1
  BY <1>1, <1>5
<1>8. /\ Pruned(s, t) \in Seq(Nat) /\ Len(Pruned(s, t)) = Len(s) - first + 1
      /\ \A i \in 1..(Len(s) - first + 1) : Pruned(s, t)[i] = s[first - 1 + i]
  BY <1>1, <1>5, <1>6, <1>7
<1>9. /\ \A j \in 1..(first - 1) : s[j] < t - RateWindow
      /\ first - 1 < Len(s) => s[(first - 1) + 1] >= t - RateWindow
  BY <1>1, <1>5, <1>7
<1> QED BY <1>7, <1>8, <1>9

\* What is kept, s, is the window at the end of what was accepted, a, which is sorted.
Fits(s, a) ==
  /\ \A i, j \in 1..Len(a) : i <= j => a[i] <= a[j]
  /\ Len(s) <= Len(a) /\ (Len(a) > 0 => Len(s) > 0)
  /\ \A i \in 1..Len(s) : s[i] = a[Len(a) - Len(s) + i]
  /\ \A i \in 1..Len(a) : i > Len(a) - Len(s) <=> a[i] >= a[Len(a)] - RateWindow

\* A frame stamped before the last one prunes nothing.
LEMMA BackwardPrunesNothing ==
  ASSUME NEW s \in Seq(Nat), NEW a \in Seq(Nat), Fits(s, a), NEW t \in Nat,
         Len(Pruned(s, t)) > 0, t < Pruned(s, t)[Len(Pruned(s, t))]
  PROVE  Pruned(s, t) = s
<1>1. RateWindow \in Nat
  BY TrafficAssumption DEF TrafficAssumption
<1>2. PICK n \in Nat, k \in Nat : n = Len(a) /\ k = Len(s)
  OBVIOUS
<1>3. PICK g \in 0..k :
        /\ Pruned(s, t) \in Seq(Nat) /\ Len(Pruned(s, t)) = k - g
        /\ \A i \in 1..(k - g) : Pruned(s, t)[i] = s[g + i]
        /\ \A j \in 1..g : s[j] < t - RateWindow
  BY <1>2, PrunedFacts
<1>4. g < k /\ k - g \in 1..(k - g) /\ t < s[k] /\ 1 \in 1..k /\ k \in 1..k
  BY <1>3
<1>5. /\ s[1] \in Nat /\ a[n] \in Nat /\ s[1] = a[n - k + 1] /\ s[k] = a[n]
      /\ n - k + 1 \in 1..n /\ n - k + 1 > n - k
  <2>1. \A i \in 1..k : s[i] = a[n - k + i]
    BY <1>2 DEF Fits
  <2>2. k <= n /\ n - k + k = n /\ n \in 1..n
    BY <1>2, <1>4 DEF Fits
  <2>3. s[1] = a[n - k + 1] /\ s[k] = a[n]
    BY <1>4, <2>1, <2>2
  <2>4. s[1] \in Nat /\ a[n] \in Nat
    BY <1>2, <1>4, <2>2
  <2>5. n - k + 1 \in 1..n /\ n - k + 1 > n - k
    BY <1>4, <2>2
  <2> QED BY <2>3, <2>4, <2>5
<1>6. a[n - k + 1] >= a[n] - RateWindow
  <2>1. \A i \in 1..n : i > n - k => a[i] >= a[n] - RateWindow
    BY <1>2 DEF Fits
  <2> QED BY <1>5, <2>1
<1>7. g = 0
  <2>1. t < a[n] /\ s[1] >= a[n] - RateWindow
    BY <1>4, <1>5, <1>6
  <2>2. \A x, y, w, u \in Nat : u < y /\ x >= y - w => ~(x < u - w)
    OBVIOUS
  <2>3. ~(s[1] < t - RateWindow)
    BY <1>1, <1>5, <2>1, <2>2
  <2>4. g = 0 \/ 1 \in 1..g
    BY <1>3
  <2>5. 1 \in 1..g => s[1] < t - RateWindow
    BY <1>3, Zenon
  <2> QED BY <2>3, <2>4, <2>5, Zenon
<1>8. Len(Pruned(s, t)) = k /\ \A i \in 1..k : Pruned(s, t)[i] = s[i]
  BY <1>3, <1>7
<1>9. Len(Pruned(s, t)) = Len(s) /\ \A i \in 1..Len(Pruned(s, t)) : Pruned(s, t)[i] = s[i]
  BY <1>2, <1>8, Zenon
<1> QED BY <1>3, <1>9, SeqEqual

\* A frame that is recorded moves the window to its stamp.
LEMMA ForwardFits ==
  ASSUME NEW s \in Seq(Nat), NEW a \in Seq(Nat), Fits(s, a), NEW t \in Nat,
         ~(Len(Pruned(s, t)) > 0 /\ t < Pruned(s, t)[Len(Pruned(s, t))])
  PROVE  Fits(Append(Pruned(s, t), t), Append(a, t))
<1>1. RateWindow \in Nat
  BY TrafficAssumption DEF TrafficAssumption
<1>2. PICK n \in Nat, k \in Nat : n = Len(a) /\ k = Len(s)
  OBVIOUS
<1>3. PICK g \in 0..k :
        /\ Pruned(s, t) \in Seq(Nat) /\ Len(Pruned(s, t)) = k - g
        /\ \A i \in 1..(k - g) : Pruned(s, t)[i] = s[g + i]
        /\ \A j \in 1..g : s[j] < t - RateWindow
        /\ g < k => s[g + 1] >= t - RateWindow
  BY <1>2, PrunedFacts
<1> DEFINE kept == Pruned(s, t)  b == Append(a, t)  r == Append(kept, t)
<1>4. /\ Len(b) = n + 1 /\ b[n + 1] = t /\ \A i \in 1..n : b[i] = a[i]
      /\ \A i \in 1..n : a[i] \in Nat
      /\ \A i \in 1..k : s[i] \in Nat
  BY <1>2
<1>5. /\ Len(r) = k - g + 1 /\ r[k - g + 1] = t
      /\ \A i \in 1..(k - g) : r[i] = kept[i]
  <2>1. kept \in Seq(Nat) /\ Len(kept) = k - g /\ k - g \in Nat
    BY <1>3
  <2> HIDE DEF kept
  <2>2. /\ Len(r) = Len(kept) + 1 /\ r[Len(kept) + 1] = t
        /\ \A i \in 1..Len(kept) : r[i] = kept[i]
    BY <2>1, AppendFacts
  <2> QED BY <2>1, <2>2
<1>6. /\ k <= n /\ (n > 0 => k > 0)
      /\ \A i \in 1..k : s[i] = a[n - k + i]
      /\ \A i \in 1..n : i > n - k <=> a[i] >= a[n] - RateWindow
      /\ \A i, j \in 1..n : i <= j => a[i] <= a[j]
  BY <1>2 DEF Fits
<1>7. g < k => kept[k - g] = s[k]
  <2>1. g + (k - g) = k /\ (g < k => k - g \in 1..(k - g))
    BY <1>3
  <2> QED BY <1>3, <2>1
<1> HIDE DEF kept, b, r
<1>8. n > 0 => a[n] <= t
  <2> SUFFICES ASSUME n > 0 PROVE a[n] <= t
    OBVIOUS
  <2>1. s[k] = a[n] /\ s[k] \in Nat /\ k \in 1..k
    BY <1>4, <1>6
  <2>2. CASE g = k
    BY <1>1, <1>3, <2>1, <2>2
  <2>3. CASE g < k
    <3>1. Len(Pruned(s, t)) > 0 /\ Pruned(s, t)[Len(Pruned(s, t))] = s[k]
      BY <1>3, <1>7, <2>3 DEF kept
    <3> QED BY <2>1, <3>1
  <2> QED BY <2>2, <2>3
<1>9. \A i \in 1..n : a[i] <= t
  BY <1>4, <1>6, <1>8
<1>10. \A i, j \in 1..(n + 1) : i <= j => b[i] <= b[j]
  <2> SUFFICES ASSUME NEW i \in 1..(n + 1), NEW j \in 1..(n + 1), i <= j PROVE b[i] <= b[j]
    OBVIOUS
  <2>1. CASE j = n + 1
    BY <1>4, <1>9, <2>1
  <2>2. CASE j # n + 1
    BY <1>4, <1>6, <2>2
  <2> QED BY <2>1, <2>2
<1>11. \A i \in 1..(k - g + 1) : r[i] = b[n + 1 - (k - g + 1) + i]
  <2> SUFFICES ASSUME NEW i \in 1..(k - g + 1) PROVE r[i] = b[n - k + g + i]
    BY <1>6
  <2>1. CASE i = k - g + 1
    BY <1>4, <1>5, <1>6, <2>1
  <2>2. CASE i # k - g + 1
    <3>1. i \in 1..(k - g) /\ g + i \in 1..k /\ n - k + g + i \in 1..n
      BY <1>6, <2>2
    <3>2. r[i] = s[g + i] /\ s[g + i] = a[n - k + (g + i)]
      BY <1>3, <1>5, <1>6, <3>1 DEF kept
    <3>3. b[n - k + g + i] = a[n - k + g + i]
      BY <1>4, <3>1
    <3>4. n - k + (g + i) = n - k + g + i
      BY <1>3
    <3> QED BY <3>2, <3>3, <3>4, Zenon
  <2> QED BY <2>1, <2>2
<1>12. \A i \in 1..(n + 1) : i > n + 1 - (k - g + 1) <=> b[i] >= t - RateWindow
  <2> SUFFICES ASSUME NEW i \in 1..(n + 1) PROVE i > n - k + g <=> b[i] >= t - RateWindow
    BY <1>6
  <2>1. CASE i = n + 1
    BY <1>1, <1>4, <1>6, <2>1
  <2>2. CASE i <= n - k
    <3>1. i \in 1..n /\ n \in 1..n /\ n > 0 /\ ~(i > n - k)
      BY <1>6, <2>2
    <3>2. a[i] \in Nat /\ a[n] \in Nat /\ ~(a[i] >= a[n] - RateWindow) /\ a[n] <= t /\ b[i] = a[i]
      BY <1>4, <1>6, <1>8, <3>1
    <3>3. \A x, y, w, u \in Nat : ~(x >= y - w) /\ y <= u => ~(x >= u - w)
      OBVIOUS
    <3>4. ~(b[i] >= t - RateWindow)
      BY <1>1, <3>2, <3>3
    <3>5. ~(i > n - k + g)
      BY <1>3, <2>2
    <3> QED BY <3>4, <3>5
  <2>3. CASE n - k < i /\ i <= n - k + g
    <3>1. i \in 1..n /\ i - (n - k) \in 1..g /\ i - (n - k) \in 1..k
      BY <1>6, <2>3
    <3>2. s[i - (n - k)] = a[n - k + (i - (n - k))] /\ s[i - (n - k)] < t - RateWindow
      BY <1>3, <1>6, <3>1
    <3>3. a[i] < t - RateWindow /\ a[i] \in Nat /\ b[i] = a[i]
      BY <1>4, <3>1, <3>2
    <3> QED BY <1>1, <2>3, <3>3
  <2>4. CASE n - k + g < i /\ i <= n
    <3>1. i \in 1..n /\ g < k /\ g + 1 \in 1..k /\ n - k + (g + 1) \in 1..n
      BY <1>6, <2>4
    <3>2. s[g + 1] >= t - RateWindow /\ s[g + 1] = a[n - k + (g + 1)] /\ b[i] = a[i]
      BY <1>3, <1>4, <1>6, <3>1
    <3>3. n - k + (g + 1) <= i
      BY <1>3, <2>4
    <3>4. a[n - k + (g + 1)] <= a[i]
      BY <1>6, <3>1, <3>3
    <3>5. s[g + 1] \in Nat /\ a[i] \in Nat
      BY <1>4, <3>1
    <3> QED BY <1>1, <2>4, <3>2, <3>4, <3>5
  <2> QED BY <1>6, <2>1, <2>2, <2>3, <2>4
<1>13. k - g + 1 <= n + 1 /\ k - g + 1 > 0 /\ n + 1 > 0
  BY <1>6
<1>14. Fits(r, b)
  BY <1>4, <1>5, <1>10, <1>11, <1>12, <1>13 DEF Fits
<1> QED BY <1>14 DEF r, b, kept

(***************************************************************************)
(* Traffic: the queues                                                     *)
(***************************************************************************)
\* A queue s holds the newest of the n entries it was given.
Holds(s, n) == s = [i \in 1..Len(s) |-> n - Len(s) + i]

LEMMA AppendHolds ==
  ASSUME NEW s \in Seq(Nat), NEW n \in Nat, Holds(s, n)
  PROVE  Holds(Append(s, n + 1), n + 1)
<1> DEFINE r == Append(s, n + 1)
<1>1. Len(s) \in Nat /\ r \in Seq(Nat)
  OBVIOUS
<1>2. Len(r) = Len(s) + 1 /\ r[Len(s) + 1] = n + 1 /\ \A i \in 1..Len(s) : r[i] = s[i]
  BY AppendFacts
<1>3. \A i \in 1..Len(s) : s[i] = n - Len(s) + i
  BY DEF Holds
<1> HIDE DEF r
<1>4. \A i \in 1..Len(r) : r[i] = n + 1 - Len(r) + i
  <2> SUFFICES ASSUME NEW i \in 1..Len(r) PROVE r[i] = n + 1 - Len(r) + i
    OBVIOUS
  <2>1. CASE i = Len(s) + 1
    BY <1>1, <1>2, <2>1
  <2>2. CASE i # Len(s) + 1
    <3>1. i \in 1..Len(s) /\ n + 1 - Len(r) + i = n - Len(s) + i
      BY <1>1, <1>2, <2>2
    <3> QED BY <1>2, <1>3, <3>1
  <2> QED BY <2>1, <2>2
<1>5. Holds(r, n + 1)
  BY <1>1, <1>4 DEF Holds
<1> QED BY <1>5 DEF r

LEMMA TailHolds ==
  ASSUME NEW s \in Seq(Nat), NEW n \in Nat, Holds(s, n), Len(s) > 0
  PROVE  /\ Tail(s) \in Seq(Nat) /\ Len(Tail(s)) = Len(s) - 1
         /\ Holds(Tail(s), n)
<1> DEFINE r == Tail(s)
<1>1. /\ Len(s) \in Nat /\ s # <<>> /\ r \in Seq(Nat) /\ Len(r) = Len(s) - 1
      /\ \A i \in 1..(Len(s) - 1) : r[i] = s[i + 1]
  OBVIOUS
<1>2. \A i \in 1..Len(s) : s[i] = n - Len(s) + i
  BY DEF Holds
<1> HIDE DEF r
<1>3. \A i \in 1..Len(r) : r[i] = n - Len(r) + i
  BY <1>1, <1>2
<1>4. r = [i \in 1..Len(r) |-> n - Len(r) + i]
  BY <1>1, <1>3
<1> QED BY <1>1, <1>4 DEF Holds, r

(***************************************************************************)
(* Traffic: the invariant                                                  *)
(***************************************************************************)
\* A frame over the rate was answered so, and one refused since was reported; and no
\* other was answered so.
Answered(id) == /\ TooFast(timestamps[id]) => rateDecision[id] # "NONE"
                /\ rateDecision[id] = "RATE_LIMIT" => TooFast(timestamps[id])

WindowInv ==
  /\ timestamps \in [ObservedIds -> Seq(Nat)] /\ accepted \in [ObservedIds -> Seq(Nat)]
  /\ rateDecision \in [ObservedIds -> TrafficActions]
  /\ \A id \in ObservedIds : Fits(timestamps[id], accepted[id]) /\ Answered(id)

QueueInv ==
  /\ queue \in [Queues -> Seq(Nat)] /\ drops \in [Queues -> Nat]
  /\ put \in [Queues -> Nat] /\ taken \in [Queues -> Nat]
  /\ \A q \in Queues : /\ Len(queue[q]) <= Limit(q)
                       /\ Holds(queue[q], put[q])
                       /\ put[q] = taken[q] + drops[q] + Len(queue[q])

LEMMA ObserveKeepsWindow ==
  ASSUME WindowInv, NEW id \in ObservedIds, NEW t \in Nat, ObserveFrame(id, t)
  PROVE  WindowInv'
<1> DEFINE s == timestamps[id]  a == accepted[id]  kept == Pruned(s, t)
           backward == Len(kept) > 0 /\ t < kept[Len(kept)]
           answer == IF TooFast(Append(kept, t)) THEN "RATE_LIMIT" ELSE "NONE"
<1>1. s \in Seq(Nat) /\ a \in Seq(Nat) /\ Fits(s, a) /\ kept \in Seq(Nat)
  BY PrunedFacts DEF WindowInv
<1>2. CASE backward
  <2>1. kept = s
    BY <1>1, <1>2, BackwardPrunesNothing
  <2>2. /\ timestamps' = timestamps /\ accepted' = accepted
        /\ rateDecision' = [rateDecision EXCEPT ![id] = "ALERT"]
    BY <1>2, <2>1 DEF ObserveFrame, WindowInv
  <2> HIDE DEF kept, backward
  <2> QED BY <2>2 DEF WindowInv, Answered, TrafficActions
<1>3. CASE ~backward
  <2>1. Fits(Append(kept, t), Append(a, t))
    BY <1>1, <1>3, ForwardFits
  <2>2. Append(kept, t) \in Seq(Nat) /\ Append(a, t) \in Seq(Nat)
    BY <1>1
  <2>3. /\ timestamps' = [timestamps EXCEPT ![id] = Append(kept, t)]
        /\ accepted' = [accepted EXCEPT ![id] = Append(a, t)]
        /\ timestamps'[id] = Append(kept, t)
    BY <1>3 DEF ObserveFrame, WindowInv
  <2>4. rateDecision' = [rateDecision EXCEPT ![id] = answer]
    BY <1>3, <2>3 DEF ObserveFrame
  <2> HIDE DEF kept, a, backward
  <2>5. ASSUME NEW o \in ObservedIds
        PROVE  Fits(timestamps'[o], accepted'[o]) /\ Answered(o)'
    <3>1. CASE o = id
      BY <2>1, <2>3, <2>4, <3>1 DEF WindowInv, Answered
    <3>2. CASE o # id
      BY <2>3, <2>4, <3>2 DEF WindowInv, Answered
    <3> QED BY <3>1, <3>2
  <2> QED BY <2>2, <2>3, <2>4, <2>5 DEF WindowInv, TrafficActions
<1> QED BY <1>2, <1>3

LEMMA PutKeepsQueues ==
  ASSUME QueueInv, NEW q \in Queues, Put(q)
  PROVE  QueueInv'
<1> DEFINE s == queue[q]  full == Len(s) >= Limit(q)
           room == IF full THEN Tail(s) ELSE s
<1>1. Limit(q) \in Nat /\ Limit(q) > 0
  BY TrafficAssumption DEF TrafficAssumption, Limit
<1>2. /\ s \in Seq(Nat) /\ put[q] \in Nat /\ Holds(s, put[q]) /\ Len(s) <= Limit(q)
      /\ Len(s) \in Nat /\ drops[q] \in Nat /\ taken[q] \in Nat
      /\ put[q] = taken[q] + drops[q] + Len(s)
  BY DEF QueueInv
<1>3. /\ room \in Seq(Nat) /\ Holds(room, put[q])
      /\ Len(room) = IF full THEN Len(s) - 1 ELSE Len(s)
  BY <1>1, <1>2, TailHolds
<1>4. /\ Append(room, put[q] + 1) \in Seq(Nat) /\ Len(Append(room, put[q] + 1)) = Len(room) + 1
      /\ Holds(Append(room, put[q] + 1), put[q] + 1)
  <2> HIDE DEF room
  <2>1. put[q] + 1 \in Nat /\ room \in Seq(Nat)
    BY <1>2, <1>3
  <2>2. Holds(Append(room, put[q] + 1), put[q] + 1)
    BY <1>2, <1>3, AppendHolds
  <2> QED BY <2>1, <2>2
<1>5. /\ put' = [put EXCEPT ![q] = put[q] + 1]
      /\ queue' = [queue EXCEPT ![q] = Append(room, put[q] + 1)]
      /\ drops' = [drops EXCEPT ![q] = IF full THEN drops[q] + 1 ELSE drops[q]]
      /\ taken' = taken
  BY DEF Put, QueueInv
<1> HIDE DEF room
<1>6. ASSUME NEW o \in Queues
      PROVE  /\ Len(queue'[o]) <= Limit(o) /\ Holds(queue'[o], put'[o])
             /\ put'[o] = taken'[o] + drops'[o] + Len(queue'[o])
  <2>1. CASE o = q
    <3>1. /\ queue'[o] = Append(room, put[q] + 1) /\ put'[o] = put[q] + 1
          /\ drops'[o] = IF full THEN drops[q] + 1 ELSE drops[q]
          /\ taken'[o] = taken[q]
      BY <1>5, <2>1 DEF QueueInv
    <3>2. Len(queue'[o]) = Len(room) + 1 /\ Holds(queue'[o], put'[o])
      BY <1>4, <3>1
    <3>3. CASE full
      <4>1. /\ Len(room) = Len(s) - 1 /\ drops'[o] = drops[q] + 1
            /\ put'[o] = put[q] + 1 /\ taken'[o] = taken[q]
        BY <1>3, <3>1, <3>3
      <4> HIDE DEF s, full
      <4>2. Len(queue'[o]) = Len(s)
        BY <1>2, <3>2, <4>1
      <4>3. Len(queue'[o]) <= Limit(o)
        BY <1>2, <2>1, <4>2
      <4>4. \A x, y, z, n \in Nat : x = y + z + n => x + 1 = y + (z + 1) + n
        OBVIOUS
      <4>5. put[q] + 1 = taken[q] + (drops[q] + 1) + Len(s)
        BY <1>2, <4>4
      <4> QED BY <3>2, <4>1, <4>2, <4>3, <4>5, Zenon
    <3>4. CASE ~full
      <4>1. /\ Len(room) = Len(s) /\ Len(s) < Limit(q) /\ drops'[o] = drops[q]
            /\ put'[o] = put[q] + 1 /\ taken'[o] = taken[q]
        BY <1>1, <1>2, <1>3, <3>1, <3>4
      <4> HIDE DEF s, full
      <4>2. Len(queue'[o]) = Len(s) + 1
        BY <3>2, <4>1
      <4>3. Len(queue'[o]) <= Limit(o)
        BY <1>1, <1>2, <2>1, <4>1, <4>2
      <4>4. put'[o] = taken'[o] + drops'[o] + Len(queue'[o])
        BY <1>2, <4>1, <4>2
      <4> QED BY <3>2, <4>3, <4>4, Zenon
    <3> QED BY <3>3, <3>4
  <2>2. CASE o # q
    BY <1>5, <2>2 DEF QueueInv
  <2> QED BY <2>1, <2>2
<1>7. /\ queue' \in [Queues -> Seq(Nat)] /\ drops' \in [Queues -> Nat]
      /\ put' \in [Queues -> Nat] /\ taken' \in [Queues -> Nat]
  <2> HIDE DEF s, full
  <2>1. put[q] + 1 \in Nat /\ (IF full THEN drops[q] + 1 ELSE drops[q]) \in Nat
    BY <1>2
  <2> QED BY <1>4, <1>5, <2>1 DEF QueueInv
<1> QED BY <1>6, <1>7 DEF QueueInv

LEMMA TakeKeepsQueues ==
  ASSUME QueueInv, Take
  PROVE  QueueInv'
<1> DEFINE q == "processing"  s == queue[q]
<1>1. /\ q \in Queues /\ s \in Seq(Nat) /\ Len(s) \in Nat /\ Len(s) > 0
      /\ Holds(s, put[q]) /\ Len(s) <= Limit(q)
  <2>1. q \in Queues /\ s # <<>>
    BY DEF Take, Queues
  <2>2. s \in Seq(Nat) /\ Holds(s, put[q]) /\ Len(s) <= Limit(q)
    BY <2>1 DEF QueueInv
  <2>3. Len(s) \in Nat /\ Len(s) > 0
    BY <2>1, <2>2
  <2> QED BY <2>1, <2>2, <2>3
<1>2. /\ put[q] \in Nat /\ drops[q] \in Nat /\ taken[q] \in Nat
      /\ put[q] = taken[q] + drops[q] + Len(s)
  BY <1>1 DEF QueueInv
<1>3. Tail(s) \in Seq(Nat) /\ Len(Tail(s)) = Len(s) - 1 /\ Holds(Tail(s), put[q])
  BY <1>1, <1>2, TailHolds
<1>4. /\ queue' = [queue EXCEPT ![q] = Tail(s)] /\ taken' = [taken EXCEPT ![q] = taken[q] + 1]
      /\ put' = put /\ drops' = drops
  BY DEF Take
<1>5. Limit(q) \in Nat
  BY TrafficAssumption DEF TrafficAssumption, Limit
<1> HIDE DEF q
<1>6. ASSUME NEW o \in Queues
      PROVE  /\ Len(queue'[o]) <= Limit(o) /\ Holds(queue'[o], put'[o])
             /\ put'[o] = taken'[o] + drops'[o] + Len(queue'[o])
  <2>1. CASE o = q
    <3>1. queue'[o] = Tail(s) /\ put'[o] = put[q] /\ drops'[o] = drops[q] /\ taken'[o] = taken[q] + 1
      BY <1>1, <1>4, <2>1 DEF QueueInv
    <3>2. Len(queue'[o]) = Len(s) - 1 /\ Holds(queue'[o], put'[o])
      BY <1>3, <3>1
    <3> HIDE DEF s
    <3>3. Len(queue'[o]) <= Limit(o)
      BY <1>1, <1>5, <2>1, <3>2
    <3>4. put'[o] = taken'[o] + drops'[o] + Len(queue'[o])
      <4> DEFINE n == Len(s)  x == put[q]  y == taken[q]  z == drops[q]
      <4>1. /\ x \in Nat /\ y \in Nat /\ z \in Nat /\ n \in Nat /\ x = y + z + n
            /\ put'[o] = x /\ taken'[o] = y + 1 /\ drops'[o] = z /\ Len(queue'[o]) = n - 1
        BY <1>1, <1>2, <3>1, <3>2
      <4> HIDE DEF n, x, y, z
      <4> QED BY <4>1
    <3> QED BY <3>2, <3>3, <3>4
  <2>2. CASE o # q
    BY <1>4, <2>2 DEF QueueInv
  <2> QED BY <2>1, <2>2
<1>7. /\ queue' \in [Queues -> Seq(Nat)] /\ drops' \in [Queues -> Nat]
      /\ put' \in [Queues -> Nat] /\ taken' \in [Queues -> Nat]
  <2> HIDE DEF s
  <2>1. taken[q] + 1 \in Nat
    BY <1>2
  <2> QED BY <1>3, <1>4, <2>1 DEF QueueInv
<1> QED BY <1>6, <1>7 DEF QueueInv

LEMMA TrafficInvCorrect == TrafficSpec => [](WindowInv /\ QueueInv)
<1>1. TrafficInit => WindowInv /\ QueueInv
  <2> SUFFICES ASSUME TrafficInit PROVE WindowInv /\ QueueInv
    OBVIOUS
  <2>1. Fits(<<>>, <<>>) /\ ~TooFast(<<>>)
    BY DEF Fits, TooFast
  <2>2. Holds(<<>>, 0)
    BY DEF Holds
  <2>3. \A q \in Queues : 0 <= Limit(q)
    BY TrafficAssumption DEF TrafficAssumption, Limit
  <2>4. WindowInv
    BY <2>1 DEF TrafficInit, WindowInv, Answered, TrafficActions
  <2>5. QueueInv
    BY <2>2, <2>3 DEF TrafficInit, QueueInv
  <2> QED BY <2>4, <2>5
<1>2. WindowInv /\ QueueInv /\ [TrafficNext]_trafficVars => WindowInv' /\ QueueInv'
  <2> SUFFICES ASSUME WindowInv, QueueInv, [TrafficNext]_trafficVars
               PROVE  WindowInv' /\ QueueInv'
    OBVIOUS
  <2>1. ASSUME NEW id \in ObservedIds, NEW t \in 0..LastFrameTime, ObserveFrame(id, t)
        PROVE  WindowInv' /\ QueueInv'
    <3>1. t \in Nat
      OBVIOUS
    <3>2. UNCHANGED queueVars
      BY <2>1 DEF ObserveFrame
    <3> QED BY <2>1, <3>1, <3>2, ObserveKeepsWindow DEF QueueInv, queueVars
  <2>2. ASSUME NEW q \in Queues, Put(q)
        PROVE  WindowInv' /\ QueueInv'
    <3>1. UNCHANGED rateVars
      BY <2>2 DEF Put
    <3> QED BY <2>2, <3>1, PutKeepsQueues DEF WindowInv, Answered, rateVars
  <2>3. CASE Take
    <3>1. UNCHANGED rateVars
      BY <2>3 DEF Take
    <3> QED BY <2>3, <3>1, TakeKeepsQueues DEF WindowInv, Answered, rateVars
  <2>4. CASE UNCHANGED trafficVars
    BY <2>4 DEF trafficVars, WindowInv, QueueInv, Answered
  <2> QED BY <2>1, <2>2, <2>3, <2>4 DEF TrafficNext, Quiet
<1> QED BY <1>1, <1>2, PTL DEF TrafficSpec

\* Each variable of the traffic monitor keeps its type, and no queue outgrows its limit.
THEOREM TrafficTypeCorrect == TrafficSpec => []TrafficTypeOK
<1>1. WindowInv /\ QueueInv => TrafficTypeOK
  BY DEF WindowInv, QueueInv, TrafficTypeOK
<1> QED BY <1>1, TrafficInvCorrect, PTL

\* No drop makes a queue skip or repeat an entry, whatever its limit.
THEOREM QueuesHoldNewest == TrafficSpec => []QueueHoldsNewest
<1>1. WindowInv /\ QueueInv => QueueHoldsNewest
  BY DEF QueueInv, QueueHoldsNewest, Holds
<1> QED BY <1>1, TrafficInvCorrect, PTL

\* The frames kept are those within one window of the newest, whatever the refused
\* frames were stamped.
THEOREM WindowAlwaysExact == TrafficSpec => []WindowIsExact
<1>1. WindowInv => WindowIsExact
  <2> SUFFICES ASSUME WindowInv, NEW id \in ObservedIds
               PROVE  /\ Len(accepted[id]) - Len(timestamps[id]) >= 0
                      /\ \A i \in DOMAIN timestamps[id] :
                           timestamps[id][i]
                             = accepted[id][Len(accepted[id]) - Len(timestamps[id]) + i]
                      /\ \A i \in DOMAIN accepted[id] :
                           i > Len(accepted[id]) - Len(timestamps[id])
                             <=> accepted[id][i] >= Newest(accepted[id]) - RateWindow
    BY DEF WindowIsExact
  <2>1. /\ timestamps[id] \in Seq(Nat) /\ accepted[id] \in Seq(Nat)
        /\ Fits(timestamps[id], accepted[id])
    BY DEF WindowInv
  <2>2. /\ DOMAIN timestamps[id] = 1..Len(timestamps[id])
        /\ DOMAIN accepted[id] = 1..Len(accepted[id])
        /\ Len(timestamps[id]) \in Nat /\ Len(accepted[id]) \in Nat
    BY <2>1
  <2>3. Len(accepted[id]) - Len(timestamps[id]) >= 0
    BY <2>1, <2>2 DEF Fits
  <2>4. /\ \A i \in 1..Len(timestamps[id]) :
             timestamps[id][i] = accepted[id][Len(accepted[id]) - Len(timestamps[id]) + i]
        /\ \A i \in 1..Len(accepted[id]) :
             i > Len(accepted[id]) - Len(timestamps[id])
               <=> accepted[id][i] >= accepted[id][Len(accepted[id])] - RateWindow
    BY <2>1, Zenon DEF Fits
  <2> QED BY <2>2, <2>3, <2>4, Zenon DEF Newest
<1> QED BY <1>1, TrafficInvCorrect, PTL

\* More frames in a window than the rate allows are always a reason to limit.
THEOREM FloodAlwaysLimited == TrafficSpec => []FloodIsLimited
<1>1. WindowInv => FloodIsLimited
  <2> SUFFICES ASSUME WindowInv, NEW id \in ObservedIds, NEW n \in 1..MaxFrames,
                      Len(accepted[id]) >= n + 1, n * MinGap > RateWindow,
                      Newest(accepted[id]) - accepted[id][Len(accepted[id]) - n] <= RateWindow
               PROVE  rateDecision[id] # "NONE"
    BY DEF FloodIsLimited
  <2> DEFINE s == timestamps[id]  a == accepted[id]
  <2>1. s \in Seq(Nat) /\ a \in Seq(Nat) /\ Fits(s, a) /\ Answered(id)
    BY DEF WindowInv
  <2>2. /\ MinGap \in Nat /\ RateWindow \in Nat /\ n \in Nat /\ n >= 1
    BY TrafficAssumption DEF TrafficAssumption
  <2>3. PICK N \in Nat, k \in Nat : N = Len(a) /\ k = Len(s)
    BY <2>1
  <2>4. /\ N >= n + 1 /\ N \in 1..N /\ N - n \in 1..N /\ k <= N /\ (N > 0 => k > 0)
        /\ \A i \in 1..k : s[i] = a[N - k + i]
        /\ \A i \in 1..N : i > N - k <=> a[i] >= a[N] - RateWindow
        /\ \A i \in 1..N : a[i] \in Nat
        /\ a[N] - a[N - n] <= RateWindow
    <3>1. N >= n + 1 /\ N \in 1..N /\ N - n \in 1..N
      BY <2>2, <2>3
    <3>2. /\ k <= N /\ (N > 0 => k > 0)
          /\ \A i \in 1..k : s[i] = a[N - k + i]
          /\ \A i \in 1..N : i > N - k <=> a[i] >= a[N] - RateWindow
      BY <2>1, <2>3, Zenon DEF Fits
    <3>3. a[N] - a[N - n] <= RateWindow
      BY <2>3 DEF Newest
    <3>4. \A i \in 1..N : a[i] \in Nat
      <4>1. \A b \in Seq(Nat) : \A i \in 1..Len(b) : b[i] \in Nat
        OBVIOUS
      <4> QED BY <2>1, <2>3, <4>1, Zenon
    <3> QED BY <3>1, <3>2, <3>3, <3>4
  <2> HIDE DEF s, a
  <2>5. N - n > N - k
    <3>1. a[N - n] >= a[N] - RateWindow
      BY <2>2, <2>4
    <3> QED BY <2>4, <3>1
  <2>6. k >= n + 1 /\ N - k + 1 \in 1..N /\ N - k + 1 > N - k /\ 1 \in 1..k /\ k \in 1..k
        /\ N - k + k = N
    BY <2>2, <2>4, <2>5
  <2>7. s[1] = a[N - k + 1] /\ s[k] = a[N] /\ a[N - k + 1] >= a[N] - RateWindow
    BY <2>4, <2>6
  <2>8. (k - 1) * MinGap >= n * MinGap
    <3>1. \A x, y, z \in Nat : x >= y => x * z >= y * z
      OBVIOUS
    <3> QED BY <2>2, <2>6, <3>1
  <2>9. (k - 1) * MinGap > s[k] - s[1]
    <3>1. \A u, v, p, r, w \in Nat : u >= v /\ v > w /\ p >= r - w => u > r - p
      OBVIOUS
    <3>2. /\ (k - 1) * MinGap \in Nat /\ n * MinGap \in Nat
          /\ a[N - k + 1] \in Nat /\ a[N] \in Nat
      BY <2>2, <2>4, <2>6
    <3> QED BY <2>2, <2>7, <2>8, <3>1, <3>2
  <2>10. TooFast(s)
    BY <2>2, <2>3, <2>6, <2>9 DEF TooFast
  <2> QED BY <2>1, <2>10 DEF Answered, s
<1> QED BY <1>1, TrafficInvCorrect, PTL

\* Stamps that are each MinGap or more after the one before span as many intervals.
LEMMA GapsAdd ==
  ASSUME NEW s, NEW k \in Nat \ {0}, \A i \in 1..k : s[i] \in Nat, NEW gap \in Nat,
         \A i \in 2..k : s[i] - s[i - 1] >= gap
  PROVE  s[k] - s[1] >= (k - 1) * gap
<1> DEFINE Short == {i \in 1..k : ~(s[i] - s[1] >= (i - 1) * gap)}
<1> SUFFICES ASSUME Short # {} PROVE FALSE
  OBVIOUS
<1>1. PICK m \in Short : \A n \in Short : m <= n
  <2>1. Short \in SUBSET Nat
    OBVIOUS
  <2> HIDE DEF Short
  <2> QED BY <2>1, NatMinimum
<1>2. m # 1
  <2>1. s[1] \in Nat /\ (1 - 1) * gap = 0
    OBVIOUS
  <2>2. s[1] - s[1] >= (1 - 1) * gap
    BY <2>1
  <2> QED BY <2>2
<1>3. m \in 2..k /\ m - 1 \in 1..k /\ m - 1 \notin Short
  BY <1>1, <1>2
<1>4. s[m - 1] - s[1] >= (m - 2) * gap /\ s[m] - s[m - 1] >= gap
  BY <1>3
<1>5. (m - 1) * gap = (m - 2) * gap + gap /\ (m - 2) * gap \in Nat
  <2>1. \A x, y \in Nat : (x + 1) * y = x * y + y /\ x * y \in Nat
    OBVIOUS
  <2>2. m - 2 \in Nat /\ (m - 2) + 1 = m - 1
    BY <1>3
  <2> QED BY <2>1, <2>2
<1>6. s[m] \in Nat /\ s[m - 1] \in Nat /\ s[1] \in Nat
  BY <1>3
<1>7. s[m] - s[1] >= (m - 1) * gap
  BY <1>4, <1>5, <1>6
<1> QED BY <1>1, <1>7

\* Traffic that keeps to its rate is never limited, however long it lasts.
THEOREM SteadyNeverLimited == TrafficSpec => []SteadyIsNotLimited
<1>1. WindowInv => SteadyIsNotLimited
  <2> SUFFICES ASSUME WindowInv, NEW id \in ObservedIds, rateDecision[id] = "RATE_LIMIT",
                      \A i \in InWindow(id) :
                        i > 1 => accepted[id][i] - accepted[id][i - 1] >= MinGap
               PROVE  FALSE
    BY DEF SteadyIsNotLimited
  <2> DEFINE s == timestamps[id]  a == accepted[id]
  <2>1. s \in Seq(Nat) /\ a \in Seq(Nat) /\ Fits(s, a) /\ TooFast(s)
    BY DEF WindowInv, Answered
  <2>2. MinGap \in Nat
    BY TrafficAssumption DEF TrafficAssumption
  <2>3. PICK n \in Nat, k \in Nat : n = Len(a) /\ k = Len(s)
    BY <2>1
  <2>4. /\ k <= n /\ \A i \in 1..k : s[i] = a[n - k + i]
        /\ \A i \in 1..n : i > n - k <=> a[i] >= a[n] - RateWindow
    BY <2>1, <2>3, Zenon DEF Fits
  <2>5. k >= 2 /\ (k - 1) * MinGap > s[k] - s[1] /\ \A i \in 1..k : s[i] \in Nat
    <3>1. k >= 2 /\ (k - 1) * MinGap > s[k] - s[1]
      BY <2>1, <2>3 DEF TooFast
    <3>2. \A b \in Seq(Nat) : \A i \in 1..Len(b) : b[i] \in Nat
      OBVIOUS
    <3>3. \A i \in 1..k : s[i] \in Nat
      BY <2>1, <2>3, <3>2, Zenon
    <3> QED BY <3>1, <3>3
  <2>6. \A i \in 2..k : s[i] - s[i - 1] >= MinGap
    <3> SUFFICES ASSUME NEW i \in 2..k PROVE s[i] - s[i - 1] >= MinGap
      OBVIOUS
    <3>1. /\ n - k + i \in 1..n /\ n - k + i > n - k /\ n - k + i > 1
          /\ i \in 1..k /\ i - 1 \in 1..k /\ n - k + (i - 1) = (n - k + i) - 1
      BY <2>4
    <3>2. n - k + i \in InWindow(id)
      <4>1. DOMAIN a = 1..n
        BY <2>1, <2>3
      <4>2. a[n - k + i] >= a[n] - RateWindow
        BY <2>4, <3>1, Zenon
      <4> QED BY <2>3, <3>1, <4>1, <4>2 DEF InWindow, Newest
    <3>3. a[n - k + i] - a[(n - k + i) - 1] >= MinGap
      BY <3>1, <3>2
    <3>4. s[i] = a[n - k + i] /\ s[i - 1] = a[(n - k + i) - 1]
      BY <2>4, <3>1
    <3> QED BY <3>3, <3>4
  <2> HIDE DEF s, a
  <2>7. s[k] - s[1] >= (k - 1) * MinGap
    <3>1. k \in Nat \ {0}
      BY <2>5
    <3> QED BY <2>2, <2>5, <2>6, <3>1, GapsAdd
  <2>8. s[k] \in Nat /\ s[1] \in Nat /\ (k - 1) * MinGap \in Nat
    BY <2>2, <2>5
  <2> QED BY <2>5, <2>7, <2>8
<1> QED BY <1>1, TrafficInvCorrect, PTL

(***************************************************************************)
(* The codec: the checksum                                                 *)
(***************************************************************************)
Byte == SUBSET (0..7)

\* d is c shifted by one bit, bit by bit.
ShiftsTo(c, d) ==
  /\ d \in Byte
  /\ (0 \in d <=> 7 \in c) /\ (1 \in d <=> 0 \in c)
  /\ (2 \in d <=> ~(1 \in c <=> 7 \in c))
  /\ (3 \in d <=> ~(2 \in c <=> 7 \in c))
  /\ (4 \in d <=> ~(3 \in c <=> 7 \in c))
  /\ (5 \in d <=> 4 \in c) /\ (6 \in d <=> 5 \in c) /\ (7 \in d <=> 6 \in c)

LEMMA ShiftBits == \A c \in Byte : ShiftsTo(c, Shift(c))
<1> SUFFICES ASSUME NEW c \in Byte PROVE ShiftsTo(c, Shift(c))
  OBVIOUS
<1> DEFINE up == {b + 1 : b \in c \ {7}}
<1>1. up \in SUBSET (1..7) /\ \A b \in 0..6 : b + 1 \in up <=> b \in c
  BY DEF Byte
<1>2. CASE 7 \in c
  <2>1. Shift(c) = Xor(up, {0, 2, 3, 4})
    BY <1>2 DEF Shift, Polynomial
  <2> HIDE DEF up
  <2> QED BY <1>1, <1>2, <2>1 DEF Xor, ShiftsTo, Byte
<1>3. CASE 7 \notin c
  <2>1. Shift(c) = Xor(up, {})
    BY <1>3 DEF Shift
  <2> HIDE DEF up
  <2> QED BY <1>1, <1>3, <2>1 DEF Xor, ShiftsTo, Byte
<1> QED BY <1>2, <1>3

\* The sets of bits of a byte are a group under Xor.
LEMMA XorFacts ==
  /\ \A a \in Byte : Xor(a, {}) = a /\ Xor({}, a) = a
  /\ \A a, b \in Byte : Xor(a, b) \in Byte
  /\ \A a, b \in Byte : Xor(a, b) = {} <=> a = b
  /\ \A a, b \in Byte : \A n : n \in Xor(a, b) <=> ~(n \in a <=> n \in b)
<1>1. \A a, b \in Byte : \A n : n \in Xor(a, b) <=> ~(n \in a <=> n \in b)
  BY DEF Xor
<1>2. \A a, b \in Byte : Xor(a, b) \in Byte
  BY DEF Xor, Byte
<1>3. \A a \in Byte : Xor(a, {}) = a /\ Xor({}, a) = a
  BY DEF Xor
<1>4. \A a, b \in Byte : Xor(a, b) = {} <=> a = b
  BY <1>1 DEF Byte
<1> QED BY <1>1, <1>2, <1>3, <1>4

LEMMA ByteIs ==
  \A c : ShiftByte(c) = Shift(Shift(Shift(Shift(Shift(Shift(Shift(Shift(c))))))))
BY DEF ShiftByte

\* Shifting is linear and loses nothing.
LEMMA ShiftFacts ==
  /\ \A c \in Byte : ShiftByte(c) \in Byte
  /\ \A c \in Byte : ShiftByte(c) = {} <=> c = {}
  /\ \A c, d \in Byte : Xor(ShiftByte(c), ShiftByte(d)) = ShiftByte(Xor(c, d))
<1>1. \A c \in Byte : Shift(c) \in Byte
  BY ShiftBits DEF ShiftsTo
<1>2. \A c, d \in Byte : Xor(Shift(c), Shift(d)) = Shift(Xor(c, d))
  <2> SUFFICES ASSUME NEW c \in Byte, NEW d \in Byte
               PROVE  Xor(Shift(c), Shift(d)) = Shift(Xor(c, d))
    OBVIOUS
  <2>1. /\ ShiftsTo(c, Shift(c)) /\ ShiftsTo(d, Shift(d))
        /\ ShiftsTo(Xor(c, d), Shift(Xor(c, d)))
        /\ \A n : n \in Xor(c, d) <=> ~(n \in c <=> n \in d)
    BY ShiftBits, XorFacts
  <2> DEFINE x == Xor(Shift(c), Shift(d))
             y == Shift(Xor(c, d))
  <2>2. x \in Byte /\ y \in Byte
    BY <2>1, XorFacts DEF ShiftsTo
  <2>3. \A n : n \in x <=> ~(n \in Shift(c) <=> n \in Shift(d))
    BY <2>1, XorFacts DEF ShiftsTo
  <2>4. \A n \in 0..7 : n \in x <=> n \in y
    <3> HIDE DEF x
    <3> QED BY <2>1, <2>3 DEF ShiftsTo
  <2> HIDE DEF x, y
  <2>5. x = y
    BY <2>2, <2>4 DEF Byte
  <2> QED BY <2>5 DEF x, y
<1>3. \A c \in Byte : Shift(c) = {} <=> c = {}
  <2> SUFFICES ASSUME NEW c \in Byte PROVE Shift(c) = {} <=> c = {}
    OBVIOUS
  <2>1. ShiftsTo(c, Shift(c))
    BY ShiftBits
  <2> QED BY <2>1 DEF ShiftsTo, Byte
<1>4. \A c \in Byte : ShiftByte(c) \in Byte
  BY <1>1, ByteIs
<1>5. \A c \in Byte : ShiftByte(c) = {} <=> c = {}
  BY <1>1, <1>3, ByteIs
<1>6. \A c, d \in Byte : Xor(ShiftByte(c), ShiftByte(d)) = ShiftByte(Xor(c, d))
  <2> SUFFICES ASSUME NEW c \in Byte, NEW d \in Byte
               PROVE  Xor(ShiftByte(c), ShiftByte(d)) = ShiftByte(Xor(c, d))
    OBVIOUS
  <2> DEFINE Linear(a, b, e) == a \in Byte /\ b \in Byte /\ Xor(a, b) = e
  <2>1. \A a, b, e : Linear(a, b, e) => Linear(Shift(a), Shift(b), Shift(e))
    BY <1>1, <1>2
  <2>2. Linear(c, d, Xor(c, d))
    OBVIOUS
  <2>3. \A a, b, e : Linear(a, b, e) => Xor(a, b) = e
    OBVIOUS
  <2> HIDE DEF Linear
  <2>4. Linear(ShiftByte(c), ShiftByte(d), ShiftByte(Xor(c, d)))
    BY <2>1, <2>2, ByteIs
  <2> QED BY <2>3, <2>4
<1> QED BY <1>4, <1>5, <1>6

\* A bit, one to seven bytes later.
Carried(c) ==
  LET c1 == ShiftByte(c)   c2 == ShiftByte(c1)  c3 == ShiftByte(c2)  c4 == ShiftByte(c3)
      c5 == ShiftByte(c4)  c6 == ShiftByte(c5)  c7 == ShiftByte(c6)
  IN  <<c1, c2, c3, c4, c5, c6, c7>>

NoSingleBit(c) == \A k \in 1..7, a \in 0..7 : c[k] # {a}

\* It has spread by then: over seven bytes the shift register never returns to a
\* single bit.
LEMMA BitSpreads ==
  \A b \in 0..7 :
    /\ Carried({b})[1] = ShiftByte({b})
    /\ \A k \in 1..6 : Carried({b})[k + 1] = ShiftByte(Carried({b})[k])
    /\ NoSingleBit(Carried({b}))
<1> SUFFICES ASSUME NEW b \in 0..7
             PROVE  /\ Carried({b})[1] = ShiftByte({b})
                    /\ \A k \in 1..6 : Carried({b})[k + 1] = ShiftByte(Carried({b})[k])
                    /\ NoSingleBit(Carried({b}))
  OBVIOUS
<1>1. {b} \in Byte
  BY DEF Byte
<1> DEFINE c1 == ShiftByte({b})
           c2 == ShiftByte(c1)
           c3 == ShiftByte(c2)
           c4 == ShiftByte(c3)
           c5 == ShiftByte(c4)
           c6 == ShiftByte(c5)
           c7 == ShiftByte(c6)
<1>2. Carried({b}) = <<c1, c2, c3, c4, c5, c6, c7>>
  BY DEF Carried
<1>3. \A a \in 0..7 : c1 # {a} /\ c2 # {a}
  BY <1>1, ShiftBits, ByteIs DEF ShiftsTo, Byte
<1>4. \A a \in 0..7 : c3 # {a} /\ c4 # {a}
  BY <1>1, ShiftBits, ByteIs DEF ShiftsTo, Byte
<1>5. \A a \in 0..7 : c5 # {a} /\ c6 # {a}
  BY <1>1, ShiftBits, ByteIs DEF ShiftsTo, Byte
<1>6. \A a \in 0..7 : c7 # {a}
  BY <1>1, ShiftBits, ByteIs DEF ShiftsTo, Byte
<1>7. /\ c2 = ShiftByte(c1) /\ c3 = ShiftByte(c2) /\ c4 = ShiftByte(c3)
      /\ c5 = ShiftByte(c4) /\ c6 = ShiftByte(c5) /\ c7 = ShiftByte(c6)
      /\ c1 = ShiftByte({b})
  OBVIOUS
<1> HIDE DEF c1, c2, c3, c4, c5, c6, c7
<1>8. /\ Carried({b})[1] = c1 /\ Carried({b})[2] = c2 /\ Carried({b})[3] = c3
      /\ Carried({b})[4] = c4 /\ Carried({b})[5] = c5 /\ Carried({b})[6] = c6
      /\ Carried({b})[7] = c7
  BY <1>2
<1>9. \A k \in 1..6 : Carried({b})[k + 1] = ShiftByte(Carried({b})[k])
  <2> SUFFICES ASSUME NEW k \in 1..6
               PROVE  Carried({b})[k + 1] = ShiftByte(Carried({b})[k])
    OBVIOUS
  <2>1. k = 1 \/ k = 2 \/ k = 3 \/ k = 4 \/ k = 5 \/ k = 6
    OBVIOUS
  <2> QED BY <1>7, <1>8, <2>1
<1>10. NoSingleBit(Carried({b}))
  <2> SUFFICES ASSUME NEW k \in 1..7, NEW a \in 0..7 PROVE Carried({b})[k] # {a}
    BY DEF NoSingleBit
  <2>1. k = 1 \/ k = 2 \/ k = 3 \/ k = 4 \/ k = 5 \/ k = 6 \/ k = 7
    OBVIOUS
  <2> QED BY <1>3, <1>4, <1>5, <1>6, <1>8, <2>1
<1> QED BY <1>7, <1>8, <1>9, <1>10

\* From 0 to 7, one after the other.
LEMMA OneByOne ==
  ASSUME NEW S, 0 \in S, \A n \in 0..6 : n \in S => n + 1 \in S
  PROVE  \A n \in 0..7 : n \in S
<1>1. 1 \in S /\ 2 \in S
  OBVIOUS
<1>2. 3 \in S /\ 4 \in S
  BY <1>1
<1>3. 5 \in S /\ 6 \in S
  BY <1>2
<1>4. 7 \in S
  BY <1>3
<1> QED BY <1>1, <1>2, <1>3, <1>4

\* What the checksum register holds after each of seven bytes.
Registers(data, reg) ==
  /\ reg \in [0..7 -> Byte] /\ reg[0] = 0..7
  /\ \A n \in 1..7 : reg[n] = ShiftByte(Xor(reg[n - 1], data[n]))

LEMMA CRCIs ==
  ASSUME NEW data \in Seq(Byte), Len(data) = 7
  PROVE  \E reg : Registers(data, reg) /\ CRC8(data) = reg[7]
<1> DEFINE step(f, n) == IF n = 0 THEN 0..7 ELSE ShiftByte(Xor(f[n - 1], data[n]))
           r0 == 0..7
           r1 == ShiftByte(Xor(r0, data[1]))
           r2 == ShiftByte(Xor(r1, data[2]))
           r3 == ShiftByte(Xor(r2, data[3]))
           r4 == ShiftByte(Xor(r3, data[4]))
           r5 == ShiftByte(Xor(r4, data[5]))
           r6 == ShiftByte(Xor(r5, data[6]))
           r7 == ShiftByte(Xor(r6, data[7]))
           form == [n \in 0..7 |-> <<r0, r1, r2, r3, r4, r5, r6, r7>>[n + 1]]
           crc == CHOOSE f : f = [n \in 0..7 |-> step(f, n)]
<1>1. /\ r1 = ShiftByte(Xor(r0, data[1])) /\ r2 = ShiftByte(Xor(r1, data[2]))
      /\ r3 = ShiftByte(Xor(r2, data[3])) /\ r4 = ShiftByte(Xor(r3, data[4]))
      /\ r5 = ShiftByte(Xor(r4, data[5])) /\ r6 = ShiftByte(Xor(r5, data[6]))
      /\ r7 = ShiftByte(Xor(r6, data[7])) /\ r0 = 0..7
  OBVIOUS
<1> HIDE DEF r0, r1, r2, r3, r4, r5, r6, r7
<1>2. /\ form[0] = r0 /\ form[1] = r1 /\ form[2] = r2 /\ form[3] = r3
      /\ form[4] = r4 /\ form[5] = r5 /\ form[6] = r6 /\ form[7] = r7
      /\ form = [n \in 0..7 |-> form[n]]
  OBVIOUS
<1> HIDE DEF form
<1>3. \A n \in 0..7 : form[n] = step(form, n)
  <2> SUFFICES ASSUME NEW n \in 0..7 PROVE form[n] = step(form, n)
    OBVIOUS
  <2>1. form[0] = step(form, 0)
    BY <1>1, <1>2
  <2>2. \A k \in 1..7 : form[k] = ShiftByte(Xor(form[k - 1], data[k])) => form[k] = step(form, k)
    OBVIOUS
  <2>3. /\ 1 - 1 = 0 /\ 2 - 1 = 1 /\ 3 - 1 = 2 /\ 4 - 1 = 3 /\ 5 - 1 = 4 /\ 6 - 1 = 5
        /\ 7 - 1 = 6
    OBVIOUS
  <2>4. /\ form[1] = ShiftByte(Xor(form[1 - 1], data[1]))
        /\ form[2] = ShiftByte(Xor(form[2 - 1], data[2]))
        /\ form[3] = ShiftByte(Xor(form[3 - 1], data[3]))
        /\ form[4] = ShiftByte(Xor(form[4 - 1], data[4]))
        /\ form[5] = ShiftByte(Xor(form[5 - 1], data[5]))
        /\ form[6] = ShiftByte(Xor(form[6 - 1], data[6]))
        /\ form[7] = ShiftByte(Xor(form[7 - 1], data[7]))
    BY <1>1, <1>2, <2>3, Zenon
  <2> HIDE DEF step
  <2>5. n = 0 \/ n = 1 \/ n = 2 \/ n = 3 \/ n = 4 \/ n = 5 \/ n = 6 \/ n = 7
    OBVIOUS
  <2> QED BY <2>1, <2>2, <2>4, <2>5
<1>4. form = [n \in 0..7 |-> step(form, n)]
  BY <1>2, <1>3
<1>5. crc = [n \in 0..7 |-> step(crc, n)]
  BY <1>4, Zenon
<1>6. CRC8(data) = crc[7]
  BY DEF CRC8
<1> HIDE DEF crc
<1>7. crc[0] = 0..7 /\ \A n \in 1..7 : crc[n] = ShiftByte(Xor(crc[n - 1], data[n]))
  <2>1. \A n \in 0..7 : crc[n] = step(crc, n)
    <3> HIDE DEF step
    <3> QED BY <1>5
  <2> QED BY <2>1
<1>8. \A n \in 1..7 : data[n] \in Byte
  BY ElementOfSeq
<1>9. \A n \in 0..7 : crc[n] \in Byte
  <2> DEFINE S == {n \in 0..7 : crc[n] \in Byte}
  <2>1. 0 \in S
    BY <1>7 DEF Byte
  <2>2. ASSUME NEW n \in 0..6, n \in S PROVE n + 1 \in S
    <3>1. n + 1 \in 1..7 /\ crc[n + 1] = ShiftByte(Xor(crc[n], data[n + 1]))
      BY <1>7
    <3>2. crc[n] \in Byte /\ data[n + 1] \in Byte
      BY <1>8, <2>2, <3>1
    <3>3. Xor(crc[n], data[n + 1]) \in Byte
      BY <3>2, XorFacts
    <3> QED BY <3>1, <3>3, ShiftFacts
  <2> HIDE DEF S
  <2>3. \A n \in 0..7 : n \in S
    BY <2>1, <2>2, OneByOne
  <2> QED BY <2>3 DEF S
<1>10. crc \in [0..7 -> Byte]
  <2>1. crc = [n \in 0..7 |-> crc[n]]
    BY <1>5
  <2> QED BY <1>9, <2>1
<1> QED BY <1>6, <1>7, <1>10 DEF Registers

\* The bits that differ between two payloads of eight bytes.
Differ(d, x) == [n \in 1..8 |-> Xor(d[n], x[n])]

\* How the errors of a payload propagate through the checksum.
Propagates(e, E) ==
  /\ E \in [1..8 -> Byte] /\ e \in [0..7 -> Byte] /\ e[0] = {}
  /\ \A n \in 1..7 : e[n] = ShiftByte(Xor(e[n - 1], E[n]))

\* An error in the register stays there until another one comes.
LEMMA ErrorStays ==
  ASSUME NEW E, NEW e, Propagates(e, E), NEW i \in 0..7, NEW j \in i..7,
         \A n \in (i + 1)..j : E[n] = {}
  PROVE  e[j] = {} <=> e[i] = {}
<1> DEFINE S == {n \in 0..7 : n \in i..j => (e[n] = {} <=> e[i] = {})}
<1>1. 0 \in S
  OBVIOUS
<1>2. ASSUME NEW n \in 0..6, n \in S PROVE n + 1 \in S
  <2> SUFFICES ASSUME n + 1 \in i..j PROVE e[n + 1] = {} <=> e[i] = {}
    BY <1>2
  <2>1. CASE n + 1 = i
    BY <2>1
  <2>2. CASE n + 1 > i
    <3>1. n \in i..j /\ n + 1 \in (i + 1)..j /\ n + 1 \in 1..7 /\ n \in 0..7
      BY <2>2
    <3>2. e[n] = {} <=> e[i] = {}
      BY <1>2, <3>1
    <3>3. e[n + 1] = ShiftByte(Xor(e[n], {})) /\ e[n] \in Byte
      <4>1. E[n + 1] = {}
        BY <3>1
      <4>2. (n + 1) - 1 = n
        OBVIOUS
      <4> QED BY <3>1, <4>1, <4>2 DEF Propagates
    <3>4. e[n + 1] = ShiftByte(e[n])
      BY <3>3, XorFacts
    <3>5. ShiftByte(e[n]) = {} <=> e[n] = {}
      BY <3>3, ShiftFacts
    <3> QED BY <3>2, <3>4, <3>5
  <2> QED BY <2>1, <2>2
<1> HIDE DEF S
<1>3. \A n \in 0..7 : n \in S
  BY <1>1, <1>2, OneByOne
<1>4. j \in 0..7 /\ j \in i..j
  OBVIOUS
<1> QED BY <1>3, <1>4 DEF S

\* However the bits of one byte are corrupted, the checksum shows it.
LEMMA OneByteShows ==
  ASSUME NEW E, NEW e, Propagates(e, E), NEW i \in 1..8, E[i] # {},
         \A n \in 1..8 : n # i => E[n] = {}
  PROVE  e[7] # E[8]
<1>1. e[0] = {} /\ \A n \in 0..7 : e[n] \in Byte
  BY DEF Propagates
<1>2. i - 1 \in 0..7 /\ \A n \in (0 + 1)..(i - 1) : E[n] = {}
  OBVIOUS
<1>3. e[i - 1] = {}
  BY <1>1, <1>2, ErrorStays
<1>4. CASE i = 8
  BY <1>3, <1>4
<1>5. CASE i # 8
  <2>1. i \in 1..7 /\ E[i] \in Byte /\ E[8] = {}
    BY <1>5 DEF Propagates
  <2>2. e[i] = ShiftByte(E[i])
    <3>1. e[i] = ShiftByte(Xor({}, E[i]))
      BY <1>3, <2>1 DEF Propagates
    <3> QED BY <2>1, <3>1, XorFacts
  <2>3. e[i] # {}
    BY <2>1, <2>2, ShiftFacts
  <2>4. i \in 0..7 /\ 7 \in i..7 /\ \A n \in (i + 1)..7 : E[n] = {}
    BY <2>1
  <2> QED BY <2>1, <2>3, <2>4, ErrorStays
<1> QED BY <1>4, <1>5

\* Nor do two corrupted bits, one in each of two bytes, cancel out.
LEMMA TwoBytesShow ==
  ASSUME NEW E, NEW e, Propagates(e, E), NEW i \in 1..7, NEW j \in (i + 1)..8,
         NEW b \in 0..7, NEW a \in 0..7, E[i] = {b}, E[j] = {a},
         \A n \in 1..8 : n # i /\ n # j => E[n] = {}
  PROVE  e[7] # E[8]
<1>1. e[0] = {} /\ (\A n \in 0..7 : e[n] \in Byte) /\ {a} \in Byte /\ {b} \in Byte
  BY DEF Propagates, Byte
<1>2. e[i - 1] = {}
  <2>1. i - 1 \in 0..7 /\ \A n \in (0 + 1)..(i - 1) : E[n] = {}
    OBVIOUS
  <2> QED BY <1>1, <2>1, ErrorStays
<1>3. e[i] = ShiftByte({b})
  <2>1. e[i] = ShiftByte(Xor({}, {b}))
    BY <1>2 DEF Propagates
  <2> QED BY <1>1, <2>1, XorFacts
<1> DEFINE S == {k \in 0..7 : i + k < j => e[i + k] = Carried({b})[k + 1]}
<1>4. \A k \in 0..7 : k \in S
  <2>1. 0 \in S
    <3>1. e[i] = Carried({b})[1]
      BY <1>3, BitSpreads
    <3>2. i + 0 = i /\ 0 + 1 = 1
      OBVIOUS
    <3> QED BY <3>1, <3>2
  <2>2. ASSUME NEW k \in 0..6, k \in S PROVE k + 1 \in S
    <3> SUFFICES ASSUME i + (k + 1) < j PROVE e[i + (k + 1)] = Carried({b})[(k + 1) + 1]
      BY <2>2
    <3>1. i + k < j /\ i + (k + 1) \in 1..7 /\ i + k \in 0..7 /\ k + 1 \in 1..6
      OBVIOUS
    <3>2. e[i + k] = Carried({b})[k + 1]
      BY <2>2, <3>1
    <3>3. e[i + (k + 1)] = ShiftByte(Xor(e[i + k], {}))
      <4>1. E[i + (k + 1)] = {}
        BY <3>1
      <4>2. (i + (k + 1)) - 1 = i + k
        OBVIOUS
      <4> QED BY <3>1, <4>1, <4>2 DEF Propagates
    <3>4. e[i + (k + 1)] = ShiftByte(e[i + k])
      BY <1>1, <3>1, <3>3, XorFacts
    <3>5. Carried({b})[(k + 1) + 1] = ShiftByte(Carried({b})[k + 1])
      BY <3>1, BitSpreads
    <3> QED BY <3>2, <3>4, <3>5
  <2> HIDE DEF S
  <2> QED BY <2>1, <2>2, OneByOne
<1>5. e[j - 1] # {a}
  <2> DEFINE k == (j - 1) - i
  <2>1. k \in 0..6 /\ i + k = j - 1 /\ i + k < j /\ k + 1 \in 1..7
    OBVIOUS
  <2>2. e[i + k] = Carried({b})[k + 1]
    BY <1>4, <2>1
  <2>3. Carried({b})[k + 1] # {a}
    <3> DEFINE m == k + 1
    <3>1. m \in 1..7 /\ b \in 0..7 /\ a \in 0..7
      BY <2>1
    <3> HIDE DEF k, m
    <3> DEFINE c == Carried({b})
    <3>2. NoSingleBit(c)
      BY <3>1, BitSpreads
    <3> HIDE DEF c
    <3>3. c[m] # {a}
      BY <3>1, <3>2 DEF NoSingleBit
    <3> QED BY <3>3 DEF c, m
  <2> QED BY <2>1, <2>2, <2>3
<1>6. CASE j = 8
  BY <1>5, <1>6
<1>7. CASE j # 8
  <2>1. j \in 1..7 /\ E[8] = {} /\ j - 1 \in 0..7
    BY <1>7
  <2>2. e[j] = ShiftByte(Xor(e[j - 1], {a}))
    BY <2>1 DEF Propagates
  <2>3. e[j] # {}
    <3> DEFINE c == e[j - 1]
    <3>1. c \in Byte /\ c # {a}
      BY <1>1, <1>5, <2>1
    <3> HIDE DEF c
    <3>2. Xor(c, {a}) \in Byte /\ Xor(c, {a}) # {}
      BY <1>1, <3>1, XorFacts
    <3> QED BY <2>2, <3>2, ShiftFacts DEF c
  <2>4. j \in 0..7 /\ 7 \in j..7 /\ \A n \in (j + 1)..7 : E[n] = {}
    BY <2>1
  <2> QED BY <2>1, <2>3, <2>4, ErrorStays
<1> QED BY <1>6, <1>7

\* The register over the first seven bytes of a payload whose checksum is right.
LEMMA IntactRegisters ==
  ASSUME NEW d \in Seq(Byte), Len(d) = 8, CRC8(SubSeq(d, 1, 7)) = d[8]
  PROVE  \E r : /\ r \in [0..7 -> Byte] /\ r[0] = 0..7 /\ r[7] = d[8]
                /\ \A n \in 1..7 : r[n] = ShiftByte(Xor(r[n - 1], d[n]))
<1> DEFINE s == SubSeq(d, 1, 7)
<1>1. s \in Seq(Byte) /\ Len(s) = 7 /\ \A n \in 1..7 : s[n] = d[n]
  BY SubSeqProperties
<1> HIDE DEF s
<1>2. PICK r : Registers(s, r) /\ CRC8(s) = r[7]
  BY <1>1, CRCIs
<1>3. r[7] = d[8]
  BY <1>2 DEF s
<1>4. \A n \in 1..7 : r[n] = ShiftByte(Xor(r[n - 1], d[n]))
  BY <1>1, <1>2 DEF Registers
<1> QED BY <1>2, <1>3, <1>4 DEF Registers

\* Two intact payloads: their difference propagates to no difference.
LEMMA IntactDiffer ==
  ASSUME NEW d \in Seq(Byte), NEW x \in Seq(Byte), Len(d) = 8, Len(x) = 8,
         CRC8(SubSeq(d, 1, 7)) = d[8], CRC8(SubSeq(x, 1, 7)) = x[8]
  PROVE  \E e : Propagates(e, Differ(d, x)) /\ e[7] = Differ(d, x)[8]
<1> DEFINE E == Differ(d, x)
<1>2. \A n \in 1..8 : d[n] \in Byte /\ x[n] \in Byte
  BY ElementOfSeq
<1>3. PICK r : /\ r \in [0..7 -> Byte] /\ r[0] = 0..7 /\ r[7] = d[8]
               /\ \A n \in 1..7 : r[n] = ShiftByte(Xor(r[n - 1], d[n]))
  BY IntactRegisters
<1>4. PICK s : /\ s \in [0..7 -> Byte] /\ s[0] = 0..7 /\ s[7] = x[8]
               /\ \A n \in 1..7 : s[n] = ShiftByte(Xor(s[n - 1], x[n]))
  BY IntactRegisters
<1> DEFINE e == [n \in 0..7 |-> Xor(r[n], s[n])]
<1>6. e \in [0..7 -> Byte] /\ e[0] = {} /\ e[7] = E[8]
  <2>1. \A n \in 0..7 : Xor(r[n], s[n]) \in Byte
    BY <1>3, <1>4, XorFacts
  <2>2. Xor(r[0], s[0]) = {}
    BY <1>3, <1>4 DEF Xor
  <2>3. e[7] = Xor(d[8], x[8]) /\ E[8] = Xor(d[8], x[8])
    BY <1>3, <1>4 DEF Differ
  <2>4. e \in [0..7 -> Byte] /\ e[0] = {}
    BY <2>1, <2>2
  <2> HIDE DEF e, E
  <2> QED BY <2>3, <2>4
<1>7. E \in [1..8 -> Byte]
  BY <1>2, XorFacts DEF Differ
<1>8. ASSUME NEW n \in 1..7 PROVE e[n] = ShiftByte(Xor(e[n - 1], E[n]))
  <2> DEFINE a == r[n - 1]
             b == s[n - 1]
  <2>1. a \in Byte /\ b \in Byte /\ d[n] \in Byte /\ x[n] \in Byte /\ n - 1 \in 0..7
    BY <1>2, <1>3, <1>4
  <2>2. e[n] = Xor(ShiftByte(Xor(a, d[n])), ShiftByte(Xor(b, x[n])))
    BY <1>3, <1>4
  <2>3. e[n - 1] = Xor(a, b) /\ E[n] = Xor(d[n], x[n])
    BY <2>1 DEF Differ
  <2> HIDE DEF a, b, e, E
  <2>4. e[n] = ShiftByte(Xor(Xor(a, d[n]), Xor(b, x[n])))
    BY <2>1, <2>2, XorFacts, ShiftFacts
  <2>5. Xor(Xor(a, d[n]), Xor(b, x[n])) = Xor(Xor(a, b), Xor(d[n], x[n]))
    BY DEF Xor
  <2> QED BY <2>3, <2>4, <2>5
<1> HIDE DEF e, E
<1>9. Propagates(e, E)
  BY <1>6, <1>7, <1>8 DEF Propagates
<1> QED BY <1>6, <1>9 DEF E

\* Nothing but the bits p and q differs between the payloads d and x.
ApartIn(d, x, p, q) ==
  \A n \in 1..8, b \in 0..7 : (b \in d[n] <=> b \in x[n]) \/ <<n, b>> = p \/ <<n, b>> = q

\* The checksum shows every corruption of one bit or two.
LEMMA TwoBitsShow ==
  ASSUME NEW d \in Seq(Byte), NEW x \in Seq(Byte), Len(d) = 8, Len(x) = 8,
         CRC8(SubSeq(d, 1, 7)) = d[8], CRC8(SubSeq(x, 1, 7)) = x[8],
         NEW p, NEW q, ApartIn(d, x, p, q)
  PROVE  x = d
<1> DEFINE E == Differ(d, x)
<1>1. PICK e : Propagates(e, E) /\ e[7] = E[8]
  BY IntactDiffer
<1>2. \A n \in 1..8 : d[n] \in Byte /\ x[n] \in Byte
  BY ElementOfSeq
<1>3. \A n \in 1..8 : E[n] \in Byte /\ \A b : b \in E[n] => b \in 0..7 /\ (<<n, b>> = p \/ <<n, b>> = q)
  <2> SUFFICES ASSUME NEW n \in 1..8
               PROVE  /\ E[n] \in Byte
                      /\ \A b : b \in E[n] => b \in 0..7 /\ (<<n, b>> = p \/ <<n, b>> = q)
    OBVIOUS
  <2>1. E[n] = Xor(d[n], x[n])
    BY DEF Differ
  <2>2. d[n] \in Byte /\ x[n] \in Byte
    BY <1>2
  <2> HIDE DEF E
  <2>3. E[n] \in Byte /\ \A b : b \in E[n] <=> ~(b \in d[n] <=> b \in x[n])
    BY <2>1, <2>2, XorFacts
  <2> QED BY <2>3 DEF ApartIn, Byte
<1> HIDE DEF E
<1>4. ASSUME NEW i \in 1..8, E[i] # {} PROVE FALSE
  <2>1. CASE \A n \in 1..8 : n # i => E[n] = {}
    BY <1>1, <1>4, <2>1, OneByteShows
  <2>2. CASE \E n \in 1..8 : n # i /\ E[n] # {}
    <3>1. PICK k \in 1..7, j \in 1..8 : k < j /\ E[k] # {} /\ E[j] # {}
      <4>1. PICK n \in 1..8 : n # i /\ E[n] # {}
        BY <2>2
      <4>2. (n < i /\ n \in 1..7) \/ (i < n /\ i \in 1..7)
        BY <4>1
      <4> QED BY <1>4, <4>1, <4>2
    <3>2. PICK b, a : b \in E[k] /\ a \in E[j]
      BY <3>1
    <3>3. /\ b \in 0..7 /\ a \in 0..7 /\ k # j
          /\ \/ p = <<k, b>> /\ q = <<j, a>>
             \/ p = <<j, a>> /\ q = <<k, b>>
      <4>1. b \in 0..7 /\ (<<k, b>> = p \/ <<k, b>> = q)
        BY <1>3, <3>2
      <4>2. a \in 0..7 /\ (<<j, a>> = p \/ <<j, a>> = q)
        BY <1>3, <3>2
      <4>3. k # j /\ <<k, b>> # <<j, a>>
        BY <3>1
      <4> DEFINE first == <<k, b>>  second == <<j, a>>
      <4> HIDE DEF first, second
      <4>4. \/ p = first /\ q = second
            \/ p = second /\ q = first
        BY <4>1, <4>2, <4>3 DEF first, second
      <4> QED BY <4>1, <4>2, <4>3, <4>4 DEF first, second
    <3>4. \A n \in 1..8 : \A c : c \in E[n] => (n = k /\ c = b) \/ (n = j /\ c = a)
      <4> SUFFICES ASSUME NEW n \in 1..8, NEW c, c \in E[n]
                   PROVE  (n = k /\ c = b) \/ (n = j /\ c = a)
        OBVIOUS
      <4>1. <<n, c>> = p \/ <<n, c>> = q
        BY <1>3
      <4> DEFINE at == <<n, c>>  first == <<k, b>>  second == <<j, a>>
      <4>2. (at = first => n = k /\ c = b) /\ (at = second => n = j /\ c = a)
        OBVIOUS
      <4> HIDE DEF at, first, second
      <4>3. at = p \/ at = q
        BY <4>1 DEF at
      <4>4. \/ p = first /\ q = second
            \/ p = second /\ q = first
        BY <3>3 DEF first, second
      <4> QED BY <4>2, <4>3, <4>4
    <3>5. /\ E[k] = {b} /\ E[j] = {a} /\ j \in (k + 1)..8
          /\ \A n \in 1..8 : n # k /\ n # j => E[n] = {}
      <4>1. \A c : c \in E[k] => c = b
        BY <3>1, <3>4
      <4>2. \A c : c \in E[j] => c = a
        BY <3>1, <3>4
      <4>3. \A n \in 1..8 : n # k /\ n # j => E[n] = {}
        BY <3>4
      <4> QED BY <3>1, <3>2, <4>1, <4>2, <4>3
    <3> QED BY <1>1, <3>3, <3>5, TwoBytesShow
  <2> QED BY <2>1, <2>2
<1>5. \A n \in 1..8 : d[n] = x[n]
  <2> SUFFICES ASSUME NEW n \in 1..8 PROVE d[n] = x[n]
    OBVIOUS
  <2>1. Xor(d[n], x[n]) = {}
    BY <1>4 DEF E, Differ
  <2>2. d[n] \in Byte /\ x[n] \in Byte
    BY <1>2
  <2> QED BY <2>1, <2>2, XorFacts
<1>6. DOMAIN d = 1..8 /\ DOMAIN x = 1..8
  OBVIOUS
<1>7. d = [n \in 1..8 |-> d[n]] /\ x = [n \in 1..8 |-> x[n]]
  BY <1>6
<1> QED BY <1>5, <1>7

(***************************************************************************)
(* The codec: bytes and numbers                                            *)
(***************************************************************************)
\* The k-th bit of a number is what is lost when half of what is above it is taken.
LEMMA Halves ==
  \A n \in Nat :
    /\ n = 2 * (n \div 2) + (n % 2)
    /\ n \div 2 = 2 * (n \div 4) + ((n \div 2) % 2)
    /\ n \div 4 = 2 * (n \div 8) + ((n \div 4) % 2)
    /\ n \div 8 = 2 * (n \div 16) + ((n \div 8) % 2)
    /\ n \div 16 = 2 * (n \div 32) + ((n \div 16) % 2)
    /\ n \div 32 = 2 * (n \div 64) + ((n \div 32) % 2)
    /\ n \div 64 = 2 * (n \div 128) + ((n \div 64) % 2)
    /\ n \div 128 = 2 * (n \div 256) + ((n \div 128) % 2)
    /\ n < 256 => n \div 256 = 0
OBVIOUS

LEMMA Parity == \A n \in Nat : n % 2 = 1 \/ n % 2 = 0
OBVIOUS

\* A byte has one value, and it is the number it was made of.
LEMMA ValueOfBits == \A n \in Nat : n < 256 => Bits(n) \in Byte /\ Value(Bits(n)) = n
<1>1. ASSUME NEW n \in Nat, NEW m \in Nat, n < 256, m < 256, Bits(n) = Bits(m)
      PROVE  n = m
  <2>1. \A k \in 0..7 : (n \div 2^k) % 2 = 1 <=> (m \div 2^k) % 2 = 1
    BY <1>1 DEF Bits
  <2> DEFINE Same(k) == (n \div k) % 2 = (m \div k) % 2
  <2>2. /\ 2^0 = 1 /\ 2^1 = 2 /\ 2^2 = 4 /\ 2^3 = 8 /\ 2^4 = 16 /\ 2^5 = 32 /\ 2^6 = 64
        /\ 2^7 = 128
    OBVIOUS
  <2>3. \A k \in Nat \ {0} : n \div k \in Nat /\ m \div k \in Nat
    OBVIOUS
  <2>4. ASSUME NEW k \in Nat \ {0}, (n \div k) % 2 = 1 <=> (m \div k) % 2 = 1
        PROVE  Same(k)
    BY <2>3, <2>4, Parity
  <2>5. Same(1) /\ Same(2) /\ Same(4) /\ Same(8)
    <3>1. \A k \in {1, 2, 4, 8} : (n \div k) % 2 = 1 <=> (m \div k) % 2 = 1
      BY <2>1, <2>2
    <3> HIDE DEF Same
    <3> QED BY <2>4, <3>1
  <2>6. Same(16) /\ Same(32) /\ Same(64) /\ Same(128)
    <3>1. \A k \in {16, 32, 64, 128} : (n \div k) % 2 = 1 <=> (m \div k) % 2 = 1
      BY <2>1, <2>2
    <3> HIDE DEF Same
    <3> QED BY <2>4, <3>1
  <2>7. n \div 128 = m \div 128 /\ n \div 64 = m \div 64 /\ n \div 32 = m \div 32
    BY <1>1, <2>6, Halves
  <2>8. n \div 4 = m \div 4
    <3>1. n \div 16 = m \div 16
      BY <1>1, <2>6, <2>7, Halves
    <3>2. n \div 8 = m \div 8
      BY <1>1, <2>5, <3>1, Halves
    <3> QED BY <1>1, <2>5, <3>2, Halves
  <2>9. n \div 2 = m \div 2 /\ n % 2 = m % 2
    <3>1. n \div 1 = n /\ m \div 1 = m
      OBVIOUS
    <3> QED BY <2>5, <2>8, <3>1, Halves
  <2> QED BY <2>9, Halves
<1>2. ASSUME NEW n \in Nat, n < 256 PROVE Bits(n) \in Byte /\ Value(Bits(n)) = n
  <2>1. Bits(n) \in Byte
    BY DEF Bits, Byte
  <2> DEFINE v == Value(Bits(n))
  <2>2. n \in 0..255 /\ \A m \in 0..255 : m \in Nat /\ m < 256
    BY <1>2
  <2>3. v \in 0..255 /\ Bits(v) = Bits(n)
    BY <2>2 DEF Value
  <2> HIDE DEF v
  <2>4. v = n
    BY <1>1, <1>2, <2>2, <2>3
  <2> QED BY <2>1, <2>4 DEF v
<1> QED BY <1>2

\* What from_bytes makes of what to_bytes made of a number, the sign included.
LEMMA TwoBytesFacts ==
  ASSUME NEW n \in Int, NEW order \in {"big", "little"}, NEW t, t = TwoBytes(n, order)
  PROVE  /\ t \in Seq(Byte) /\ Len(t) = 2
         /\ \A bytes : bytes[1] = t[1] /\ bytes[2] = t[2] =>
              /\ 0 <= n /\ n < 65536 => Unsigned(bytes, order) = n
              /\ -32768 <= n /\ n < 32768 => Signed(bytes, order) = n
<1> DEFINE u == n % 65536
           high == Bits(u \div 256)
           low == Bits(u % 256)
<1>1. u \in Nat /\ u < 65536
  OBVIOUS
<1>2. 0 <= n /\ n < 65536 => u = n
  OBVIOUS
<1>3. -32768 <= n /\ n < 0 => u = n + 65536
  OBVIOUS
<1>4. t = IF order = "big" THEN <<high, low>> ELSE <<low, high>>
  BY DEF TwoBytes
<1> HIDE DEF u
<1>5. /\ u \div 256 \in Nat /\ u \div 256 < 256 /\ u % 256 \in Nat /\ u % 256 < 256
      /\ 256 * (u \div 256) + (u % 256) = u
  BY <1>1
<1>6. /\ high \in Byte /\ low \in Byte
      /\ Value(high) = u \div 256 /\ Value(low) = u % 256
  BY <1>5, ValueOfBits
<1> HIDE DEF high, low
<1>7. t \in Seq(Byte) /\ Len(t) = 2
  BY <1>4, <1>6
<1>8. ASSUME NEW bytes, bytes[1] = t[1], bytes[2] = t[2] PROVE Unsigned(bytes, order) = u
  <2>1. CASE order = "big"
    <3>1. bytes[1] = high /\ bytes[2] = low
      BY <1>4, <1>8, <2>1
    <3>2. Unsigned(bytes, order) = 256 * Value(high) + Value(low)
      BY <2>1, <3>1 DEF Unsigned
    <3> QED BY <1>5, <1>6, <3>2
  <2>2. CASE order = "little"
    <3>1. bytes[2] = high /\ bytes[1] = low
      BY <1>4, <1>8, <2>2
    <3>2. Unsigned(bytes, order) = 256 * Value(high) + Value(low)
      BY <2>2, <3>1 DEF Unsigned
    <3> QED BY <1>5, <1>6, <3>2
  <2> QED BY <2>1, <2>2
<1>9. ASSUME NEW bytes, bytes[1] = t[1], bytes[2] = t[2]
      PROVE  /\ 0 <= n /\ n < 65536 => Unsigned(bytes, order) = n
             /\ -32768 <= n /\ n < 32768 => Signed(bytes, order) = n
  <2>1. Unsigned(bytes, order) = u
    BY <1>8, <1>9
  <2>2. Signed(bytes, order) = IF u >= 32768 THEN u - 65536 ELSE u
    BY <2>1 DEF Signed
  <2> QED BY <1>1, <1>2, <1>3, <2>1, <2>2
<1> QED BY <1>7, <1>9

(***************************************************************************)
(* The codec: what is decoded                                              *)
(***************************************************************************)

LEMMA UnsignedBack ==
  \A order \in {"big", "little"}, n \in Int : \A bytes :
    /\ 0 <= n /\ n < 65536
    /\ bytes[1] = TwoBytes(n, order)[1] /\ bytes[2] = TwoBytes(n, order)[2]
    => Unsigned(bytes, order) = n
BY TwoBytesFacts

LEMMA SignedBack ==
  \A order \in {"big", "little"}, n \in Int : \A bytes :
    /\ -32768 <= n /\ n < 32768
    /\ bytes[1] = TwoBytes(n, order)[1] /\ bytes[2] = TwoBytes(n, order)[2]
    => Signed(bytes, order) = n
BY TwoBytesFacts

LEMMA AppendedByte ==
  \A s \in Seq(Byte), c \in Byte :
    /\ Append(s, c) \in Seq(Byte) /\ Len(Append(s, c)) = Len(s) + 1
    /\ \A i \in 1..Len(s) : Append(s, c)[i] = s[i]
    /\ Append(s, c)[Len(s) + 1] = c
OBVIOUS

LEMMA Joined ==
  \A s, t \in Seq(Byte) :
    /\ s \o t \in Seq(Byte) /\ Len(s \o t) = Len(s) + Len(t)
    /\ \A i \in 1..Len(s) : (s \o t)[i] = s[i]
    /\ \A i, j \in Nat : 1 <= i /\ i <= Len(t) /\ j = Len(s) + i => (s \o t)[j] = t[i]
<1> SUFFICES ASSUME NEW s \in Seq(Byte), NEW t \in Seq(Byte)
             PROVE  /\ s \o t \in Seq(Byte) /\ Len(s \o t) = Len(s) + Len(t)
                    /\ \A i \in 1..Len(s) : (s \o t)[i] = s[i]
                    /\ \A i, j \in Nat : 1 <= i /\ i <= Len(t) /\ j = Len(s) + i =>
                         (s \o t)[j] = t[i]
  OBVIOUS
<1> DEFINE u == s \o t
<1>1. /\ u \in Seq(Byte) /\ Len(u) = Len(s) + Len(t)
      /\ \A i \in 1..(Len(s) + Len(t)) : u[i] = IF i <= Len(s) THEN s[i] ELSE t[i - Len(s)]
  BY ConcatProperties
<1>2. Len(s) \in Nat /\ Len(t) \in Nat
  BY LenProperties
<1> HIDE DEF u
<1>3. \A i \in 1..Len(s) : u[i] = s[i]
  BY <1>1, <1>2
<1>4. ASSUME NEW i \in Nat, NEW j \in Nat, 1 <= i, i <= Len(t), j = Len(s) + i
      PROVE  u[j] = t[i]
  <2>1. j \in 1..(Len(s) + Len(t)) /\ ~(j <= Len(s)) /\ j - Len(s) = i
    BY <1>2, <1>4
  <2> QED BY <1>1, <2>1
<1> QED BY <1>1, <1>3, <1>4 DEF u

\* The payload of a reading: three numbers of two bytes, one of one byte, a checksum.
PayloadOf(d, soc, voltage, current, temperature) ==
  /\ d \in Seq(Byte) /\ Len(d) = 8 /\ CRC8(SubSeq(d, 1, 7)) = d[8]
  /\ d[1] = TwoBytes(soc, SenderOrder)[1] /\ d[2] = TwoBytes(soc, SenderOrder)[2]
  /\ d[3] = TwoBytes(voltage, SenderOrder)[1] /\ d[4] = TwoBytes(voltage, SenderOrder)[2]
  /\ d[5] = TwoBytes(current, SenderOrder)[1] /\ d[6] = TwoBytes(current, SenderOrder)[2]
  /\ d[7] = Bits(temperature)

LEMMA PayloadFacts ==
  \A soc, voltage, current, temperature \in Int :
    PayloadOf(Payload(soc, voltage, current, temperature), soc, voltage, current, temperature)
<1> SUFFICES ASSUME NEW soc \in Int, NEW voltage \in Int, NEW current \in Int,
                    NEW temperature \in Int, NEW d,
                    d = Payload(soc, voltage, current, temperature)
             PROVE  PayloadOf(d, soc, voltage, current, temperature)
  OBVIOUS
<1> DEFINE a == TwoBytes(soc, SenderOrder)  b == TwoBytes(voltage, SenderOrder)
           c == TwoBytes(current, SenderOrder)  e == <<Bits(temperature)>>
           ab == a \o b  abc == ab \o c  bytes == abc \o e
           check == CRC8(bytes)
<1>1. /\ a \in Seq(Byte) /\ Len(a) = 2 /\ b \in Seq(Byte) /\ Len(b) = 2
      /\ c \in Seq(Byte) /\ Len(c) = 2
  BY CodecAssumption, TwoBytesFacts DEF CodecAssumption
<1>2. e \in Seq(Byte) /\ Len(e) = 1 /\ e[1] = Bits(temperature)
  BY DEF Bits, Byte
<1>3. d = Append(bytes, check)
  BY DEF Payload
<1> HIDE DEF a, b, c, e
<1>4. /\ ab \in Seq(Byte) /\ Len(ab) = 4
      /\ ab[1] = a[1] /\ ab[2] = a[2] /\ ab[3] = b[1] /\ ab[4] = b[2]
  <2>1. /\ ab \in Seq(Byte) /\ Len(ab) = Len(a) + Len(b)
        /\ \A i \in 1..Len(a) : ab[i] = a[i]
        /\ \A i, j \in Nat : 1 <= i /\ i <= Len(b) /\ j = Len(a) + i => ab[j] = b[i]
    BY <1>1, Joined
  <2> HIDE DEF ab
  <2> QED BY <1>1, <2>1
<1> HIDE DEF ab
<1>5. /\ abc \in Seq(Byte) /\ Len(abc) = 6
      /\ \A i \in 1..4 : abc[i] = ab[i]
      /\ abc[5] = c[1] /\ abc[6] = c[2]
  <2>1. /\ abc \in Seq(Byte) /\ Len(abc) = Len(ab) + Len(c)
        /\ \A i \in 1..Len(ab) : abc[i] = ab[i]
        /\ \A i, j \in Nat : 1 <= i /\ i <= Len(c) /\ j = Len(ab) + i => abc[j] = c[i]
    BY <1>1, <1>4, Joined
  <2> HIDE DEF abc
  <2> QED BY <1>1, <1>4, <2>1
<1> HIDE DEF abc
<1>6. /\ bytes \in Seq(Byte) /\ Len(bytes) = 7
      /\ \A i \in 1..6 : bytes[i] = abc[i]
      /\ bytes[7] = Bits(temperature)
  <2>1. /\ bytes \in Seq(Byte) /\ Len(bytes) = Len(abc) + Len(e)
        /\ \A i \in 1..Len(abc) : bytes[i] = abc[i]
        /\ \A i, j \in Nat : 1 <= i /\ i <= Len(e) /\ j = Len(abc) + i => bytes[j] = e[i]
    BY <1>2, <1>5, Joined
  <2> HIDE DEF bytes
  <2> QED BY <1>2, <1>5, <2>1
<1> HIDE DEF bytes
<1>7. check \in Byte
  <2>1. PICK reg : Registers(bytes, reg) /\ CRC8(bytes) = reg[7]
    BY <1>6, CRCIs
  <2> QED BY <2>1 DEF Registers
<1> HIDE DEF check
<1>8. /\ d \in Seq(Byte) /\ Len(d) = 8 /\ d[8] = check
      /\ \A i \in 1..7 : d[i] = bytes[i]
  <2> DEFINE whole == Append(bytes, check)
  <2>1. /\ whole \in Seq(Byte) /\ Len(whole) = Len(bytes) + 1
        /\ \A i \in 1..Len(bytes) : whole[i] = bytes[i]
        /\ whole[Len(bytes) + 1] = check
    BY <1>6, <1>7, AppendedByte
  <2>2. d = whole
    BY <1>3
  <2> HIDE DEF whole
  <2> QED BY <1>6, <2>1, <2>2
<1>9. SubSeq(d, 1, 7) = bytes
  <2> DEFINE front == SubSeq(d, 1, 7)
  <2>1. \A i \in 1..7 : d[i] \in Byte
    <3>1. \A i \in 1..8 : d[i] \in Byte
      BY <1>8, ElementOfSeq
    <3> QED BY <3>1
  <2>2. /\ front \in Seq(Byte) /\ Len(front) = 7
        /\ \A i \in 1..7 : front[i] = d[i]
    BY <2>1, SubSeqProperties
  <2> HIDE DEF front
  <2>3. front \in [1..7 -> Byte] /\ bytes \in [1..7 -> Byte]
    BY <1>6, <2>2, LenProperties
  <2>4. \A i \in 1..7 : front[i] = bytes[i]
    BY <1>8, <2>2
  <2>5. front = [i \in 1..7 |-> front[i]] /\ bytes = [i \in 1..7 |-> bytes[i]]
    BY <2>3
  <2>6. front = bytes
    BY <2>4, <2>5
  <2> QED BY <2>6 DEF front
<1>10. CRC8(SubSeq(d, 1, 7)) = d[8]
  BY <1>8, <1>9 DEF check
<1>11. /\ d[1] = a[1] /\ d[2] = a[2] /\ d[3] = b[1] /\ d[4] = b[2]
       /\ d[5] = c[1] /\ d[6] = c[2] /\ d[7] = Bits(temperature)
  BY <1>4, <1>5, <1>6, <1>8
<1> QED BY <1>8, <1>10, <1>11 DEF PayloadOf, a, b, c

\* The nearest whole number of units is in the range, and half a unit away at most.
LEMMA RoundedNear ==
  \A x \in Int :
    /\ \A n \in Rounded(x, 10) : n \in Int /\ 2 * Distance(10 * n, x) <= 10
    /\ \A n \in Rounded(x, 100) : n \in Int /\ 2 * Distance(100 * n, x) <= 100
<1> SUFFICES ASSUME NEW x \in Int
             PROVE  /\ \A n \in Rounded(x, 10) : n \in Int /\ 2 * Distance(10 * n, x) <= 10
                    /\ \A n \in Rounded(x, 100) : n \in Int /\ 2 * Distance(100 * n, x) <= 100
  OBVIOUS
<1>1. \A n \in Int : n * 10 = 10 * n /\ n * 100 = 100 * n
  OBVIOUS
<1>2. \A n \in Rounded(x, 10) : n \in Int /\ 2 * Distance(n * 10, x) <= 10
  BY DEF Rounded
<1>3. \A n \in Rounded(x, 100) : n \in Int /\ 2 * Distance(n * 100, x) <= 100
  BY DEF Rounded
<1> QED BY <1>1, <1>2, <1>3

LEMMA RoundedTenth ==
  \A x \in Int : \A n \in Rounded(x, 10) :
    /\ 0 <= x /\ x <= 10000 => 0 <= n /\ n <= 1000
    /\ 0 <= x /\ x <= 100000 => 0 <= n /\ n <= 10000
    /\ -100000 <= x /\ x <= 100000 => -10000 <= n /\ n <= 10000
<1> SUFFICES ASSUME NEW x \in Int, NEW n \in Rounded(x, 10)
             PROVE  /\ 0 <= x /\ x <= 10000 => 0 <= n /\ n <= 1000
                    /\ 0 <= x /\ x <= 100000 => 0 <= n /\ n <= 10000
                    /\ -100000 <= x /\ x <= 100000 => -10000 <= n /\ n <= 10000
  OBVIOUS
<1>1. n \in Int /\ 10 * n - x <= 5 /\ x - 10 * n <= 5
  BY RoundedNear DEF Distance
<1> QED BY <1>1

LEMMA RoundedWhole ==
  \A x \in Int : \A n \in Rounded(x, 100) : 0 <= x /\ x <= 12500 => 0 <= n /\ n <= 125
<1> SUFFICES ASSUME NEW x \in Int, NEW n \in Rounded(x, 100)
             PROVE  0 <= x /\ x <= 12500 => 0 <= n /\ n <= 125
  OBVIOUS
<1>1. n \in Int /\ 100 * n - x <= 50 /\ x - 100 * n <= 50
  BY RoundedNear DEF Distance
<1> QED BY <1>1

\* The channel has changed k bits of the payload d, at most two, to make x of it.
Corrupted(d, x, k) ==
  /\ x \in Seq(Byte) /\ Len(x) = 8
  /\ \E p, q : \A n \in 1..8, b \in 0..7 :
       (b \in d[n] <=> b \in x[n]) \/ (k >= 1 /\ <<n, b>> = p) \/ (k >= 2 /\ <<n, b>> = q)

LEMMA CorruptedApart ==
  \A d, x, k : Corrupted(d, x, k) => \E p, q : ApartIn(d, x, p, q)
<1> SUFFICES ASSUME NEW d, NEW x, NEW k, Corrupted(d, x, k)
             PROVE  \E p, q : ApartIn(d, x, p, q)
  OBVIOUS
<1>1. PICK p, q : \A n \in 1..8, b \in 0..7 :
        (b \in d[n] <=> b \in x[n]) \/ (k >= 1 /\ <<n, b>> = p) \/ (k >= 2 /\ <<n, b>> = q)
  BY DEF Corrupted
<1>2. ASSUME NEW n \in 1..8, NEW b \in 0..7
      PROVE  (b \in d[n] <=> b \in x[n]) \/ <<n, b>> = p \/ <<n, b>> = q
  <2> DEFINE at == <<n, b>>
  <2>1. (b \in d[n] <=> b \in x[n]) \/ at = p \/ at = q
    BY <1>1
  <2> QED BY <2>1
<1> QED BY <1>2 DEF ApartIn

Flipped(x, i, b, y) == y = [x EXCEPT ![i] = Xor(x[i], {b})]

SensorFrames ==
  [id : {ExpectedArbitrationId}, data : Seq(Byte), dlc : {PayloadLength}, fd : {FALSE},
   extended : {FALSE}, crcValid : {"valid"}, mac : {"none", "valid", "invalid"}]

\* The frame carries the reading r, corrupted in k bits.
Carries(f, r, k) ==
  /\ r \in Readings /\ Encodable(r)
  /\ f \in SensorFrames
  /\ \E soc \in Rounded(r.soc, 10), voltage \in Rounded(r.voltage, 10),
        current \in Rounded(r.current, 10), temperature \in Rounded(r.temperature + 4000, 100) :
       Corrupted(Payload(soc, voltage, current, temperature), f.data, k)

CodecInv ==
  /\ flipped \in 0..MaxFlips
  /\ \A f \in wire, r \in sent : Carries(f, r, flipped)
  /\ DecodedIsSent

\* A frame that carries a reading and passes for intact is decoded as that reading.
LEMMA CarriedIsDecoded ==
  ASSUME CodecAssumption, SenderOrder = ReceiverOrder, MaxFlips <= 2,
         flipped \in 0..MaxFlips, NEW f, NEW r, Carries(f, r, flipped), Decodable(f)
  PROVE  LET v == DecodedValues(f)
         IN  /\ Encodable(v)
             /\ 2 * Distance(v.soc, r.soc) <= 10 /\ 2 * Distance(v.voltage, r.voltage) <= 10
             /\ 2 * Distance(v.current, r.current) <= 10
             /\ 2 * Distance(v.temperature, r.temperature) <= 100
<1> DEFINE x == f.data  order == SenderOrder
<1>1. PICK soc \in Rounded(r.soc, 10), voltage \in Rounded(r.voltage, 10),
           current \in Rounded(r.current, 10),
           temperature \in Rounded(r.temperature + 4000, 100) :
        Corrupted(Payload(soc, voltage, current, temperature), x, flipped)
  BY DEF Carries
<1>2. /\ r.soc \in Int /\ 0 <= r.soc /\ r.soc <= 10000
      /\ r.voltage \in Int /\ 0 <= r.voltage /\ r.voltage <= 100000
      /\ r.current \in Int /\ -100000 <= r.current /\ r.current <= 100000
      /\ r.temperature \in Int /\ 0 <= r.temperature + 4000 /\ r.temperature + 4000 <= 12500
  BY DEF Carries, Encodable, Readings
<1>3. soc \in Int /\ 2 * Distance(10 * soc, r.soc) <= 10 /\ 0 <= soc /\ soc <= 1000
  BY <1>2, RoundedNear, RoundedTenth
<1>4. /\ voltage \in Int /\ 2 * Distance(10 * voltage, r.voltage) <= 10
      /\ 0 <= voltage /\ voltage <= 10000
  BY <1>2, RoundedNear, RoundedTenth
<1>5. /\ current \in Int /\ 2 * Distance(10 * current, r.current) <= 10
      /\ -10000 <= current /\ current <= 10000
  BY <1>2, RoundedNear, RoundedTenth
<1>6. /\ temperature \in Int /\ 0 <= temperature /\ temperature <= 125
      /\ 2 * Distance(100 * temperature, r.temperature + 4000) <= 100
  <2> DEFINE s == r.temperature + 4000
  <2>1. s \in Int /\ 0 <= s /\ s <= 12500 /\ temperature \in Rounded(s, 100)
    BY <1>1, <1>2
  <2> HIDE DEF s
  <2>2. /\ temperature \in Int /\ 0 <= temperature /\ temperature <= 125
        /\ 2 * Distance(100 * temperature, s) <= 100
    BY <2>1, RoundedNear, RoundedWhole
  <2> QED BY <2>2 DEF s
<1> DEFINE d == Payload(soc, voltage, current, temperature)
<1>7. order \in {"big", "little"}
  BY DEF CodecAssumption
<1>8. /\ d \in Seq(Byte) /\ Len(d) = 8 /\ CRC8(SubSeq(d, 1, 7)) = d[8]
      /\ d[1] = TwoBytes(soc, order)[1] /\ d[2] = TwoBytes(soc, order)[2]
      /\ d[3] = TwoBytes(voltage, order)[1] /\ d[4] = TwoBytes(voltage, order)[2]
      /\ d[5] = TwoBytes(current, order)[1] /\ d[6] = TwoBytes(current, order)[2]
      /\ d[7] = Bits(temperature)
  <2>1. PayloadOf(d, soc, voltage, current, temperature)
    BY <1>3, <1>4, <1>5, <1>6, PayloadFacts
  <2> HIDE DEF d
  <2> QED BY <2>1 DEF PayloadOf
<1>9. Corrupted(d, x, flipped)
  BY <1>1
<1>10. /\ x \in Seq(Byte) /\ Len(x) = 8 /\ CRC8(SubSeq(x, 1, 7)) = x[8]
  BY <1>9 DEF Corrupted, Decodable, Intact
<1> HIDE DEF d, x
<1>11. x = d
  <2>1. PICK p, q : ApartIn(d, x, p, q)
    BY <1>9, CorruptedApart
  <2> QED BY <1>8, <1>10, <2>1, TwoBitsShow
<1> DEFINE pair(a, b) == SubSeq(x, a, b)
<1>12. /\ pair(1, 2)[1] = x[1] /\ pair(1, 2)[2] = x[2]
       /\ pair(3, 4)[1] = x[3] /\ pair(3, 4)[2] = x[4]
       /\ pair(5, 6)[1] = x[5] /\ pair(5, 6)[2] = x[6]
  <2>1. /\ pair(1, 2) = [i \in 1..2 |-> x[i]] /\ pair(3, 4) = [i \in 1..2 |-> x[i + 2]]
        /\ pair(5, 6) = [i \in 1..2 |-> x[i + 4]]
    BY <1>10
  <2> HIDE DEF pair
  <2> QED BY <2>1
<1>13. Unsigned(pair(1, 2), order) = soc
  <2> DEFINE bytes == pair(1, 2)
  <2>1. bytes[1] = TwoBytes(soc, order)[1] /\ bytes[2] = TwoBytes(soc, order)[2]
    BY <1>8, <1>11, <1>12
  <2>2. soc \in Int /\ 0 <= soc /\ soc < 65536
    BY <1>3
  <2> HIDE DEF bytes
  <2>3. Unsigned(bytes, order) = soc
    BY <1>7, <2>1, <2>2, UnsignedBack
  <2> QED BY <2>3 DEF bytes
<1>14. Unsigned(pair(3, 4), order) = voltage
  <2> DEFINE bytes == pair(3, 4)
  <2>1. bytes[1] = TwoBytes(voltage, order)[1] /\ bytes[2] = TwoBytes(voltage, order)[2]
    BY <1>8, <1>11, <1>12
  <2>2. voltage \in Int /\ 0 <= voltage /\ voltage < 65536
    BY <1>4
  <2> HIDE DEF bytes
  <2>3. Unsigned(bytes, order) = voltage
    BY <1>7, <2>1, <2>2, UnsignedBack
  <2> QED BY <2>3 DEF bytes
<1>15. Signed(pair(5, 6), order) = current
  <2> DEFINE bytes == pair(5, 6)
  <2>1. bytes[1] = TwoBytes(current, order)[1] /\ bytes[2] = TwoBytes(current, order)[2]
    BY <1>8, <1>11, <1>12
  <2>2. current \in Int /\ -32768 <= current /\ current < 32768
    BY <1>5
  <2> HIDE DEF bytes
  <2>3. Signed(bytes, order) = current
    BY <1>7, <2>1, <2>2, SignedBack
  <2> QED BY <2>3 DEF bytes
<1>16. Value(x[7]) = temperature
  <2>1. temperature \in Nat /\ temperature < 256
    BY <1>6
  <2> QED BY <1>8, <1>11, <2>1, ValueOfBits
<1> DEFINE v == DecodedValues(f)
<1>17. /\ v.soc = 10 * soc /\ v.voltage = 10 * voltage /\ v.current = 10 * current
       /\ v.temperature = 100 * temperature - 4000
  BY <1>13, <1>14, <1>15, <1>16 DEF DecodedValues, x
<1> HIDE DEF v
<1>18. Encodable(v)
  BY <1>3, <1>4, <1>5, <1>6, <1>17 DEF Encodable
<1>19. 2 * Distance(v.temperature, r.temperature) <= 100
  BY <1>2, <1>6, <1>17 DEF Distance
<1> QED BY <1>3, <1>4, <1>5, <1>17, <1>18, <1>19 DEF v

LEMMA AsSequence ==
  \A n \in Nat : \A s \in [1..n -> Byte] : s \in Seq(Byte) /\ Len(s) = n
OBVIOUS

\* One more bit.
LEMMA FlipCorrupts ==
  \A d, x, y : \A k \in 0..1, i \in 1..8, b \in 0..7 :
    Corrupted(d, x, k) /\ Flipped(x, i, b, y) => Corrupted(d, y, k + 1)
<1> SUFFICES ASSUME NEW d, NEW x, NEW y, NEW k \in 0..1, NEW i \in 1..8, NEW b \in 0..7,
                    Corrupted(d, x, k), Flipped(x, i, b, y)
             PROVE  Corrupted(d, y, k + 1)
  OBVIOUS
<1>0. /\ x \in Seq(Byte) /\ Len(x) = 8
      /\ y = [x EXCEPT ![i] = Xor(x[i], {b})]
  BY DEF Corrupted, Flipped
<1> DEFINE new == Xor(x[i], {b})
<1>1. x \in [1..8 -> Byte]
  BY <1>0, LenProperties
<1>2. new \in Byte /\ \A c \in 0..7 : c # b => (c \in new <=> c \in x[i])
  <2>1. x[i] \in Byte /\ {b} \in Byte
    BY <1>1 DEF Byte
  <2>2. new \in Byte /\ \A c : c \in new <=> ~(c \in x[i] <=> c \in {b})
    BY <2>1, XorFacts
  <2> QED BY <2>2
<1> HIDE DEF new
<1>3. y \in [1..8 -> Byte] /\ \A n \in 1..8 : y[n] = IF n = i THEN new ELSE x[n]
  BY <1>0, <1>1, <1>2 DEF new
<1>4. y \in Seq(Byte) /\ Len(y) = 8
  BY <1>3, AsSequence
<1> DEFINE Same(a, e, n, c) == c \in a[n] <=> c \in e[n]
<1>5. \A n \in 1..8, c \in 0..7 : Same(x, y, n, c) \/ <<n, c>> = <<i, b>>
  <2> SUFFICES ASSUME NEW n \in 1..8, NEW c \in 0..7, <<n, c>> # <<i, b>>
               PROVE  c \in x[n] <=> c \in y[n]
    OBVIOUS
  <2>1. CASE n # i
    BY <1>3, <2>1
  <2>2. CASE n = i
    <3>1. c # b /\ y[n] = new
      BY <1>3, <2>2
    <3> QED BY <1>2, <2>2, <3>1
  <2> QED BY <2>1, <2>2
<1>6. PICK p, q : \A n \in 1..8, c \in 0..7 :
        Same(d, x, n, c) \/ (k >= 1 /\ <<n, c>> = p) \/ (k >= 2 /\ <<n, c>> = q)
  BY DEF Corrupted
<1>7. \A n, c : Same(d, x, n, c) /\ Same(x, y, n, c) => Same(d, y, n, c)
  OBVIOUS
<1>8. \A e, n, c : Same(d, e, n, c) <=> (c \in d[n] <=> c \in e[n])
  OBVIOUS
<1> HIDE DEF Same
<1>9. Corrupted(d, y, k + 1)
  <2>1. CASE k = 0
    <3>1. ~(k >= 1) /\ ~(k >= 2) /\ k + 1 >= 1
      BY <2>1
    <3>2. \A n \in 1..8, c \in 0..7 : Same(d, y, n, c) \/ <<n, c>> = <<i, b>>
      BY <1>5, <1>6, <1>7, <3>1
    <3> QED BY <1>4, <1>8, <3>1, <3>2 DEF Corrupted
  <2>2. CASE k = 1
    <3>1. ~(k >= 2) /\ k + 1 >= 1 /\ k + 1 >= 2
      BY <2>2
    <3> DEFINE at == <<i, b>>
    <3> HIDE DEF at
    <3>2. \A n \in 1..8, c \in 0..7 : Same(d, y, n, c) \/ <<n, c>> = p \/ <<n, c>> = at
      BY <1>5, <1>6, <1>7, <3>1 DEF at
    <3>3. \A n \in 1..8, c \in 0..7 :
            (c \in d[n] <=> c \in y[n]) \/ (k + 1 >= 1 /\ <<n, c>> = p)
                                        \/ (k + 1 >= 2 /\ <<n, c>> = at)
      BY <1>8, <3>1, <3>2
    <3> SUFFICES \E at1, at2 : \A n \in 1..8, c \in 0..7 :
                   (c \in d[n] <=> c \in y[n]) \/ (k + 1 >= 1 /\ <<n, c>> = at1)
                                               \/ (k + 1 >= 2 /\ <<n, c>> = at2)
      BY <1>4 DEF Corrupted
    <3> WITNESS p, at
    <3> QED BY <3>3
  <2> QED BY <2>1, <2>2
<1> QED BY <1>9

LEMMA DataFacts ==
  \A f \in SensorFrames, y \in Seq(Byte) :
    [f EXCEPT !.data = y] \in SensorFrames /\ [f EXCEPT !.data = y].data = y
BY DEF SensorFrames

LEMMA CodecInvCorrect ==
  ASSUME SenderOrder = ReceiverOrder, MaxFlips <= 2
  PROVE  CodecSpec => []CodecInv
<1> USE CodecAssumption DEF CodecAssumption
<1>1. CodecInit => CodecInv
  BY DEF CodecInit, CodecInv, DecodedIsSent
<1>2. CodecInv /\ [CodecNext]_codecVars => CodecInv'
  <2> SUFFICES ASSUME CodecInv, [CodecNext]_codecVars PROVE CodecInv'
    OBVIOUS
  <2>1. ASSUME NEW r \in SentReadings, NEW mac \in {"none", "valid", "invalid"},
               EncodeSensorReading(r, mac)
        PROVE  CodecInv'
    <3>1. PICK soc \in Rounded(r.soc, 10), voltage \in Rounded(r.voltage, 10),
               current \in Rounded(r.current, 10),
               temperature \in Rounded(r.temperature + 4000, 100) :
            wire' = {Frame(Payload(soc, voltage, current, temperature), mac)}
      BY <2>1 DEF EncodeSensorReading
    <3>2. /\ sent' = {r} /\ flipped' = 0 /\ received' = {} /\ Encodable(r)
      BY <2>1 DEF EncodeSensorReading
    <3>3. r \in Readings
      OBVIOUS
    <3> DEFINE d == Payload(soc, voltage, current, temperature)
    <3>4. soc \in Int /\ voltage \in Int /\ current \in Int /\ temperature \in Int
      BY <3>3 DEF Rounded, Readings
    <3>5. d \in Seq(Byte) /\ Len(d) = 8
      <4>1. PayloadOf(d, soc, voltage, current, temperature)
        BY <3>4, PayloadFacts
      <4> HIDE DEF d
      <4> QED BY <4>1 DEF PayloadOf
    <3>6. Corrupted(d, d, 0)
      BY <3>5 DEF Corrupted
    <3>7. Frame(d, mac) \in SensorFrames /\ Frame(d, mac).data = d
      BY <3>5 DEF Frame, SensorFrames
    <3> HIDE DEF d
    <3>8. wire' = {Frame(d, mac)}
      BY <3>1 DEF d
    <3>9. Carries(Frame(d, mac), r, 0)
      BY <3>2, <3>3, <3>5, <3>6, <3>7 DEF Carries, d
    <3>10. \A f \in wire', s \in sent' : Carries(f, s, flipped')
      BY <3>2, <3>8, <3>9
    <3> QED BY <3>2, <3>10 DEF CodecInv, DecodedIsSent
  <2>2. ASSUME NEW i \in 1..PayloadLength, NEW b \in 0..7, FlipBit(i, b)
        PROVE  CodecInv'
    <3>1. PICK f \in wire : wire' = {[f EXCEPT !.data[i] = Xor(@, {b})]}
      BY <2>2 DEF FlipBit
    <3>2. flipped < MaxFlips /\ flipped' = flipped + 1 /\ sent' = sent /\ received' = received
      BY <2>2 DEF FlipBit
    <3> DEFINE x == f.data  y == [x EXCEPT ![i] = Xor(x[i], {b})]  g == [f EXCEPT !.data = y]
    <3>3. wire' = {g}
      BY <3>1
    <3>4. ASSUME NEW r \in sent PROVE Carries(g, r, flipped')
      <4>1. Carries(f, r, flipped)
        BY DEF CodecInv
      <4>2. PICK soc \in Rounded(r.soc, 10), voltage \in Rounded(r.voltage, 10),
                 current \in Rounded(r.current, 10),
                 temperature \in Rounded(r.temperature + 4000, 100) :
              Corrupted(Payload(soc, voltage, current, temperature), x, flipped)
        BY <4>1 DEF Carries
      <4> DEFINE d == Payload(soc, voltage, current, temperature)
      <4>3. f \in SensorFrames /\ r \in Readings /\ Encodable(r)
        BY <4>1 DEF Carries
      <4>4. Corrupted(d, x, flipped)
        BY <4>2
      <4>5. flipped \in 0..1 /\ i \in 1..8
        BY <3>2 DEF CodecInv, PayloadLength
      <4>6. Flipped(x, i, b, y)
        BY DEF Flipped
      <4> HIDE DEF d, x, y, g
      <4>7. Corrupted(d, y, flipped + 1)
        BY <4>4, <4>5, <4>6, FlipCorrupts
      <4>8. g \in SensorFrames /\ g.data = y
        BY <4>3, <4>7, DataFacts DEF g, Corrupted
      <4> QED BY <3>2, <4>3, <4>7, <4>8 DEF Carries, d
    <3> HIDE DEF g
    <3>5. \A h \in wire', s \in sent' : Carries(h, s, flipped')
      BY <3>2, <3>3, <3>4
    <3>6. flipped' \in 0..MaxFlips
      BY <3>2 DEF CodecInv
    <3> QED BY <3>2, <3>5, <3>6 DEF CodecInv, DecodedIsSent
  <2>3. ASSUME NEW f \in ForeignFrames, Inject(f) PROVE CodecInv'
    BY <2>3 DEF Inject, CodecInv, DecodedIsSent
  <2>4. CASE DecodeSensorFrame
    <3>1. PICK f \in wire :
            received' = IF Decodable(f) THEN {DecodedValues(f)} ELSE {}
      BY <2>4 DEF DecodeSensorFrame
    <3>2. wire' = {} /\ sent' = sent /\ flipped' = flipped
      BY <2>4 DEF DecodeSensorFrame
    <3>3. DecodedIsSent'
      <4>1. CASE ~Decodable(f)
        BY <3>1, <4>1 DEF DecodedIsSent
      <4>2. CASE Decodable(f)
        <5> DEFINE v == DecodedValues(f)
        <5>1. received' = {v}
          BY <3>1, <4>2
        <5>2. ASSUME NEW r \in sent
              PROVE  /\ Encodable(v)
                     /\ 2 * Distance(v.soc, r.soc) <= 10
                     /\ 2 * Distance(v.voltage, r.voltage) <= 10
                     /\ 2 * Distance(v.current, r.current) <= 10
                     /\ 2 * Distance(v.temperature, r.temperature) <= 100
          <6>1. Carries(f, r, flipped) /\ flipped \in 0..MaxFlips
            BY DEF CodecInv
          <6> QED BY <4>2, <6>1, CarriedIsDecoded
        <5> HIDE DEF v
        <5> QED BY <3>2, <5>1, <5>2 DEF DecodedIsSent
      <4> QED BY <4>1, <4>2
    <3> QED BY <3>2, <3>3 DEF CodecInv
  <2>5. CASE UNCHANGED codecVars
    BY <2>5 DEF codecVars, CodecInv, DecodedIsSent
  <2> QED BY <2>1, <2>2, <2>3, <2>4, <2>5 DEF CodecNext
<1> QED BY <1>1, <1>2, PTL DEF CodecSpec

\* What is decoded is what was sent, to half a unit of each field, for all readings and
\* either order of the bytes, through a channel that changes two bits of a payload at most:
\* calculate_crc8 shows every such corruption.
THEOREM DecodedAlwaysSent ==
  ASSUME SenderOrder = ReceiverOrder, MaxFlips <= 2
  PROVE  CodecSpec => []DecodedIsSent
<1>1. CodecInv => DecodedIsSent
  BY DEF CodecInv
<1> QED BY <1>1, CodecInvCorrect, PTL
===============================================================================
