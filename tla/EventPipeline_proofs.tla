------------------------- MODULE EventPipeline_proofs -------------------------
(***************************************************************************)
(* EventPipeline: types, the accounting of every event, and that nothing   *)
(* severe is lost for something less severe, for every capacity, window,   *)
(* threshold, set of sources and choice of reports.                        *)
(***************************************************************************)
EXTENDS EventPipeline, ProofLemmas, SequenceTheorems, FiniteSetTheorems, FunctionTheorems,
        TLAPS

USE PipelineAssumption

\* What a store is between two calls of add().
StoreOK(store) ==
  /\ store \in [events : Seq(Event), dropped : Nat, worst : EventSeverity \cup {0}]
  /\ Len(store.events) <= MaximumEvents
  /\ \A i \in DOMAIN store.events : store.worst <= store.events[i].severity
  /\ Len(store.events) < MaximumEvents => store.dropped = 0 /\ store.worst = 0

Size(store) == Len(store.events) + store.dropped

\* A store that is not empty has a least severe event to give up.
LEMMA LowestExists ==
  ASSUME NEW s \in Seq(Event), Len(s) > 0
  PROVE  /\ Lowest(s) \in DOMAIN s
         /\ \A j \in DOMAIN s : s[Lowest(s)].severity <= s[j].severity
<1> DEFINE Severities == {s[i].severity : i \in DOMAIN s}
<1>1. DOMAIN s = 1..Len(s) /\ \A i \in DOMAIN s : s[i] \in Event /\ s[i].severity \in Nat
  <2>1. DOMAIN s = 1..Len(s) /\ \A i \in DOMAIN s : s[i] \in Event
    OBVIOUS
  <2>2. \A x \in Event : x.severity \in Nat
    BY DEF Event, EventSeverity
  <2> QED BY <2>1, <2>2
<1>2. Severities \in SUBSET Nat /\ Severities # {}
  <2>1. 1 \in DOMAIN s
    BY <1>1
  <2> QED BY <1>1, <2>1
<1>3. PICK m \in Severities : \A n \in Severities : m <= n
  BY <1>2, NatMinimum
<1> DEFINE Least == {i \in DOMAIN s : s[i].severity = m}
<1>4. Least \in SUBSET Nat /\ Least # {}
  BY <1>1, <1>3
<1>5. PICK i \in Least : \A n \in Least : i <= n
  <2> HIDE DEF Least
  <2> QED BY <1>4, NatMinimum
<1>6. /\ i \in DOMAIN s
      /\ \A j \in DOMAIN s : s[i].severity <= s[j].severity
      /\ \A j \in DOMAIN s : j < i => s[i].severity < s[j].severity
  <2>1. i \in DOMAIN s /\ s[i].severity = m /\ m \in Nat
    BY <1>1, <1>5
  <2>2. \A j \in DOMAIN s : m <= s[j].severity
    BY <1>3
  <2>3. ASSUME NEW j \in DOMAIN s, j < i PROVE m < s[j].severity
    <3>1. s[j].severity # m
      BY <1>1, <1>5, <2>1, <2>3
    <3> QED BY <1>1, <2>1, <2>2, <3>1
  <2> QED BY <2>1, <2>2, <2>3
<1> QED BY <1>6 DEF Lowest

\* Taking one event out leaves the others.
LEMMA WithoutOne ==
  ASSUME NEW s \in Seq(Event), NEW k \in DOMAIN s
  PROVE  /\ Without(s, k) \in Seq(Event) /\ Len(Without(s, k)) = Len(s) - 1
         /\ \A i \in DOMAIN Without(s, k) :
              LET j == IF i < k THEN i ELSE i + 1
              IN  j \in DOMAIN s /\ Without(s, k)[i] = s[j]
<1> DEFINE front == SubSeq(s, 1, k - 1)
           back  == SubSeq(s, k + 1, Len(s))
<1>1. k \in 1..Len(s) /\ DOMAIN s = 1..Len(s) /\ Len(s) \in Nat
  OBVIOUS
<1>2. /\ front \in Seq(Event) /\ Len(front) = k - 1
      /\ \A i \in 1..(k - 1) : front[i] = s[i]
  BY <1>1
<1>3. /\ back \in Seq(Event) /\ Len(back) = Len(s) - k
      /\ \A i \in 1..(Len(s) - k) : back[i] = s[k + i]
  BY <1>1
<1>4. Without(s, k) = front \o back
  BY DEF Without
<1> HIDE DEF front, back
<1>5. Without(s, k) \in Seq(Event) /\ Len(Without(s, k)) = Len(s) - 1
  <2>0. front \in Seq(Event) /\ back \in Seq(Event)
    BY <1>2, <1>3
  <2>1. front \o back \in Seq(Event) /\ Len(front \o back) = Len(front) + Len(back)
    BY <2>0, ConcatProperties, Zenon
  <2>2. (k - 1) + (Len(s) - k) = Len(s) - 1
    BY <1>1
  <2> QED BY <1>2, <1>3, <1>4, <2>1, <2>2
<1>6. ASSUME NEW i \in DOMAIN Without(s, k)
      PROVE  LET j == IF i < k THEN i ELSE i + 1
             IN  j \in DOMAIN s /\ Without(s, k)[i] = s[j]
  <2>1. i \in 1..(Len(s) - 1)
    BY <1>1, <1>5
  <2>2. CASE i < k
    <3>1. Without(s, k)[i] = s[i] /\ i \in DOMAIN s
      BY <1>1, <1>2, <1>3, <1>4, <2>1, <2>2
    <3> QED BY <2>2, <3>1
  <2>3. CASE i >= k
    <3>1. i - (k - 1) \in 1..(Len(s) - k) /\ k + (i - (k - 1)) = i + 1 /\ i + 1 \in DOMAIN s
      BY <1>1, <2>1, <2>3
    <3>2. Without(s, k)[i] = back[i - (k - 1)]
      BY <1>1, <1>2, <1>3, <1>4, <2>1, <2>3
    <3>3. Without(s, k)[i] = s[i + 1]
      BY <1>3, <3>1, <3>2
    <3>4. (IF i < k THEN i ELSE i + 1) = i + 1
      BY <1>1, <2>1, <2>3
    <3> QED BY <3>1, <3>3, <3>4
  <2> QED BY <1>1, <2>1, <2>2, <2>3
<1> QED BY <1>5, <1>6

\* add() keeps the store within its capacity, above what it lost, and counts the event.
LEMMA AddKeepsStore ==
  ASSUME NEW store, StoreOK(store), NEW e \in Event
  PROVE  StoreOK(Add(store, e)) /\ Size(Add(store, e)) = Size(store) + 1
<1> DEFINE s   == store.events
           k   == Lowest(s)
           low == s[k].severity
<1>1. /\ s \in Seq(Event) /\ store.dropped \in Nat /\ Len(s) <= MaximumEvents
      /\ store.worst \in EventSeverity \cup {0} /\ e.severity \in EventSeverity
      /\ \A i \in DOMAIN s : store.worst <= s[i].severity
      /\ \A i \in DOMAIN s : s[i].severity \in EventSeverity
      /\ DOMAIN s = 1..Len(s)
      /\ Len(s) < MaximumEvents => store.dropped = 0 /\ store.worst = 0
  <2>1. s \in Seq(Event) /\ DOMAIN s = 1..Len(s) /\ \A i \in DOMAIN s : s[i] \in Event
    BY DEF StoreOK
  <2>2. \A x \in Event : x.severity \in EventSeverity
    BY DEF Event
  <2> QED BY <2>1, <2>2 DEF StoreOK
<1>2. CASE Len(s) < MaximumEvents
  <2>1. Add(store, e) = [store EXCEPT !.events = Append(s, e)]
    BY <1>2 DEF Add
  <2>2. /\ Append(s, e) \in Seq(Event) /\ Len(Append(s, e)) = Len(s) + 1
        /\ DOMAIN Append(s, e) = 1..(Len(s) + 1)
        /\ Append(s, e)[Len(s) + 1] = e
        /\ \A i \in DOMAIN s : Append(s, e)[i] = s[i]
    BY <1>1
  <2>3. store.worst = 0 /\ store.dropped = 0 /\ 0 <= e.severity
    BY <1>1, <1>2 DEF EventSeverity
  <2>4. \A i \in 1..(Len(s) + 1) : 0 <= Append(s, e)[i].severity
    BY <1>1, <2>2, <2>3 DEF EventSeverity
  <2> DEFINE r == Append(s, e)
  <2>5. r \in Seq(Event) /\ Len(r) = Len(s) + 1 /\ \A i \in DOMAIN r : 0 <= r[i].severity
    BY <2>2, <2>4
  <2> HIDE DEF r
  <2>6. Add(store, e) \in [events : Seq(Event), dropped : Nat, worst : EventSeverity \cup {0}]
    BY <1>1, <2>1, <2>5 DEF r, StoreOK
  <2>7. /\ Add(store, e).events = r /\ Add(store, e).dropped = 0
        /\ Add(store, e).worst = 0
    BY <2>1, <2>3 DEF r, StoreOK
  <2> QED BY <1>1, <1>2, <2>3, <2>5, <2>6, <2>7 DEF StoreOK, Size
<1>3. CASE Len(s) >= MaximumEvents
  <2>1. Len(s) = MaximumEvents /\ Len(s) > 0
    BY <1>1, <1>3
  <2>2. k \in DOMAIN s /\ \A j \in DOMAIN s : low <= s[j].severity
    BY <1>1, <2>1, LowestExists
  <2>3. low \in EventSeverity /\ store.worst <= low
    BY <1>1, <2>2
  <2> HIDE DEF k
  <2>4. CASE e.severity > low
    <3> DEFINE r == Append(Without(s, k), e)
    <3>1. Add(store, e) = [events  |-> r, dropped |-> store.dropped + 1,
                           worst |-> Worse(store.worst, low)]
      BY <1>3, <2>1, <2>4 DEF Add, k
    <3>2. /\ Without(s, k) \in Seq(Event) /\ Len(Without(s, k)) = Len(s) - 1
          /\ \A i \in DOMAIN Without(s, k) : \E j \in DOMAIN s : Without(s, k)[i] = s[j]
      BY <1>1, <2>2, WithoutOne
    <3>3. /\ r \in Seq(Event) /\ Len(r) = Len(s) /\ DOMAIN r = 1..Len(s)
          /\ r[Len(s)] = e
          /\ \A i \in 1..(Len(s) - 1) : r[i] = Without(s, k)[i]
      BY <1>1, <2>1, <3>2
    <3>4. Worse(store.worst, low) = low
      BY <1>1, <2>3 DEF Worse, EventSeverity
    <3> HIDE DEF r
    <3>5. ASSUME NEW i \in DOMAIN r PROVE low <= r[i].severity
      <4>1. CASE i = Len(s)
        <5>1. r[i] = e
          BY <3>3, <4>1
        <5>2. low \in Nat /\ e.severity \in Nat
          BY <1>1, <2>3 DEF EventSeverity
        <5> QED BY <2>4, <5>1, <5>2
      <4>2. CASE i \in 1..(Len(s) - 1)
        <5>1. i \in DOMAIN Without(s, k)
          BY <3>2, <4>2
        <5> QED BY <2>2, <3>2, <3>3, <4>2, <5>1
      <4> QED BY <1>1, <2>1, <3>3, <4>1, <4>2
    <3> QED BY <1>1, <2>1, <2>3, <3>1, <3>3, <3>4, <3>5 DEF StoreOK, Size
  <2>5. CASE ~(e.severity > low)
    <3>1. Add(store, e) = [events |-> s, dropped |-> store.dropped + 1,
                           worst |-> Worse(store.worst, e.severity)]
      <4>1. Add(store, e) = [store EXCEPT !.dropped = @ + 1,
                                          !.worst = Worse(store.worst, e.severity)]
        BY <1>3, <2>1, <2>5 DEF Add, k
      <4>2. store = [events |-> s, dropped |-> store.dropped, worst |-> store.worst]
        BY DEF StoreOK
      <4> QED BY <4>1, <4>2
    <3>2. /\ Worse(store.worst, e.severity) \in EventSeverity \cup {0}
          /\ Worse(store.worst, e.severity) <= low
      BY <1>1, <2>3, <2>5 DEF Worse, EventSeverity
    <3>3. \A i \in DOMAIN s : Worse(store.worst, e.severity) <= s[i].severity
      <4> SUFFICES ASSUME NEW i \in DOMAIN s
                   PROVE  Worse(store.worst, e.severity) <= s[i].severity
        OBVIOUS
      <4>0. low \in EventSeverity /\ s[i].severity \in EventSeverity
        BY <1>1, <2>3
      <4>1. low <= s[i].severity /\ low \in Nat /\ s[i].severity \in Nat
        BY <2>2, <4>0 DEF EventSeverity
      <4>2. Worse(store.worst, e.severity) \in Nat
        BY <3>2 DEF EventSeverity
      <4> QED BY <3>2, <4>1, <4>2
    <3>4. /\ Add(store, e) \in [events : Seq(Event), dropped : Nat,
                                worst : EventSeverity \cup {0}]
          /\ Add(store, e).events = s /\ Add(store, e).dropped = store.dropped + 1
          /\ Add(store, e).worst = Worse(store.worst, e.severity)
      BY <1>1, <3>1, <3>2 DEF StoreOK
    <3> QED BY <1>1, <2>1, <3>3, <3>4 DEF StoreOK, Size
  <2> QED BY <2>4, <2>5
<1> QED BY <1>1, <1>2, <1>3

\* Whatever is observed, the store stays what a store is and every event is accounted for.
LEMMA ProcessKeepsInv ==
  ASSUME PipelineInv, NEW e \in Event, Process(e)
  PROVE  PipelineInv'
<1> USE DEF PipelineInv
<1> DEFINE store0 == [events |-> events, dropped |-> dropped, worst |-> worst]
           store1 == Add(store0, e)
           isBurst == IsBurst(store1.events, e) /\ <<"AUTH_BURST", e.source>> \notin emitted
           store2 == AddAlert(store1, isBurst, Burst(e))
           isIncident == /\ IsIncident(store1.events, e)
                         /\ <<"REPLAY_SOURCE", e.source>> \notin emitted
           store3 == AddAlert(store2, isIncident, Incident(e))
<1>1. StoreOK(store0) /\ Size(store0) = Len(events) + dropped
  BY DEF StoreOK, Size, TypeOK, SevereSurvives, KeepsWhileRoom
<1>2. Burst(e) \in Event /\ Incident(e) \in Event /\ e.source \in Sources
  BY DEF Burst, Incident, Alert, Event, Types, EventSeverity, High, Critical
<1>3. StoreOK(store1) /\ Size(store1) = Size(store0) + 1
  <2> HIDE DEF store0
  <2> QED BY <1>1, AddKeepsStore
<1>4. /\ StoreOK(store2)
      /\ Size(store2) = Size(store1) + Len(IF isBurst THEN <<Burst(e)>> ELSE <<>>)
  <2> HIDE DEF store1
  <2>1. CASE isBurst
    BY <1>2, <1>3, <2>1, AddKeepsStore DEF AddAlert
  <2>2. CASE ~isBurst
    BY <1>3, <2>2 DEF AddAlert, Size, StoreOK
  <2> QED BY <2>1, <2>2
<1>5. /\ StoreOK(store3)
      /\ Size(store3) = Size(store2) + Len(IF isIncident THEN <<Incident(e)>> ELSE <<>>)
  <2> HIDE DEF store1, store2
  <2>1. CASE isIncident
    BY <1>2, <1>4, <2>1, AddKeepsStore DEF AddAlert
  <2>2. CASE ~isIncident
    <3>1. store3 = store2 /\ Size(store2) \in Nat
      BY <1>4, <2>2 DEF AddAlert, Size, StoreOK
    <3>2. Len(IF isIncident THEN <<Incident(e)>> ELSE <<>>) = 0
      BY <2>2
    <3> HIDE DEF store3, isIncident
    <3> QED BY <1>4, <3>1, <3>2
  <2> QED BY <2>1, <2>2
<1>6. /\ events' = store3.events /\ dropped' = store3.dropped /\ worst' = store3.worst
      /\ raised' = raised \o (IF isBurst THEN <<Burst(e)>> ELSE <<>>)
                          \o (IF isIncident THEN <<Incident(e)>> ELSE <<>>)
      /\ emitted' = emitted
           \cup (IF isBurst THEN {<<"AUTH_BURST", e.source>>} ELSE {})
           \cup (IF isIncident THEN {<<"REPLAY_SOURCE", e.source>>} ELSE {})
      /\ seen' = Append(seen, e)
  BY DEF Process
<1> HIDE DEF store0, store1, store2, store3, isBurst, isIncident
<1>7. /\ (IF isBurst THEN <<Burst(e)>> ELSE <<>>) \in Seq(Event)
      /\ (IF isIncident THEN <<Incident(e)>> ELSE <<>>) \in Seq(Event)
  BY <1>2
<1>8. /\ raised' \in Seq(Event) /\ seen' \in Seq(Event) /\ Len(seen') = Len(seen) + 1
      /\ Len(raised') = Len(raised) + Len(IF isBurst THEN <<Burst(e)>> ELSE <<>>)
                                    + Len(IF isIncident THEN <<Incident(e)>> ELSE <<>>)
  BY <1>6, <1>7 DEF TypeOK
<1>9. emitted' \subseteq Key
  BY <1>2, <1>6 DEF TypeOK, Key
<1>10. Size(store3) = Len(events') + dropped'
  BY <1>6 DEF Size
<1>11. EverythingIsAccounted'
  <2>1. /\ Size(store0) \in Nat /\ Size(store0) = Len(seen) + Len(raised)
        /\ Len(seen) \in Nat /\ Len(raised) \in Nat
        /\ Len(IF isBurst THEN <<Burst(e)>> ELSE <<>>) \in Nat
        /\ Len(IF isIncident THEN <<Incident(e)>> ELSE <<>>) \in Nat
    BY <1>1, <1>7 DEF EverythingIsAccounted, TypeOK
  <2> DEFINE b == Len(IF isBurst THEN <<Burst(e)>> ELSE <<>>)
             c == Len(IF isIncident THEN <<Incident(e)>> ELSE <<>>)
  <2>2. /\ Size(store3) = Size(store0) + 1 + b + c
        /\ Len(seen') = Len(seen) + 1 /\ Len(raised') = Len(raised) + b + c
        /\ b \in Nat /\ c \in Nat
    BY <1>3, <1>4, <1>5, <1>8, <2>1
  <2> HIDE DEF b, c
  <2> QED BY <1>10, <2>1, <2>2 DEF EverythingIsAccounted
<1> QED BY <1>5, <1>6, <1>8, <1>9, <1>11 DEF StoreOK, TypeOK, SevereSurvives, KeepsWhileRoom

\* The invariant is inductive, whatever callers report and when.
THEOREM PipelineInvariant == Spec => []PipelineInv
<1>1. Init => PipelineInv
  BY DEF Init, PipelineInv, TypeOK, EverythingIsAccounted, SevereSurvives, KeepsWhileRoom
<1>2. PipelineInv /\ [Next]_vars => PipelineInv'
  <2> SUFFICES ASSUME PipelineInv, [Next]_vars PROVE PipelineInv'
    OBVIOUS
  <2>1. CASE UNCHANGED vars
    BY <2>1 DEF vars, PipelineInv, TypeOK, EverythingIsAccounted, SevereSurvives, KeepsWhileRoom
  <2>2. ASSUME NEW o \in Observations, NEW source \in Sources, NEW t \in 0..MaxTime,
               Process([timestamp |-> t, source |-> source, type |-> o.type,
                        severity |-> o.severity])
        PROVE  PipelineInv'
    <3>1. [timestamp |-> t, source |-> source, type |-> o.type, severity |-> o.severity]
            \in Event
      BY DEF Event
    <3> QED BY <2>2, <3>1, ProcessKeepsInv
  <2> QED BY <2>1, <2>2 DEF Next, Quiet
<1> QED BY <1>1, <1>2, PTL DEF Spec

\* The store stays within its capacity and every variable keeps its type.
THEOREM PipelineTypeCorrect == Spec => []TypeOK
<1>1. PipelineInv => TypeOK
  BY DEF PipelineInv
<1> QED BY <1>1, PipelineInvariant, PTL

\* No event and no alert disappears uncounted.
THEOREM NothingIsLostUncounted == Spec => []EverythingIsAccounted
<1>1. PipelineInv => EverythingIsAccounted
  BY DEF PipelineInv
<1> QED BY <1>1, PipelineInvariant, PTL

\* No flood pushes out what is more severe than what it leaves.
THEOREM FloodKeepsTheSevere == Spec => []SevereSurvives
<1>1. PipelineInv => SevereSurvives
  BY DEF PipelineInv
<1> QED BY <1>1, PipelineInvariant, PTL

-----------------------------------------------------------------------------
(***************************************************************************)
(* What the store still holds of what was observed                         *)
(***************************************************************************)
\* The positions of the events of V in a sequence.
Of(V, s) == {i \in DOMAIN s : s[i] \in V}

\* Each occurrence of an event of V in s has an occurrence of its own in t.
Embeds(V, s, t) ==
  \E f \in [Of(V, s) -> DOMAIN t] :
    /\ \A i \in Of(V, s) : t[f[i]] = s[i]
    /\ \A i, j \in Of(V, s) : f[i] = f[j] => i = j

\* Occurrences can be followed from one sequence to the next, and of fewer events.
LEMMA EmbedsTrans ==
  ASSUME NEW V, NEW W \in SUBSET V, NEW r, NEW s, NEW t, Embeds(V, r, s), Embeds(W, s, t)
  PROVE  Embeds(W, r, t)
<1>1. PICK f \in [Of(V, r) -> DOMAIN s] :
        /\ \A i \in Of(V, r) : s[f[i]] = r[i]
        /\ \A i, j \in Of(V, r) : f[i] = f[j] => i = j
  BY DEF Embeds
<1>2. PICK g \in [Of(W, s) -> DOMAIN t] :
        /\ \A i \in Of(W, s) : t[g[i]] = s[i]
        /\ \A i, j \in Of(W, s) : g[i] = g[j] => i = j
  BY DEF Embeds
<1>3. \A i \in Of(W, r) : i \in Of(V, r) /\ f[i] \in Of(W, s)
  BY <1>1 DEF Of
<1> DEFINE h == [i \in Of(W, r) |-> g[f[i]]]
<1>4. h \in [Of(W, r) -> DOMAIN t]
  BY <1>2, <1>3
<1>5. \A i \in Of(W, r) : t[h[i]] = r[i]
  BY <1>1, <1>2, <1>3
<1>6. \A i, j \in Of(W, r) : h[i] = h[j] => i = j
  BY <1>1, <1>2, <1>3
<1> HIDE DEF h
<1> QED BY <1>4, <1>5, <1>6 DEF Embeds

\* Every event of a sequence is in it, and in any sequence it is extended to.
LEMMA EmbedsInExtension ==
  ASSUME NEW V, NEW s \in Seq(Event), NEW x \in Event
  PROVE  Embeds(V, s, s) /\ Embeds(V, s, Append(s, x))
<1> DEFINE r == Append(s, x)
           f == [i \in Of(V, s) |-> i]
<1>1. \A i \in DOMAIN s : i \in DOMAIN r /\ r[i] = s[i]
  BY AppendFacts
<1>2. /\ \A i \in Of(V, s) : s[f[i]] = s[i] /\ r[f[i]] = s[i]
      /\ \A i, j \in Of(V, s) : f[i] = f[j] => i = j
  BY <1>1 DEF Of
<1>3. f \in [Of(V, s) -> DOMAIN s] /\ f \in [Of(V, s) -> DOMAIN r]
  BY <1>1 DEF Of
<1> HIDE DEF f, r
<1>4. Embeds(V, s, s) /\ Embeds(V, s, r)
  BY <1>2, <1>3 DEF Embeds
<1> QED BY <1>4 DEF r

\* The same event at the end of both.
LEMMA EmbedsBoth ==
  ASSUME NEW V, NEW s \in Seq(Event), NEW t \in Seq(Event), NEW x \in Event,
         Embeds(V, s, t)
  PROVE  Embeds(V, Append(s, x), Append(t, x))
<1> DEFINE r == Append(s, x)
           u == Append(t, x)
           m == Len(s) + 1
           n == Len(t) + 1
<1>1. /\ DOMAIN r = DOMAIN s \union {m} /\ r[m] = x /\ \A i \in DOMAIN s : r[i] = s[i]
      /\ DOMAIN u = DOMAIN t \union {n} /\ u[n] = x /\ \A i \in DOMAIN t : u[i] = t[i]
      /\ m \notin DOMAIN s /\ n \notin DOMAIN t
  BY AppendFacts
<1> HIDE DEF r, u, m, n
<1>2. PICK f \in [Of(V, s) -> DOMAIN t] :
        /\ \A i \in Of(V, s) : t[f[i]] = s[i]
        /\ \A i, j \in Of(V, s) : f[i] = f[j] => i = j
  BY DEF Embeds
<1>3. \A i \in Of(V, r) : i = m \/ (i # m /\ i \in Of(V, s))
  BY <1>1 DEF Of
<1> DEFINE h == [i \in Of(V, r) |-> IF i = m THEN n ELSE f[i]]
<1>4. h \in [Of(V, r) -> DOMAIN u]
  BY <1>1, <1>2, <1>3
<1>5. ASSUME NEW i \in Of(V, r) PROVE u[h[i]] = r[i]
  <2>1. CASE i = m
    BY <1>1, <2>1
  <2>2. CASE i # m
    <3>1. i \in Of(V, s) /\ f[i] \in DOMAIN t /\ r[i] = s[i]
      BY <1>1, <1>2, <1>3, <2>2 DEF Of
    <3> QED BY <1>1, <1>2, <2>2, <3>1
  <2> QED BY <2>1, <2>2
<1>6. \A i, j \in Of(V, r) : h[i] = h[j] => i = j
  BY <1>1, <1>2, <1>3
<1> HIDE DEF h
<1>7. Embeds(V, r, u)
  BY <1>4, <1>5, <1>6 DEF Embeds
<1> QED BY <1>7 DEF r, u

\* An event outside V at the end makes no difference.
LEMMA EmbedsWithoutLast ==
  ASSUME NEW V, NEW s \in Seq(Event), NEW x \in Event, x \notin V
  PROVE  Embeds(V, Append(s, x), s)
<1> DEFINE r == Append(s, x)
           f == [i \in Of(V, r) |-> i]
<1>1. /\ DOMAIN r = DOMAIN s \union {Len(s) + 1} /\ r[Len(s) + 1] = x
      /\ \A i \in DOMAIN s : r[i] = s[i]
  BY AppendFacts
<1> HIDE DEF r
<1>2. \A i \in Of(V, r) : i \in DOMAIN s
  BY <1>1 DEF Of
<1>3. f \in [Of(V, r) -> DOMAIN s]
  BY <1>2
<1>4. /\ \A i \in Of(V, r) : s[f[i]] = r[i]
      /\ \A i, j \in Of(V, r) : f[i] = f[j] => i = j
  BY <1>1, <1>2
<1> HIDE DEF f
<1>5. Embeds(V, r, s)
  BY <1>3, <1>4 DEF Embeds
<1> QED BY <1>5 DEF r

\* What is left when one event is taken out was there before; and if the event taken
\* out is not of V, everything of V is left.
LEMMA EmbedsWithout ==
  ASSUME NEW V, NEW s \in Seq(Event), NEW k \in DOMAIN s
  PROVE  /\ Embeds(V, Without(s, k), s)
         /\ s[k] \notin V => Embeds(V, s, Without(s, k))
<1> DEFINE r == Without(s, k)
           up == [i \in Of(V, r) |-> IF i < k THEN i ELSE i + 1]
           down == [i \in Of(V, s) |-> IF i < k THEN i ELSE i - 1]
<1>1. /\ DOMAIN s = 1..Len(s) /\ Len(s) \in Nat /\ k \in 1..Len(s)
      /\ DOMAIN r = 1..(Len(s) - 1)
      /\ \A i \in DOMAIN r : (IF i < k THEN i ELSE i + 1) \in DOMAIN s
                           /\ r[i] = s[IF i < k THEN i ELSE i + 1]
  <2>1. DOMAIN s = 1..Len(s) /\ Len(s) \in Nat
    OBVIOUS
  <2>2. r \in Seq(Event) /\ Len(r) = Len(s) - 1
    BY WithoutOne
  <2>3. DOMAIN r = 1..(Len(s) - 1)
    BY <2>2
  <2> QED BY <2>1, <2>3, WithoutOne
<1> HIDE DEF r
<1>2. Embeds(V, r, s)
  <2>1. up \in [Of(V, r) -> DOMAIN s]
    BY <1>1 DEF Of
  <2>2. \A i \in Of(V, r) : s[up[i]] = r[i]
    BY <1>1 DEF Of
  <2>3. \A i, j \in Of(V, r) : up[i] = up[j] => i = j
    BY <1>1 DEF Of
  <2> HIDE DEF up
  <2> QED BY <2>1, <2>2, <2>3 DEF Embeds
<1>3. ASSUME s[k] \notin V PROVE Embeds(V, s, r)
  <2>1. \A i \in Of(V, s) : i # k /\ i \in 1..Len(s)
    BY <1>1, <1>3 DEF Of
  <2>2. down \in [Of(V, s) -> DOMAIN r]
    BY <1>1, <2>1
  <2>3. \A i \in Of(V, s) : r[down[i]] = s[i]
    <3> SUFFICES ASSUME NEW i \in Of(V, s) PROVE r[down[i]] = s[i]
      OBVIOUS
    <3>1. down[i] \in DOMAIN r /\ i # k /\ i \in 1..Len(s)
      BY <2>1, <2>2
    <3>2. (IF down[i] < k THEN down[i] ELSE down[i] + 1) = i
      BY <1>1, <3>1
    <3> HIDE DEF down
    <3> QED BY <1>1, <3>1, <3>2
  <2>4. \A i, j \in Of(V, s) : down[i] = down[j] => i = j
    BY <1>1, <2>1
  <2> HIDE DEF down
  <2> QED BY <2>2, <2>3, <2>4 DEF Embeds
<1> QED BY <1>2, <1>3 DEF r

\* So many events of V in s, so many at least in t.
LEMMA EmbedsCounts ==
  ASSUME NEW V, NEW s \in Seq(Event), NEW t \in Seq(Event), Embeds(V, s, t)
  PROVE  /\ IsFiniteSet(Of(V, t)) /\ Cardinality(Of(V, s)) \in Nat
         /\ Cardinality(Of(V, t)) \in Nat
         /\ Cardinality(Of(V, s)) <= Cardinality(Of(V, t))
<1>1. PICK f \in [Of(V, s) -> DOMAIN t] :
        /\ \A i \in Of(V, s) : t[f[i]] = s[i]
        /\ \A i, j \in Of(V, s) : f[i] = f[j] => i = j
  BY DEF Embeds
<1>2. f \in [Of(V, s) -> Of(V, t)]
  BY <1>1 DEF Of
<1>3. f \in Injection(Of(V, s), Of(V, t))
  BY <1>1, <1>2, Fun_IsInj
<1>4. IsFiniteSet(Of(V, t))
  <2>1. IsFiniteSet(1..Len(t)) /\ DOMAIN t = 1..Len(t)
    BY FS_Interval, LenProperties
  <2> QED BY <2>1, FS_Subset DEF Of
<1> QED BY <1>3, <1>4, FS_Injection, FS_CardinalityType

Above(w) == {x \in Event : x.severity > w}

\* Everything observed that is more severe than all that was lost is still stored.
Kept(store, s) == Embeds(Above(store.worst), s, store.events)

\* All events but of the two kinds of alerts the detector adds to the store itself.
NoAlerts == {x \in Event : x.type \notin {"AUTHENTICATION_FAILURE_BURST",
                                       "CORRELATED_REPLAY_SOURCE_INCIDENT"}}

\* Everything stored but the alerts was observed.
Genuine(store, s) == Embeds(NoAlerts, store.events, s)

\* What add() can do to a store.
LEMMA AddCases ==
  ASSUME NEW store, StoreOK(store), NEW e \in Event
  PROVE  LET s == store.events
             new == Add(store, e)
         IN  /\ s \in Seq(Event) /\ store.worst <= new.worst
             /\ \/ new.events = Append(s, e) /\ new.worst = store.worst
                \/ /\ Lowest(s) \in DOMAIN s /\ new.events = Append(Without(s, Lowest(s)), e)
                   /\ new.worst = s[Lowest(s)].severity
                \/ new.events = s /\ e.severity <= new.worst
<1> DEFINE s == store.events
           low == s[Lowest(s)].severity
           new == Add(store, e)
<1> SUFFICES /\ s \in Seq(Event) /\ store.worst <= new.worst
             /\ \/ new.events = Append(s, e) /\ new.worst = store.worst
                \/ /\ Lowest(s) \in DOMAIN s /\ new.events = Append(Without(s, Lowest(s)), e)
                   /\ new.worst = s[Lowest(s)].severity
                \/ new.events = s /\ e.severity <= new.worst
  OBVIOUS
<1>1. /\ s \in Seq(Event) /\ Len(s) <= MaximumEvents /\ Len(s) \in Nat
      /\ store.worst \in Nat /\ e.severity \in Nat
      /\ store = [events |-> s, dropped |-> store.dropped, worst |-> store.worst]
  BY DEF StoreOK, Event, EventSeverity
<1>2. CASE Len(s) < MaximumEvents
  <2>1. new = [store EXCEPT !.events = Append(s, e)]
    BY <1>2 DEF Add
  <2>2. new.events = Append(s, e) /\ new.worst = store.worst
    BY <1>1, <2>1 DEF StoreOK
  <2> HIDE DEF new
  <2> QED BY <1>1, <2>2
<1>3. CASE ~(Len(s) < MaximumEvents)
  <2>1. /\ Lowest(s) \in DOMAIN s /\ store.worst <= low /\ low \in Nat
    <3>1. Lowest(s) \in DOMAIN s
      BY <1>1, <1>3, LowestExists
    <3>2. s[Lowest(s)] \in Event /\ store.worst <= low
      BY <1>1, <3>1 DEF StoreOK
    <3> QED BY <3>1, <3>2 DEF Event, EventSeverity
  <2>2. CASE e.severity > low
    <3>1. new = [events |-> Append(Without(s, Lowest(s)), e),
                 dropped |-> store.dropped + 1, worst |-> Worse(store.worst, low)]
      BY <1>3, <2>2 DEF Add
    <3>2. Worse(store.worst, low) = low
      BY <1>1, <2>1 DEF Worse
    <3> HIDE DEF low
    <3>3. new.events = Append(Without(s, Lowest(s)), e) /\ new.worst = low
      BY <3>1, <3>2
    <3> HIDE DEF new
    <3> QED BY <1>1, <2>1, <3>3 DEF low
  <2>3. CASE ~(e.severity > low)
    <3>1. new = [store EXCEPT !.dropped = @ + 1, !.worst = Worse(store.worst, e.severity)]
      BY <1>3, <2>3 DEF Add
    <3>2. new.events = s /\ new.worst = Worse(store.worst, e.severity)
      BY <1>1, <3>1 DEF StoreOK
    <3>3. store.worst <= new.worst /\ e.severity <= new.worst
      BY <1>1, <3>2 DEF Worse
    <3> HIDE DEF new
    <3> QED BY <1>1, <3>2, <3>3
  <2> QED BY <2>2, <2>3
<1> QED BY <1>2, <1>3

\* add() loses no event more severe than the worst it lost, and invents none.
LEMMA AddKeepsHistory ==
  ASSUME NEW store, StoreOK(store), NEW e \in Event, NEW s \in Seq(Event),
         Kept(store, s), Genuine(store, s)
  PROVE  Kept(Add(store, e), Append(s, e)) /\ Genuine(Add(store, e), Append(s, e))
<1> DEFINE ev == store.events
           k == Lowest(ev)
           new == Add(store, e)
           V == Above(store.worst)
           W == Above(new.worst)
<1>1. /\ ev \in Seq(Event) /\ store.worst <= new.worst
      /\ \/ new.events = Append(ev, e) /\ new.worst = store.worst
         \/ /\ k \in DOMAIN ev /\ new.events = Append(Without(ev, k), e)
            /\ new.worst = ev[k].severity
         \/ new.events = ev /\ e.severity <= new.worst
  BY AddCases
<1>2. store.worst \in Nat /\ new.worst \in Nat
  <2>1. StoreOK(new)
    BY AddKeepsStore
  <2> HIDE DEF new
  <2> QED BY <2>1 DEF StoreOK, EventSeverity
<1>3. W \subseteq V
  BY <1>1, <1>2 DEF Above, Event, EventSeverity
<1>4. Embeds(V, s, ev) /\ Embeds(NoAlerts, ev, s)
  BY DEF Kept, Genuine
<1>5. Embeds(W, s, ev)
  <2>1. Embeds(W, ev, ev)
    BY <1>1, EmbedsInExtension
  <2> HIDE DEF V, W
  <2> QED BY <1>3, <1>4, <2>1, EmbedsTrans
<1> SUFFICES /\ Embeds(W, Append(s, e), new.events)
             /\ Embeds(NoAlerts, new.events, Append(s, e))
  BY DEF Kept, Genuine
<1> HIDE DEF new, V, W
<1>6. CASE new.events = Append(ev, e)
  BY <1>1, <1>4, <1>5, <1>6, EmbedsBoth
<1>7. CASE k \in DOMAIN ev /\ new.events = Append(Without(ev, k), e)
           /\ new.worst = ev[k].severity
  <2> DEFINE r == Without(ev, k)
  <2>1. r \in Seq(Event)
    BY <1>1, <1>7, WithoutOne
  <2>2. ev[k] \notin W
    BY <1>2, <1>7 DEF W, Above
  <2>3. Embeds(W, ev, r) /\ Embeds(NoAlerts, r, ev)
    BY <1>1, <1>7, <2>2, EmbedsWithout
  <2> HIDE DEF r
  <2>4. Embeds(W, s, r) /\ Embeds(NoAlerts, r, s)
    BY <1>4, <1>5, <2>3, EmbedsTrans
  <2> QED BY <1>7, <2>1, <2>4, EmbedsBoth DEF r
<1>8. CASE new.events = ev /\ e.severity <= new.worst
  <2>1. e \notin W
    BY <1>2, <1>8 DEF W, Above, Event, EventSeverity
  <2>2. Embeds(W, Append(s, e), s)
    BY <2>1, EmbedsWithoutLast
  <2>3. Embeds(NoAlerts, s, Append(s, e))
    BY EmbedsInExtension
  <2> QED BY <1>4, <1>5, <1>8, <2>2, <2>3, EmbedsTrans
<1> QED BY <1>1, <1>6, <1>7, <1>8

\* An alert that is added displaces nothing more severe, and is not taken for an
\* observation.
LEMMA AlertKeepsHistory ==
  ASSUME NEW store, StoreOK(store), NEW a \in Event, a \notin NoAlerts,
         NEW isRaised \in BOOLEAN, NEW s \in Seq(Event), Kept(store, s), Genuine(store, s)
  PROVE  LET new == AddAlert(store, isRaised, a)
         IN  StoreOK(new) /\ Kept(new, s) /\ Genuine(new, s) /\ store.worst <= new.worst
<1>1. CASE isRaised
  <2> DEFINE new == Add(store, a)
             W == Above(new.worst)
  <2>1. Embeds(W, Append(s, a), new.events) /\ Embeds(NoAlerts, new.events, Append(s, a))
    BY AddKeepsHistory DEF Kept, Genuine
  <2>2. Embeds(W, s, Append(s, a)) /\ Embeds(NoAlerts, Append(s, a), s)
    BY EmbedsInExtension, EmbedsWithoutLast
  <2>3. StoreOK(new) /\ store.worst <= new.worst
    BY AddKeepsStore, AddCases
  <2> HIDE DEF W
  <2>4. Embeds(W, s, new.events) /\ Embeds(NoAlerts, new.events, s)
    BY <2>1, <2>2, EmbedsTrans
  <2> QED BY <1>1, <2>3, <2>4 DEF AddAlert, Kept, Genuine, W
<1>2. CASE ~isRaised
  BY <1>2 DEF AddAlert, StoreOK, EventSeverity
<1> QED BY <1>1, <1>2

\* The failures of e's source in the window that ends at e.
FailuresBefore(e) ==
  {x \in Event : /\ e.timestamp - CorrelationWindow <= x.timestamp
                /\ x.timestamp <= e.timestamp
                /\ x.type = "AUTHENTICATION_FAILURE" /\ x.source = e.source}

LEMMA FailuresAre ==
  ASSUME NEW e \in Event, NEW s \in Seq(Event)
  PROVE  /\ FailedAuth(s, e) = Of(FailuresBefore(e), s)
         /\ Failures(s, e) = Of(FailuresBefore(e), s)
         /\ Failures(s, Burst(e)) = Of(FailuresBefore(e), s)
<1>1. \A i \in DOMAIN s : s[i] \in Event
  BY ElementOfSeq, LenProperties
<1>2. Burst(e).timestamp = e.timestamp /\ Burst(e).source = e.source
  BY DEF Burst, Alert, Event
<1>3. FailedAuth(s, e) = Of(FailuresBefore(e), s)
  BY <1>1 DEF FailedAuth, Recent, Of, FailuresBefore
<1>4. Failures(s, e) = Of(FailuresBefore(e), s)
  BY <1>1 DEF Failures, Near, Of, FailuresBefore
<1>5. Failures(s, Burst(e)) = Of(FailuresBefore(e), s)
  <2> DEFINE a == Burst(e)
  <2> HIDE DEF a
  <2>1. Failures(s, a) = {i \in DOMAIN s : /\ a.timestamp - CorrelationWindow <= s[i].timestamp
                                         /\ s[i].timestamp <= a.timestamp
                                         /\ s[i].type = "AUTHENTICATION_FAILURE"
                                         /\ s[i].source = a.source}
    BY DEF Failures, Near
  <2>2. a.timestamp = e.timestamp /\ a.source = e.source
    BY <1>2 DEF a
  <2>3. Failures(s, a) = Of(FailuresBefore(e), s)
    BY <1>1, <2>1, <2>2 DEF Of, FailuresBefore
  <2> QED BY <2>3 DEF a
<1> QED BY <1>3, <1>4, <1>5

\* The store and the history of what was observed.
HistoryInv ==
  /\ Embeds(Above(worst), seen, events)
  /\ Embeds(NoAlerts, events, seen)
  /\ BurstsAreDetected

\* What process() does, with store1 the store after the event and before the alerts.
LEMMA ProcessFacts ==
  ASSUME PipelineInv, HistoryInv, NEW e \in Event, Process(e)
  PROVE  \E store1 :
           /\ StoreOK(store1) /\ Kept(store1, seen') /\ Genuine(store1, seen')
           /\ worst <= store1.worst /\ store1.worst <= worst'
           /\ seen' = Append(seen, e) /\ seen' \in Seq(Event)
           /\ Embeds(Above(worst'), seen', events') /\ Embeds(NoAlerts, events', seen')
           /\ emitted \subseteq emitted'
           /\ IsBurst(store1.events, e) => <<"AUTH_BURST", e.source>> \in emitted'
           /\ \E isBurst, isIncident \in BOOLEAN :
                /\ isBurst => IsBurst(store1.events, e)
                /\ isIncident => IsIncident(store1.events, e)
                /\ raised' = raised \o (IF isBurst THEN <<Burst(e)>> ELSE <<>>)
                                    \o (IF isIncident THEN <<Incident(e)>> ELSE <<>>)
<1> DEFINE store0 == [events |-> events, dropped |-> dropped, worst |-> worst]
           store1 == Add(store0, e)
           isBurst == IsBurst(store1.events, e) /\ <<"AUTH_BURST", e.source>> \notin emitted
           store2 == AddAlert(store1, isBurst, Burst(e))
           isIncident == /\ IsIncident(store1.events, e)
                         /\ <<"REPLAY_SOURCE", e.source>> \notin emitted
           store3 == AddAlert(store2, isIncident, Incident(e))
<1>1. StoreOK(store0) /\ Kept(store0, seen) /\ Genuine(store0, seen)
  BY DEF StoreOK, PipelineInv, TypeOK, SevereSurvives, KeepsWhileRoom, HistoryInv, Kept,
         Genuine
<1>2. /\ Burst(e) \in Event /\ Incident(e) \in Event
      /\ Burst(e) \notin NoAlerts /\ Incident(e) \notin NoAlerts
  BY DEF Burst, Incident, Alert, Event, Types, EventSeverity, High, Critical, NoAlerts
<1>3. /\ events' = store3.events /\ worst' = store3.worst
      /\ raised' = raised \o (IF isBurst THEN <<Burst(e)>> ELSE <<>>)
                          \o (IF isIncident THEN <<Incident(e)>> ELSE <<>>)
      /\ emitted' = emitted
           \cup (IF isBurst THEN {<<"AUTH_BURST", e.source>>} ELSE {})
           \cup (IF isIncident THEN {<<"REPLAY_SOURCE", e.source>>} ELSE {})
      /\ seen' = Append(seen, e)
  BY DEF Process
<1>4. seen \in Seq(Event) /\ seen' \in Seq(Event)
  BY <1>3 DEF PipelineInv, TypeOK
<1>5. /\ StoreOK(store1) /\ Kept(store1, seen') /\ Genuine(store1, seen')
      /\ worst <= store1.worst
  <2>1. store0.worst <= store1.worst
    <3> HIDE DEF store0
    <3> QED BY <1>1, AddCases
  <2>2. StoreOK(store1) /\ Kept(store1, seen') /\ Genuine(store1, seen')
    <3> HIDE DEF store0
    <3> QED BY <1>1, <1>3, <1>4, AddKeepsStore, AddKeepsHistory
  <2> QED BY <2>1, <2>2
<1>6. isBurst \in BOOLEAN /\ isIncident \in BOOLEAN
  BY DEF IsBurst, IsIncident
<1> HIDE DEF store1
<1>7. /\ StoreOK(store2) /\ Kept(store2, seen') /\ Genuine(store2, seen')
      /\ store1.worst <= store2.worst
  <2> HIDE DEF isBurst
  <2> QED BY <1>2, <1>4, <1>5, <1>6, AlertKeepsHistory
<1> HIDE DEF store2
<1>8. /\ StoreOK(store3) /\ Kept(store3, seen') /\ Genuine(store3, seen')
      /\ store2.worst <= store3.worst
  <2> HIDE DEF isIncident
  <2> QED BY <1>2, <1>4, <1>6, <1>7, AlertKeepsHistory
<1> HIDE DEF store3
<1>9. store1.worst <= worst'
  BY <1>3, <1>5, <1>7, <1>8 DEF StoreOK, EventSeverity
<1>10. Embeds(Above(worst'), seen', events') /\ Embeds(NoAlerts, events', seen')
  BY <1>3, <1>8 DEF Kept, Genuine
<1>11. /\ emitted \subseteq emitted'
       /\ IsBurst(store1.events, e) => <<"AUTH_BURST", e.source>> \in emitted'
  BY <1>3
<1>12. \E burst, incident \in BOOLEAN :
         /\ burst => IsBurst(store1.events, e)
         /\ incident => IsIncident(store1.events, e)
         /\ raised' = raised \o (IF burst THEN <<Burst(e)>> ELSE <<>>)
                             \o (IF incident THEN <<Incident(e)>> ELSE <<>>)
  <2>1. (isBurst => IsBurst(store1.events, e)) /\ (isIncident => IsIncident(store1.events, e))
    OBVIOUS
  <2> HIDE DEF isBurst, isIncident
  <2> QED BY <1>3, <1>6, <2>1
<1> QED BY <1>3, <1>4, <1>5, <1>9, <1>10, <1>11, <1>12, Zenon

\* A burst that is made by the failures still stored is alerted in the same call.
LEMMA BurstStep ==
  ASSUME PipelineInv, HistoryInv, NEW e \in Event, Process(e)
  PROVE  HistoryInv'
<1>1. PICK store1 :
        /\ StoreOK(store1) /\ Kept(store1, seen') /\ Genuine(store1, seen')
        /\ worst <= store1.worst /\ store1.worst <= worst'
        /\ seen' = Append(seen, e) /\ seen' \in Seq(Event)
        /\ Embeds(Above(worst'), seen', events') /\ Embeds(NoAlerts, events', seen')
        /\ emitted \subseteq emitted'
        /\ IsBurst(store1.events, e) => <<"AUTH_BURST", e.source>> \in emitted'
  BY ProcessFacts, Zenon
<1>2. /\ seen \in Seq(Event) /\ Len(seen) \in Nat /\ worst \in Nat /\ store1.worst \in Nat
      /\ DOMAIN seen = 1..Len(seen) /\ DOMAIN seen' = 1..(Len(seen) + 1)
      /\ \A i \in DOMAIN seen : seen'[i] = seen[i]
      /\ seen'[Len(seen) + 1] = e
      /\ \A i \in DOMAIN seen' : seen'[i] \in Event /\ seen'[i].severity \in Nat
  <2>1. seen \in Seq(Event)
    BY DEF PipelineInv, TypeOK
  <2>2. \A i \in DOMAIN seen' : seen'[i] \in Event
    BY <1>1, ElementOfSeq, LenProperties
  <2>3. \A x \in Event : x.severity \in Nat
    BY DEF Event, EventSeverity
  <2>4. worst \in Nat /\ store1.worst \in Nat
    BY <1>1 DEF StoreOK, PipelineInv, TypeOK, EventSeverity
  <2>5. /\ DOMAIN seen' = DOMAIN seen \cup {Len(seen) + 1} /\ seen'[Len(seen) + 1] = e
        /\ \A i \in DOMAIN seen : seen'[i] = seen[i]
    BY <1>1, <2>1, AppendFacts
  <2> QED BY <2>1, <2>2, <2>3, <2>4, <2>5
<1>3. worst' \in Nat
  <2>1. PipelineInv'
    BY ProcessKeepsInv
  <2> QED BY <2>1 DEF PipelineInv, TypeOK, EventSeverity
<1>4. ASSUME NEW n \in DOMAIN seen', BurstAt(n)' # {},
             \A i \in BurstAt(n)' : seen'[i].severity > worst'
      PROVE  <<"AUTH_BURST", seen'[n].source>> \in emitted'
  <2> DEFINE past == SubSeq(seen', 1, n)
             F == Failures(past, seen'[n])
  <2>1. /\ Cardinality(F) >= FailedAuthThreshold
        /\ \A i \in F : seen'[i].severity > worst'
    BY <1>4 DEF BurstAt
  <2>2. CASE n \in DOMAIN seen
    <3>1. past = SubSeq(seen, 1, n) /\ seen'[n] = seen[n]
      BY <1>1, <1>2, <2>2
    <3>2. BurstAt(n)' = BurstAt(n)
      BY <3>1 DEF BurstAt
    <3>3. \A i \in BurstAt(n) : seen[i].severity > worst
      <4> SUFFICES ASSUME NEW i \in BurstAt(n) PROVE seen[i].severity > worst
        OBVIOUS
      <4>1. i \in 1..n /\ i \in DOMAIN seen
        BY <1>2, <2>2 DEF BurstAt, Failures
      <4>2. seen'[i].severity > worst' /\ seen'[i] = seen[i]
        BY <1>2, <1>4, <3>2, <4>1
      <4> QED BY <1>1, <1>2, <1>3, <4>1, <4>2
    <3>4. <<"AUTH_BURST", seen[n].source>> \in emitted
      BY <1>4, <2>2, <3>2, <3>3 DEF HistoryInv, BurstsAreDetected
    <3> QED BY <1>1, <3>1, <3>4
  <2>3. CASE n = Len(seen) + 1
    <3> DEFINE W == FailuresBefore(e)
               U == W \cap Above(store1.worst)
               ev == store1.events
    <3>1. past = seen' /\ seen'[n] = e
      BY <1>1, <1>2, <2>3
    <3>2. F = Of(W, seen')
      BY <1>1, <3>1, FailuresAre
    <3>3. Of(U, seen') = F
      <4>1. \A i \in F : seen'[i] \in Above(store1.worst)
        <5> SUFFICES ASSUME NEW i \in F PROVE seen'[i] \in Above(store1.worst)
          OBVIOUS
        <5>1. seen'[i].severity > worst' /\ i \in DOMAIN seen'
          BY <2>1, <3>2 DEF Of
        <5> QED BY <1>1, <1>2, <1>3, <5>1 DEF Above
      <4> QED BY <3>2, <4>1 DEF Of
    <3>4. ev \in Seq(Event)
      BY <1>1 DEF StoreOK
    <3>5. Embeds(U, seen', ev)
      <4>1. Embeds(Above(store1.worst), seen', ev) /\ U \subseteq Above(store1.worst)
        BY <1>1 DEF Kept
      <4>2. Embeds(U, ev, ev)
        BY <3>4, EmbedsInExtension
      <4> HIDE DEF U
      <4> QED BY <4>1, <4>2, EmbedsTrans
    <3>6. Cardinality(F) <= Cardinality(Of(U, ev)) /\ Cardinality(Of(U, ev)) \in Nat
          /\ Cardinality(F) \in Nat
      BY <1>1, <3>3, <3>4, <3>5, EmbedsCounts
    <3>7. Cardinality(Of(U, ev)) <= Cardinality(Of(W, ev)) /\ Cardinality(Of(W, ev)) \in Nat
      <4>1. Embeds(W, ev, ev)
        BY <3>4, EmbedsInExtension
      <4>2. IsFiniteSet(Of(W, ev))
        BY <3>4, <4>1, EmbedsCounts
      <4>3. Of(U, ev) \subseteq Of(W, ev)
        BY DEF Of
      <4> QED BY <4>2, <4>3, FS_Subset, FS_CardinalityType
    <3>8. FailedAuth(ev, e) = Of(W, ev)
      BY <3>4, FailuresAre
    <3> HIDE DEF F, W, U, ev
    <3>9. Cardinality(FailedAuth(ev, e)) >= FailedAuthThreshold
      BY <2>1, <3>6, <3>7, <3>8
    <3>10. IsBurst(ev, e)
      BY <3>9 DEF IsBurst
    <3> QED BY <1>1, <3>1, <3>10 DEF ev
  <2> QED BY <1>2, <2>2, <2>3
<1>5. BurstsAreDetected'
  BY <1>4 DEF BurstsAreDetected
<1> QED BY <1>1, <1>5 DEF HistoryInv

\* Everything observed that is more severe than the worst loss is still stored, occurrence
\* by occurrence; everything stored that is no alert was observed; and no burst is missed
\* but for a loss as severe as one of its failures.
THEOREM HistoryInvariant == Spec => []HistoryInv
<1>1. Init => HistoryInv
  <2> SUFFICES ASSUME Init PROVE HistoryInv
    OBVIOUS
  <2>1. seen = <<>> /\ events = <<>>
    BY DEF Init
  <2>2. \A V : Embeds(V, <<>>, <<>>)
    <3> SUFFICES ASSUME NEW V PROVE Embeds(V, <<>>, <<>>)
      OBVIOUS
    <3>1. Of(V, <<>>) = {}
      BY DEF Of
    <3>2. [i \in {} |-> i] \in [Of(V, <<>>) -> DOMAIN <<>>]
      BY <3>1
    <3> QED BY <3>1, <3>2 DEF Embeds
  <2>3. BurstsAreDetected
    BY <2>1 DEF BurstsAreDetected
  <2> QED BY <2>1, <2>2, <2>3 DEF HistoryInv
<1>2. PipelineInv /\ HistoryInv /\ [Next]_vars => HistoryInv'
  <2> SUFFICES ASSUME PipelineInv, HistoryInv, [Next]_vars PROVE HistoryInv'
    OBVIOUS
  <2>1. CASE UNCHANGED vars
    BY <2>1 DEF vars, HistoryInv, BurstsAreDetected, BurstAt, Above
  <2>2. ASSUME NEW o \in Observations, NEW source \in Sources, NEW t \in 0..MaxTime,
               Process([timestamp |-> t, source |-> source, type |-> o.type,
                        severity |-> o.severity])
        PROVE  HistoryInv'
    <3>1. [timestamp |-> t, source |-> source, type |-> o.type, severity |-> o.severity]
            \in Event
      BY DEF Event
    <3> QED BY <2>2, <3>1, BurstStep
  <2> QED BY <2>1, <2>2 DEF Next, Quiet
<1> QED BY <1>1, <1>2, PipelineInvariant, PTL DEF Spec

\* Failures that make a burst are alerted in the call that makes it, for every capacity,
\* window and threshold, unless the store gave up an event as severe as one of them.
THEOREM BurstsAlwaysDetected == Spec => []BurstsAreDetected
<1>1. HistoryInv => BurstsAreDetected
  BY DEF HistoryInv
<1> QED BY <1>1, HistoryInvariant, PTL

-----------------------------------------------------------------------------
(***************************************************************************)
(* What an alert rests on                                                  *)
(***************************************************************************)
\* What is added to a sequence, told from what was there.
LEMMA OnlyTheAdded ==
  ASSUME NEW r \in Seq(Event), NEW x \in Seq(Event), NEW y \in Seq(Event)
  PROVE  \A k \in (Len(r) + 1)..Len(r \o x \o y) :
           \/ \E i \in DOMAIN x : (r \o x \o y)[k] = x[i]
           \/ \E i \in DOMAIN y : (r \o x \o y)[k] = y[i]
<1> DEFINE s == r \o x
           t == s \o y
<1>1. /\ Len(r) \in Nat /\ Len(x) \in Nat /\ Len(y) \in Nat
      /\ DOMAIN x = 1..Len(x) /\ DOMAIN y = 1..Len(y)
  OBVIOUS
<1>2. /\ s \in Seq(Event) /\ Len(s) = Len(r) + Len(x)
      /\ \A i \in 1..(Len(r) + Len(x)) : s[i] = IF i <= Len(r) THEN r[i] ELSE x[i - Len(r)]
  BY ConcatProperties
<1> HIDE DEF s
<1>3. /\ Len(t) = Len(s) + Len(y)
      /\ \A i \in 1..(Len(s) + Len(y)) : t[i] = IF i <= Len(s) THEN s[i] ELSE y[i - Len(s)]
  BY <1>2, ConcatProperties
<1> HIDE DEF t
<1>4. ASSUME NEW k \in (Len(r) + 1)..Len(t)
      PROVE  (\E i \in DOMAIN x : t[k] = x[i]) \/ (\E i \in DOMAIN y : t[k] = y[i])
  <2>1. CASE k <= Len(s)
    <3>1. k - Len(r) \in DOMAIN x /\ t[k] = x[k - Len(r)]
      BY <1>1, <1>2, <1>3, <1>4, <2>1
    <3> QED BY <3>1
  <2>2. CASE k > Len(s)
    <3>1. k - Len(s) \in DOMAIN y /\ t[k] = y[k - Len(s)]
      BY <1>1, <1>2, <1>3, <1>4, <2>2
    <3> QED BY <3>1
  <2> QED BY <1>1, <1>2, <2>1, <2>2
<1> QED BY <1>4 DEF s, t

\* A burst in what is stored is a burst in what was observed.
LEMMA BurstIsJustified ==
  ASSUME NEW e \in Event, NEW ev \in Seq(Event), NEW s \in Seq(Event),
         Embeds(NoAlerts, ev, s), IsBurst(ev, e)
  PROVE  /\ Burst(e).type = "AUTHENTICATION_FAILURE_BURST"
         /\ Cardinality(Failures(s, Burst(e))) >= FailedAuthThreshold
<1> DEFINE W == FailuresBefore(e)
<1>1. Embeds(W, ev, s)
  <2>1. Embeds(W, s, s) /\ W \subseteq NoAlerts
    BY EmbedsInExtension DEF FailuresBefore, NoAlerts
  <2> HIDE DEF W
  <2> QED BY <2>1, EmbedsTrans
<1>2. FailedAuth(ev, e) = Of(W, ev) /\ Failures(s, Burst(e)) = Of(W, s)
  BY FailuresAre
<1> HIDE DEF W
<1>3. /\ Cardinality(Of(W, ev)) <= Cardinality(Of(W, s))
      /\ Cardinality(Of(W, ev)) \in Nat /\ Cardinality(Of(W, s)) \in Nat
  BY <1>1, EmbedsCounts
<1>4. Cardinality(Of(W, ev)) >= FailedAuthThreshold
  BY <1>2 DEF IsBurst
<1>5. Cardinality(Of(W, s)) >= FailedAuthThreshold
  BY <1>3, <1>4
<1>6. Burst(e).type = "AUTHENTICATION_FAILURE_BURST"
  BY DEF Burst, Alert, Event
<1> QED BY <1>2, <1>5, <1>6

\* A replay and a source anomaly that are stored were both observed.
LEMMA IncidentIsJustified ==
  ASSUME NEW e \in Event, NEW ev \in Seq(Event), NEW s \in Seq(Event),
         Embeds(NoAlerts, ev, s), IsIncident(ev, e)
  PROVE  /\ Incident(e).type = "CORRELATED_REPLAY_SOURCE_INCIDENT"
         /\ \A type \in {"REPLAY_DETECTED", "SOURCE_ANOMALY"} :
              \E j \in DOMAIN s : Near(s[j], Incident(e)) /\ s[j].type = type
<1> DEFINE a == Incident(e)
<1>1. a.timestamp = e.timestamp /\ a.type = "CORRELATED_REPLAY_SOURCE_INCIDENT"
  BY DEF Incident, Alert, Event
<1>2. PICK f \in [Of(NoAlerts, ev) -> DOMAIN s] :
        \A i \in Of(NoAlerts, ev) : s[f[i]] = ev[i]
  BY DEF Embeds
<1> HIDE DEF a
<1>3. ASSUME NEW type \in {"REPLAY_DETECTED", "SOURCE_ANOMALY"}
      PROVE  \E j \in DOMAIN s : Near(s[j], a) /\ s[j].type = type
  <2>1. PICK i \in DOMAIN ev : /\ e.timestamp - CorrelationWindow <= ev[i].timestamp
                               /\ ev[i].timestamp <= e.timestamp /\ ev[i].type = type
    BY DEF IsIncident, Recent
  <2>2. ev[i] \in Event
    BY ElementOfSeq, LenProperties
  <2>3. i \in Of(NoAlerts, ev)
    BY <1>3, <2>1, <2>2 DEF Of, NoAlerts
  <2>4. f[i] \in DOMAIN s /\ s[f[i]] = ev[i]
    BY <1>2, <2>3
  <2>5. Near(s[f[i]], a)
    BY <1>1, <2>1, <2>4 DEF Near
  <2> QED BY <2>1, <2>4, <2>5
<1> QED BY <1>1, <1>3 DEF a

LEMMA ProcessJustifies ==
  ASSUME PipelineInv, HistoryInv, NEW e \in Event, Process(e),
         NEW k \in (Len(raised) + 1)..Len(raised')
  PROVE  LET a == raised'[k]
         IN  IF a.type = "AUTHENTICATION_FAILURE_BURST"
             THEN Cardinality(Failures(seen', a)) >= FailedAuthThreshold
             ELSE {"REPLAY_DETECTED", "SOURCE_ANOMALY"} \subseteq
                    {x.type : x \in {seen'[i] : i \in {j \in DOMAIN seen' : Near(seen'[j], a)}}}
<1>1. PICK store1 :
        /\ StoreOK(store1) /\ Genuine(store1, seen') /\ seen' \in Seq(Event)
        /\ \E isBurst, isIncident \in BOOLEAN :
             /\ isBurst => IsBurst(store1.events, e)
             /\ isIncident => IsIncident(store1.events, e)
             /\ raised' = raised \o (IF isBurst THEN <<Burst(e)>> ELSE <<>>)
                                 \o (IF isIncident THEN <<Incident(e)>> ELSE <<>>)
  BY ProcessFacts, Zenon
<1>2. PICK isBurst \in BOOLEAN, isIncident \in BOOLEAN :
        /\ isBurst => IsBurst(store1.events, e)
        /\ isIncident => IsIncident(store1.events, e)
        /\ raised' = raised \o (IF isBurst THEN <<Burst(e)>> ELSE <<>>)
                            \o (IF isIncident THEN <<Incident(e)>> ELSE <<>>)
  BY <1>1
<1>3. /\ raised \in Seq(Event) /\ Burst(e) \in Event /\ Incident(e) \in Event
  BY DEF PipelineInv, TypeOK, Burst, Incident, Alert, Event, Types, EventSeverity, High,
         Critical
<1>4. store1.events \in Seq(Event) /\ Embeds(NoAlerts, store1.events, seen')
  BY <1>1 DEF StoreOK, Genuine
<1>5. (isBurst /\ raised'[k] = Burst(e)) \/ (isIncident /\ raised'[k] = Incident(e))
  <2> DEFINE x == IF isBurst THEN <<Burst(e)>> ELSE <<>>
             y == IF isIncident THEN <<Incident(e)>> ELSE <<>>
  <2>1. /\ x \in Seq(Event) /\ y \in Seq(Event)
        /\ \A i \in DOMAIN x : isBurst /\ x[i] = Burst(e)
        /\ \A i \in DOMAIN y : isIncident /\ y[i] = Incident(e)
    BY <1>3
  <2>2. raised' = raised \o x \o y
    BY <1>2
  <2> HIDE DEF x, y
  <2> QED BY <1>3, <2>1, <2>2, OnlyTheAdded
<1>6. CASE isBurst /\ raised'[k] = Burst(e)
  <2>1. /\ Burst(e).type = "AUTHENTICATION_FAILURE_BURST"
        /\ Cardinality(Failures(seen', Burst(e))) >= FailedAuthThreshold
    BY <1>1, <1>2, <1>4, <1>6, BurstIsJustified
  <2> QED BY <1>6, <2>1
<1>7. CASE isIncident /\ raised'[k] = Incident(e)
  <2> DEFINE a == Incident(e)
  <2>1. /\ a.type = "CORRELATED_REPLAY_SOURCE_INCIDENT"
        /\ \A type \in {"REPLAY_DETECTED", "SOURCE_ANOMALY"} :
             \E j \in DOMAIN seen' : Near(seen'[j], a) /\ seen'[j].type = type
    BY <1>1, <1>2, <1>4, <1>7, IncidentIsJustified
  <2> HIDE DEF a
  <2>2. {"REPLAY_DETECTED", "SOURCE_ANOMALY"} \subseteq
          {x.type : x \in {seen'[i] : i \in {j \in DOMAIN seen' : Near(seen'[j], a)}}}
    BY <2>1
  <2>3. raised'[k] = a
    BY <1>7 DEF a
  <2> QED BY <2>1, <2>2, <2>3
<1> QED BY <1>5, <1>6, <1>7

\* Every alert has its reason in what was observed until then and within its window,
\* though the detector only looks at what the store still holds, its own alerts included.
THEOREM AlertsAlwaysJustified == Spec => AlertsAreJustified
<1> DEFINE Justified ==
      \A k \in (Len(raised) + 1)..Len(raised') :
        LET a == raised'[k]
        IN  IF a.type = "AUTHENTICATION_FAILURE_BURST"
            THEN Cardinality(Failures(seen', a)) >= FailedAuthThreshold
            ELSE {"REPLAY_DETECTED", "SOURCE_ANOMALY"} \subseteq
                   {e.type : e \in {seen'[i] : i \in {j \in DOMAIN seen' : Near(seen'[j], a)}}}
<1>1. PipelineInv /\ HistoryInv /\ [Next]_vars => [Justified]_vars
  <2> SUFFICES ASSUME PipelineInv, HistoryInv, Next, ~UNCHANGED vars PROVE Justified
    OBVIOUS
  <2>1. PICK o \in Observations, source \in Sources, t \in 0..MaxTime :
          Process([timestamp |-> t, source |-> source, type |-> o.type,
                   severity |-> o.severity])
    BY DEF Next, Quiet
  <2>2. [timestamp |-> t, source |-> source, type |-> o.type, severity |-> o.severity]
          \in Event
    BY DEF Event
  <2> QED BY <2>1, <2>2, ProcessJustifies
<1>2. [][Justified]_vars => AlertsAreJustified
  BY DEF AlertsAreJustified
<1> QED BY <1>1, <1>2, PipelineInvariant, HistoryInvariant, PTL DEF Spec
=============================================================================
