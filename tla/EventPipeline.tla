---------------------------- MODULE EventPipeline ----------------------------
(***************************************************************************)
(* AnomalyDetector over its bounded EventStore: an observed event is       *)
(* stored, correlated with the stored events of its time window, and the   *)
(* alerts it raises are stored too.                                        *)
(*                                                                         *)
(* What is reported, when and of whom is the caller's choice; timestamps   *)
(* may come out of order. An event is its time, source, type and severity. *)
(***************************************************************************)
EXTENDS Integers, Sequences, FiniteSets

CONSTANTS
  Sources,
  Observations,          \* the [type, severity] pairs callers report
  MaximumEvents,         \* maximum_events
  CorrelationWindow,     \* correlation_window_s
  FailedAuthThreshold,   \* failed_auth_threshold
  MaxTime, MaxObserved   \* model bounds: latest timestamp, number of observations

Types == {"AUTHENTICATION_FAILURE", "REPLAY_DETECTED", "SOURCE_ANOMALY", "NOISE",
          "AUTHENTICATION_FAILURE_BURST", "CORRELATED_REPLAY_SOURCE_INCIDENT"}
EventSeverity == {10, 20, 30, 40, 50}    \* INFO, LOW, MEDIUM, HIGH, CRITICAL
High == 40
Critical == 50

ASSUME PipelineAssumption ==
  /\ Observations \subseteq [type : Types, severity : EventSeverity]
  /\ MaximumEvents \in Nat \ {0} /\ CorrelationWindow \in Nat \ {0}
  /\ FailedAuthThreshold \in Nat /\ FailedAuthThreshold >= 2
  /\ MaxTime \in Nat /\ MaxObserved \in Nat

Event == [timestamp : Nat, source : Sources, type : Types, severity : EventSeverity]
Key   == {"AUTH_BURST", "REPLAY_SOURCE"} \X Sources

VARIABLES
  events,       \* _events
  dropped,      \* dropped_events
  emitted,      \* _emitted_alert_keys
  \* history, which the code does not keep
  worst,        \* highest severity of an event not stored any more; 0 when there is none
  seen,         \* every event handed to process()
  raised        \* every alert process() returned

vars == <<events, dropped, emitted, worst, seen, raised>>

TypeOK ==
  /\ events \in Seq(Event) /\ Len(events) <= MaximumEvents
  /\ dropped \in Nat /\ emitted \subseteq Key /\ worst \in EventSeverity \cup {0}
  /\ seen \in Seq(Event) /\ raised \in Seq(Event)

(***************************************************************************)
(* EventStore                                                              *)
(***************************************************************************)
\* mutant: the oldest event makes room
Oldest(s) == 1

\* The first event of the lowest severity.
Lowest(s) ==
  CHOOSE i \in DOMAIN s :
    /\ \A j \in DOMAIN s : s[i].severity <= s[j].severity
    /\ \A j \in DOMAIN s : j < i => s[i].severity < s[j].severity

Without(s, i) == SubSeq(s, 1, i - 1) \o SubSeq(s, i + 1, Len(s))

Worse(a, b) == IF a >= b THEN a ELSE b

\* mutant: an event that is refused is not counted
AddUncounted(store, e) ==
  LET s == store.events
      low == s[Lowest(s)].severity
  IN  IF Len(s) < MaximumEvents
      THEN [store EXCEPT !.events = Append(s, e)]
      ELSE IF e.severity > low
      THEN [events  |-> Append(Without(s, Lowest(s)), e),
            dropped |-> store.dropped + 1, worst |-> Worse(store.worst, low)]
      ELSE [store EXCEPT !.worst = Worse(store.worst, e.severity)]

\* A full store takes an event only in the place of a less severe one.
Add(store, e) ==
  LET s == store.events
      low == s[Lowest(s)].severity
  IN  IF Len(s) < MaximumEvents
      THEN [store EXCEPT !.events = Append(s, e)]
      ELSE IF e.severity > low
      THEN [events  |-> Append(Without(s, Lowest(s)), e),
            dropped |-> store.dropped + 1, worst |-> Worse(store.worst, low)]
      ELSE [store EXCEPT !.dropped = @ + 1, !.worst = Worse(store.worst, e.severity)]

AddAlert(store, isRaised, e) == IF isRaised THEN Add(store, e) ELSE store

(***************************************************************************)
(* AnomalyDetector                                                         *)
(***************************************************************************)
\* mutant: the window has no beginning
RecentSinceEver(s, now) == {i \in DOMAIN s : s[i].timestamp <= now}

Recent(s, now) ==
  {i \in DOMAIN s : now - CorrelationWindow <= s[i].timestamp /\ s[i].timestamp <= now}

FailedAuth(s, e) ==
  {i \in Recent(s, e.timestamp) :
     s[i].type = "AUTHENTICATION_FAILURE" /\ s[i].source = e.source}

\* mutant: one failure more than the threshold
IsBurstAbove(s, e) == Cardinality(FailedAuth(s, e)) > FailedAuthThreshold
IsBurst(s, e)      == Cardinality(FailedAuth(s, e)) >= FailedAuthThreshold

\* A replay and a source anomaly, of any sources.
IsIncident(s, e) ==
  \A type \in {"REPLAY_DETECTED", "SOURCE_ANOMALY"} :
    \E i \in Recent(s, e.timestamp) : s[i].type = type

Alert(e, type, severity) == [e EXCEPT !.type = type, !.severity = severity]
Burst(e)    == Alert(e, "AUTHENTICATION_FAILURE_BURST", High)
Incident(e) == Alert(e, "CORRELATED_REPLAY_SOURCE_INCIDENT", Critical)

\* Each key raises its alert once, whether the store keeps the alert or not.
Process(e) ==
  LET stored     == Add([events |-> events, dropped |-> dropped, worst |-> worst], e)
      isBurst    == IsBurst(stored.events, e) /\ <<"AUTH_BURST", e.source>> \notin emitted
      isIncident == /\ IsIncident(stored.events, e)
                    /\ <<"REPLAY_SOURCE", e.source>> \notin emitted
      store      == AddAlert(AddAlert(stored, isBurst, Burst(e)), isIncident, Incident(e))
  IN  /\ Len(seen) < MaxObserved
      /\ events' = store.events /\ dropped' = store.dropped /\ worst' = store.worst
      /\ emitted' = emitted
           \cup (IF isBurst THEN {<<"AUTH_BURST", e.source>>} ELSE {})
           \cup (IF isIncident THEN {<<"REPLAY_SOURCE", e.source>>} ELSE {})
      /\ raised' = raised \o (IF isBurst THEN <<Burst(e)>> ELSE <<>>)
                          \o (IF isIncident THEN <<Incident(e)>> ELSE <<>>)
      /\ seen' = Append(seen, e)

Init ==
  /\ events = <<>> /\ dropped = 0 /\ emitted = {}
  /\ worst = 0 /\ seen = <<>> /\ raised = <<>>

\* The bound on the observations is the model's, not the program's: then nothing happens.
Quiet == Len(seen) = MaxObserved /\ UNCHANGED vars

Next ==
  \/ \E o \in Observations, source \in Sources, t \in 0..MaxTime :
       Process([timestamp |-> t, source |-> source, type |-> o.type,
                severity |-> o.severity])
  \/ Quiet

Spec == Init /\ [][Next]_vars

(***************************************************************************)
(* Properties                                                              *)
(***************************************************************************)
\* Every event and every alert is in the store or counted as dropped, whichever of the
\* store's ways each took.
EverythingIsAccounted == Len(events) + dropped = Len(seen) + Len(raised)

\* A flood never pushes out what matters more: nothing that was refused or evicted, the
\* alerts included, was more severe than anything stored (EventStore's docstring).
SevereSurvives == \A i \in DOMAIN events : worst <= events[i].severity

\* Nothing is lost while there is room.
KeepsWhileRoom == Len(events) < MaximumEvents => dropped = 0 /\ worst = 0

\* What is inductive: the store's types, bound and accounts, and what it loses only when
\* it is full.
PipelineInv == TypeOK /\ EverythingIsAccounted /\ SevereSurvives /\ KeepsWhileRoom

Near(e, a) == a.timestamp - CorrelationWindow <= e.timestamp /\ e.timestamp <= a.timestamp

\* The failures of a's source among the observations s, within the window that ends at a.
Failures(s, a) ==
  {i \in DOMAIN s : /\ Near(s[i], a) /\ s[i].type = "AUTHENTICATION_FAILURE"
                    /\ s[i].source = a.source}

\* An alert has its reason in what was observed until then, within its time window.
AlertsAreJustified ==
  [][\A k \in (Len(raised) + 1)..Len(raised') :
       LET a == raised'[k]
       IN  IF a.type = "AUTHENTICATION_FAILURE_BURST"
           THEN Cardinality(Failures(seen', a)) >= FailedAuthThreshold
           ELSE {"REPLAY_DETECTED", "SOURCE_ANOMALY"} \subseteq
                  {e.type : e \in {seen'[i] : i \in {j \in DOMAIN seen' : Near(seen'[j], a)}}}]_vars

\* The failures that have made a burst when the n-th observation was processed.
BurstAt(n) ==
  LET failures == Failures(SubSeq(seen, 1, n), seen[n])
  IN  IF Cardinality(failures) >= FailedAuthThreshold THEN failures ELSE {}

\* Failures that make a burst are alerted as soon as the last of them is processed,
\* unless the store dropped an event as severe as one of them.
BurstsAreDetected ==
  \A n \in DOMAIN seen :
    (BurstAt(n) # {} /\ \A i \in BurstAt(n) : seen[i].severity > worst)
      => <<"AUTH_BURST", seen[n].source>> \in emitted
=============================================================================
