---------------------------- MODULE TimingMonitor ----------------------------
(***************************************************************************)
(* TimingMonitor: arrival intervals and timeouts of the periodic messages  *)
(* it is configured with. Its only times are the stamps of the messages    *)
(* and of the calls; here the calls carry the clock's time, a message its  *)
(* sender's, which may lie behind it (a delayed or reordered message) or   *)
(* ahead of it (a sender whose clock is fast).                             *)
(*                                                                         *)
(* A message it is not configured with, check_missing and the latency      *)
(* verdict change nothing.                                                 *)
(***************************************************************************)
EXTENDS Integers

CONSTANTS
  PeriodicIds,  \* expected_periods_s: the configured arbitration ids
  AllowedGap,   \* period * timeout_periods + timeout_margin_s, of each id
  MaxDelay,     \* how far a stamp may lie behind the arrival of its message
  MaxAhead,     \* how far it may lie ahead
  LastTick      \* bound on the clock (model bound)

ASSUME TimingAssumption ==
  /\ AllowedGap \in [PeriodicIds -> Nat \ {0}]
  /\ MaxDelay \in Nat /\ MaxAhead \in Nat /\ LastTick \in Nat

None == -1

VARIABLES
  now,
  monitoringStart,   \* _monitoring_start_s
  lastSeen,          \* _last_seen_s
  intervalDecision,  \* what the last record_message of each id answered
  arrived            \* history: when a message of each id last arrived, by the clock

timingVars == <<now, monitoringStart, lastSeen, intervalDecision, arrived>>

TimingActions == {"NONE", "ALERT", "DEGRADED"}

TimingTypeOK ==
  /\ now \in Nat
  /\ monitoringStart \in Nat \cup {None}
  /\ lastSeen \in [PeriodicIds -> Nat \cup {None}]
  /\ intervalDecision \in [PeriodicIds -> TimingActions]
  /\ arrived \in [PeriodicIds -> Nat \cup {None}]
  /\ \A id \in PeriodicIds : lastSeen[id] = None <=> arrived[id] = None

Start ==
  /\ monitoringStart' = now
  /\ UNCHANGED <<now, lastSeen, intervalDecision, arrived>>

\* mutant: one unit more than the timeout, and a stamp moved backward passes
DecideForward(id, stamp) ==
  IF lastSeen[id] # None /\ stamp > lastSeen[id] + AllowedGap[id] + 1
  THEN "DEGRADED" ELSE "NONE"

Decide(id, stamp) ==
  IF lastSeen[id] = None THEN "NONE"
  ELSE IF stamp < lastSeen[id] THEN "ALERT"
  ELSE IF stamp - lastSeen[id] > AllowedGap[id] THEN "DEGRADED"
  ELSE "NONE"

\* mutant: only a first message is remembered
RecordFirst(id, stamp) ==
  /\ lastSeen' = [lastSeen EXCEPT ![id] = IF @ = None THEN stamp ELSE @]
  /\ intervalDecision' = [intervalDecision EXCEPT ![id] = Decide(id, stamp)]
  /\ arrived' = [arrived EXCEPT ![id] = now]
  /\ UNCHANGED <<now, monitoringStart>>

\* The stamp is remembered whatever the decision, one that moves backward too.
RecordMessage(id, stamp) ==
  /\ lastSeen' = [lastSeen EXCEPT ![id] = stamp]
  /\ intervalDecision' = [intervalDecision EXCEPT ![id] = Decide(id, stamp)]
  /\ arrived' = [arrived EXCEPT ![id] = now]
  /\ UNCHANGED <<now, monitoringStart>>

\* mutant: a message counts as missing from the allowed gap doubled
MissingLate(id) ==
  LET reference == IF lastSeen[id] = None THEN monitoringStart ELSE lastSeen[id]
  IN  now - reference > 2 * AllowedGap[id]

\* check_missing(now) fails for id; it raises before the monitor is started.
Missing(id) ==
  LET reference == IF lastSeen[id] = None THEN monitoringStart ELSE lastSeen[id]
  IN  now - reference > AllowedGap[id]

Tick ==
  /\ now < LastTick
  /\ now' = now + 1
  /\ UNCHANGED <<monitoringStart, lastSeen, intervalDecision, arrived>>

TimingInit ==
  /\ now = 0 /\ monitoringStart = None
  /\ lastSeen = [id \in PeriodicIds |-> None] /\ arrived = [id \in PeriodicIds |-> None]
  /\ intervalDecision = [id \in PeriodicIds |-> "NONE"]

\* Stamps are not negative: record_message raises on those.
MessageStamps == {t \in (now - MaxDelay)..(now + MaxAhead) : t >= 0}

TimingNext ==
  \/ Start \/ Tick
  \/ \E id \in PeriodicIds, stamp \in MessageStamps : RecordMessage(id, stamp)
TimingSpec == TimingInit /\ [][TimingNext]_timingVars

(***************************************************************************)
(* Properties                                                              *)
(***************************************************************************)
Started == monitoringStart # None

\* Silence since the start of the monitor, or since the last message if that is later.
SilentFor(id) ==
  now - (IF arrived[id] > monitoringStart THEN arrived[id] ELSE monitoringStart)

\* A message that has not arrived for longer than its timeout is reported missing
\* (BMS-SEC-AVA-001), however the messages before it were delayed or reordered.
LossIsDetected ==
  \A id \in PeriodicIds : Started /\ SilentFor(id) > AllowedGap[id] => Missing(id)

\* Nothing is reported missing while its messages arrive with MaxDelay to spare, even
\* in an order that takes last_seen back.
PresentIsNotMissing ==
  \A id \in PeriodicIds :
    arrived[id] # None /\ now - arrived[id] <= AllowedGap[id] - MaxDelay => ~Missing(id)

\* A message that ends a silence longer than its timeout and the longest delay together
\* is reported on arrival, between two calls of check_missing too.
SilenceIsReportedOnArrival ==
  [][\A id \in PeriodicIds :
       (arrived[id] # None /\ arrived'[id] # arrived[id]
          /\ now - arrived[id] > AllowedGap[id] + MaxDelay)
       => intervalDecision'[id] = "DEGRADED"]_timingVars
=============================================================================
