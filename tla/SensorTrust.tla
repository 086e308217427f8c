----------------------------- MODULE SensorTrust -----------------------------
(***************************************************************************)
(* The trust decision on a sensor reading. A caller lets the validators it *)
(* requires check the reading; they read the authorization policy, the     *)
(* last counter and stamp of each source and the one history all sources   *)
(* share, and change nothing. In a later call the caller records the       *)
(* reading and updates the trusted SOC; recording compares nothing. In     *)
(* between, other callers check and record, readings of the same source    *)
(* too, and sources are revoked.                                           *)
(*                                                                         *)
(* A caller records or drops the reading it has checked before it checks   *)
(* the next. Nothing in the code says so: one that has several readings in *)
(* hand is several callers here. Which sources each of them handles is     *)
(* part of the setup, from one caller for all to all callers for each.     *)
(*                                                                         *)
(* Readings are lost, repeated and reordered: any of them may come at any  *)
(* time, with any stamp. Values are whole percents, volts, amperes,        *)
(* degrees and seconds. Stamps below zero, which every check refuses, are  *)
(* left out.                                                               *)
(***************************************************************************)
EXTENDS Integers, Sequences

CONSTANTS
  Sources,
  Known, Permitted,        \* known ids; those of them allowed the required action
  MaxCounter,              \* max_counter
  MaxSocRate, MaxVoltageRate, MaxTemperatureRate,   \* limits of change per second
  SocTolerance, PositiveMeansCharging,              \* direction of the current
  LowSoc, HighSoc, LowVoltage, HighVoltage,         \* thresholds of CrossSignalValidator
  Tolerance,               \* its tolerance for each redundant field
  Readings,                \* the readings that arrive
  Callers,                 \* those that check and record
  Setups,                  \* which validators callers require, and which sources each
                           \* of them handles
  InitiallyRevoked,
  InitialSoc,
  MaxTime, MaxAccepted     \* model bounds: latest stamp, readings recorded of each source

Checks == {"range", "source", "freshness", "plausibility", "cross"}
Fields == {"soc", "voltage", "current", "temperature"}

Reading == [source : Sources, counter : Int, authenticated : BOOLEAN,
            soc : Int, voltage : Int, current : Int, temperature : Int]

ASSUME SensorAssumption ==
  /\ Known \subseteq Sources /\ Permitted \subseteq Known
  /\ MaxCounter \in Nat \ {0}
  /\ MaxSocRate \in Nat \ {0} /\ MaxVoltageRate \in Nat \ {0} /\ MaxTemperatureRate \in Nat \ {0}
  /\ SocTolerance \in Nat /\ PositiveMeansCharging \in BOOLEAN
  /\ LowSoc \in Int /\ HighSoc \in Int /\ LowSoc < HighSoc
  /\ LowVoltage \in Int /\ HighVoltage \in Int /\ LowVoltage < HighVoltage
  /\ Tolerance \in [Fields -> Nat]
  /\ Readings \subseteq Reading
  /\ Setups \subseteq [required : SUBSET Checks, serves : [Callers -> SUBSET Sources]]
  /\ InitiallyRevoked \subseteq Known
  /\ InitialSoc \in Int
  /\ MaxTime \in Nat /\ MaxAccepted \in [Sources -> Nat]

None == -1
Stamps == 0..MaxTime
\* A reading a caller has checked when so many of its source had been recorded.
Checked == [caller : Callers, reading : Readings, stamp : Stamps \cup {None}, seen : Nat]
Entry == [counter : 0..MaxCounter, stamp : Stamps \cup {None}]
Recorded == [counter : 0..MaxCounter, stamp : Stamps \cup {None}, seen : Nat]

VARIABLES
  required, serves,        \* the setup, which does not change
  revoked,                 \* _revoked_source_ids
  lastCounter,             \* _last_counter_by_source
  lastTimestamp,           \* _last_timestamp_by_source
  previous,                \* SensorHistory: no reading, or the last one with its stamp
  trustedSoc,              \* TrustedBMSState._soc_percent
  passed,                  \* readings callers have checked and not recorded yet
  \* history, which the code does not keep
  accepted,                \* what ReplayValidator recorded of each source, in order
  trail,                   \* the SOC of every reading SensorHistory recorded, and its stamp
  late                     \* readings each caller recorded of each source since it was
                           \* revoked

vars == <<required, serves, revoked, lastCounter, lastTimestamp, previous, trustedSoc,
          passed, accepted, trail, late>>

TypeOK ==
  /\ [required |-> required, serves |-> serves] \in Setups
  /\ revoked \subseteq Known
  /\ lastCounter \in [Sources -> 0..MaxCounter \cup {None}]
  /\ lastTimestamp \in [Sources -> Stamps \cup {None}]
  /\ previous \in SUBSET [reading : Readings, stamp : Stamps]
  /\ trustedSoc \in Int
  /\ passed \in SUBSET Checked
  /\ accepted \in [Sources -> Seq(Recorded)]
  /\ trail \in SUBSET [soc : Int, stamp : Stamps]
  /\ late \in [Callers \X Sources -> Nat]

Abs(x) == IF x < 0 THEN -x ELSE x

(***************************************************************************)
(* The validators                                                          *)
(***************************************************************************)
\* BMSValidator
InRange(r) ==
  /\ r.soc \in 0..100 /\ r.voltage \in 0..1000
  /\ r.current \in -1000..1000 /\ r.temperature \in -40..85

IsAuthorized(s) == s \in Permitted \ revoked

\* mutant: the permission is looked at, and not the revocation
TrustedByPermission(r) == r.authenticated /\ r.source \in Permitted

\* SourceValidator: known, not revoked, authenticated and allowed to send sensor data.
SourceTrusted(r) ==
  r.source \in Known \ revoked /\ r.authenticated /\ IsAuthorized(r.source)

Successor(c) == IF c = MaxCounter THEN 0 ELSE c + 1

\* mutant: a duplicate is accepted
FreshOrDuplicate(r, t) ==
  LET last == lastCounter[r.source]
  IN  /\ r.counter \in 0..MaxCounter
      /\ last # None => r.counter \in {last, Successor(last)}
      /\ t # None /\ lastTimestamp[r.source] # None => t > lastTimestamp[r.source]

\* ReplayValidator: the next counter, and a stamp after the last, where there are both.
\* A duplicate, a lower counter and a jump are three reasons to fail; what is left is the
\* successor. A source that has recorded nothing may begin anywhere.
Fresh(r, t) ==
  LET last == lastCounter[r.source]
  IN  /\ r.counter \in 0..MaxCounter
      /\ last # None => r.counter = Successor(last)
      /\ t # None /\ lastTimestamp[r.source] # None => t > lastTimestamp[r.source]

\* The current flows in the direction of a change of the SOC that is more than noise.
DirectionAgrees(change, current) ==
  LET charging == IF PositiveMeansCharging THEN current ELSE -current
  IN  Abs(change) > SocTolerance => ~(change > 0 /\ charging < 0) /\ ~(change < 0 /\ charging > 0)

\* mutant: the time since the last reading is not looked at
PlausibleStep(r, t) ==
  /\ t # None
  /\ \A p \in previous : Abs(r.soc - p.reading.soc) <= MaxSocRate

\* PlausibilityValidator: against the last recorded reading, of whatever source it was.
Plausible(r, t) ==
  /\ t # None
  /\ \A p \in previous :
       LET elapsed == t - p.stamp
           change  == r.soc - p.reading.soc
       IN  /\ elapsed > 0
           /\ Abs(change) <= MaxSocRate * elapsed
           /\ DirectionAgrees(change, r.current)
           /\ Abs(r.voltage - p.reading.voltage) <= MaxVoltageRate * elapsed
           /\ Abs(r.temperature - p.reading.temperature) <= MaxTemperatureRate * elapsed

\* CrossSignalValidator: within one reading, between two sources, and both.
Consistent(r) ==
  /\ ~(r.soc <= LowSoc /\ r.voltage >= HighVoltage)
  /\ ~(r.soc >= HighSoc /\ r.voltage <= LowVoltage)

Agree(r, q) ==
  /\ r.source # q.source
  /\ \A f \in Fields : Abs(r[f] - q[f]) <= Tolerance[f]

CompletelyConsistent(r, q) == Consistent(r) /\ Consistent(q) /\ Agree(r, q)

Passes(r, t) ==
  /\ "range" \in required => InRange(r)
  /\ "source" \in required => SourceTrusted(r)
  /\ "freshness" \in required => Fresh(r, t)
  /\ "plausibility" \in required => Plausible(r, t)
  /\ "cross" \in required => \E q \in Readings : CompletelyConsistent(r, q)

Check(c, r, t) ==
  /\ Len(accepted[r.source]) < MaxAccepted[r.source]
  /\ r.source \in serves[c] /\ \A p \in passed : p.caller # c
  /\ Passes(r, t)
  /\ passed' = passed \cup {[caller |-> c, reading |-> r, stamp |-> t,
                             seen |-> Len(accepted[r.source])]}
  /\ UNCHANGED <<required, serves, revoked, lastCounter, lastTimestamp, previous,
                 trustedSoc, accepted, trail, late>>

(***************************************************************************)
(* Recording                                                               *)
(***************************************************************************)
\* mutant: the counter expected next is recorded
RecordNextCounter(p) ==
  LET s == p.reading.source
  IN  /\ lastCounter' = [lastCounter EXCEPT ![s] = p.reading.counter + 1]
      /\ lastTimestamp' = [lastTimestamp EXCEPT ![s] = IF p.stamp # None THEN p.stamp ELSE @]
      /\ accepted' = [accepted EXCEPT ![s] =
           Append(@, [counter |-> p.reading.counter, stamp |-> p.stamp, seen |-> p.seen])]

\* mutant: a reading without a stamp erases the last one
RecordStampAlways(p) ==
  LET s == p.reading.source
  IN  /\ lastCounter' = [lastCounter EXCEPT ![s] = p.reading.counter]
      /\ lastTimestamp' = [lastTimestamp EXCEPT ![s] = p.stamp]
      /\ accepted' = [accepted EXCEPT ![s] =
           Append(@, [counter |-> p.reading.counter, stamp |-> p.stamp, seen |-> p.seen])]

\* ReplayValidator.record_accepted_reading: the stamp only if there is one.
RecordFreshness(p) ==
  LET s == p.reading.source
  IN  /\ lastCounter' = [lastCounter EXCEPT ![s] = p.reading.counter]
      /\ lastTimestamp' = [lastTimestamp EXCEPT ![s] = IF p.stamp # None THEN p.stamp ELSE @]
      /\ accepted' = [accepted EXCEPT ![s] =
           Append(@, [counter |-> p.reading.counter, stamp |-> p.stamp, seen |-> p.seen])]

\* SensorHistory.record_accepted_reading
RecordHistory(r, t) ==
  /\ previous' = {[reading |-> r, stamp |-> t]}
  /\ trail' = trail \cup {[soc |-> r.soc, stamp |-> t]}

\* TrustedBMSState.update_soc raises, and keeps its value, outside 0..100.
UpdateSoc(soc) == trustedSoc' = IF soc \in 0..100 THEN soc ELSE trustedSoc

Record(p) ==
  LET r == p.reading
  IN  /\ p \in passed
      /\ passed' = passed \ {p}
      /\ IF "freshness" \in required THEN RecordFreshness(p)
         ELSE UNCHANGED <<lastCounter, lastTimestamp, accepted>>
      /\ IF "plausibility" \in required THEN RecordHistory(r, p.stamp)
         ELSE UNCHANGED <<previous, trail>>
      /\ UpdateSoc(r.soc)
      /\ late' = [late EXCEPT ![<<p.caller, r.source>>] =
                    IF "source" \in required /\ r.source \in revoked THEN @ + 1 ELSE @]
      /\ UNCHANGED <<required, serves, revoked>>

\* The caller gives a checked reading up: nothing is recorded.
Drop(p) ==
  /\ p \in passed
  /\ passed' = passed \ {p}
  /\ UNCHANGED <<required, serves, revoked, lastCounter, lastTimestamp, previous,
                 trustedSoc, accepted, trail, late>>

(***************************************************************************)
(* The policy: both raise for a source that is not known                   *)
(***************************************************************************)
ForgetLate(s) == [x \in Callers \X Sources |-> IF x[2] = s THEN 0 ELSE late[x]]

RevokeSource(s) ==
  /\ s \in Known
  /\ revoked' = revoked \cup {s}
  /\ late' = IF s \in revoked THEN late ELSE ForgetLate(s)
  /\ UNCHANGED <<required, serves, lastCounter, lastTimestamp, previous, trustedSoc,
                 passed, accepted, trail>>

RestoreSource(s) ==
  /\ s \in Known
  /\ revoked' = revoked \ {s}
  /\ late' = ForgetLate(s)
  /\ UNCHANGED <<required, serves, lastCounter, lastTimestamp, previous, trustedSoc,
                 passed, accepted, trail>>

Init ==
  /\ \E u \in Setups : required = u.required /\ serves = u.serves
  /\ revoked = InitiallyRevoked
  /\ lastCounter = [s \in Sources |-> None] /\ lastTimestamp = [s \in Sources |-> None]
  /\ previous = {} /\ trustedSoc = InitialSoc /\ passed = {}
  /\ accepted = [s \in Sources |-> <<>>] /\ trail = {} /\ late = [x \in Callers \X Sources |-> 0]

Next ==
  \/ \E c \in Callers, r \in Readings, t \in Stamps \cup {None} : Check(c, r, t)
  \/ \E p \in passed : Record(p) \/ Drop(p)
  \/ \E s \in Sources : RevokeSource(s) \/ RestoreSource(s)

Spec == Init /\ [][Next]_vars

(***************************************************************************)
(* Properties                                                              *)
(***************************************************************************)
\* One caller handles the source; one caller handles all there are.
Serial(s) == \A c, d \in Callers : s \in serves[c] /\ s \in serves[d] => c = d
OneCaller == \A c, d \in Callers : serves[c] # {} /\ serves[d] # {} => c = d

\* What is recorded of a source is fresh against what was recorded of it at the check, and
\* against all of it where one caller handles the source, however many callers check and
\* record at once, and whatever is lost, repeated or reordered (BMS-SEC-COM-001).
Stream == INSTANCE FreshStream WITH Entry <- Entry, serial <- {s \in Sources : Serial(s)}
ImplementsFreshStream == Stream!Spec

\* An entry was checked before the one it follows was recorded.
Overlaps(s, k) == accepted[s][k].seen < k - 1

\* A counter of a source is recorded again before a whole cycle of its others, or a stamp
\* after one as late, only if in between a reading of the source was checked before another
\* one was recorded; so not once where one caller handles the source.
RepeatNeedsOverlap ==
  \A s \in Sources : \A i, j \in DOMAIN accepted[s] :
    LET e == accepted[s][i]
        f == accepted[s][j]
    IN  /\ i < j
        /\ \/ j - i <= MaxCounter /\ e.counter = f.counter
           \/ e.stamp # None /\ f.stamp # None /\ e.stamp >= f.stamp
        => ~Serial(s) /\ \E k \in (i + 1)..j : Overlaps(s, k)

\* With one caller, the recorded SOC never moves faster than the limit over any period,
\* between any two readings, of one source or of two (BMS-SEC-SEN-002).
DriftIsBounded ==
  OneCaller =>
    \A e, f \in trail : e.stamp <= f.stamp =>
      /\ Abs(f.soc - e.soc) <= MaxSocRate * (f.stamp - e.stamp)
      /\ e # f => e.stamp < f.stamp

\* After the revocation of a source no caller records more than one reading of it, the one
\* that it had checked before (BMS-SEC-COM-002).
RevocationStops ==
  "source" \in required => \A s \in revoked, c \in Callers : late[<<c, s>>] <= 1
=============================================================================
