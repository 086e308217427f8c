----------------------------- MODULE CommandGate -----------------------------
(***************************************************************************)
(* CommandValidator and the controllers that use it: a command is          *)
(* validated in one call and recorded as executed in another, and between  *)
(* the two other commands are validated and executed, time passes and the  *)
(* BMS changes its state. Validation itself changes nothing, and recording *)
(* compares nothing.                                                       *)
(*                                                                         *)
(* A controller executes or drops the command it has validated before it   *)
(* validates another. Nothing in the code says so: one that has several    *)
(* commands in hand is several controllers here, and controllers share     *)
(* sources as they like.                                                   *)
(*                                                                         *)
(* The requested power limit is abstracted to whether it is in range.      *)
(***************************************************************************)
EXTENDS Integers, Sequences

CONSTANTS
  Sources,
  Permissions,       \* permissions_by_source: known source -> set of commands
  MaxMessageAge,     \* max_message_age_s
  Controllers,       \* those that validate and execute
  Requests,          \* the requests controllers make
  MaxCounter, MaxTime, MaxExecuted   \* model bounds

CommandType == {"OPEN_CONTACTOR", "CLOSE_CONTACTOR", "ENABLE_CHARGE", "ENABLE_DISCHARGE",
                "SET_POWER_LIMIT", "CLEAR_FAULT", "ENTER_SERVICE", "RESET",
                "REQUEST_RECOVERY"}
BMSOperatingState == {"OFF", "PRECHARGE", "ACTIVE", "CHARGING", "FAULT", "SERVICE", "SAFE"}

CommandRequest == [type : CommandType, source : Sources, counter : 0..MaxCounter,
                   authenticated : BOOLEAN, timestamp : 0..MaxTime, inRange : BOOLEAN]

ASSUME GateAssumption ==
  /\ Requests \subseteq CommandRequest
  /\ DOMAIN Permissions \subseteq Sources
  /\ \A s \in DOMAIN Permissions : Permissions[s] \subseteq CommandType
  /\ MaxMessageAge \in Nat
  /\ MaxCounter \in Nat /\ MaxTime \in Nat /\ MaxExecuted \in Nat

None == -1

\* A command that was validated when so many had been executed.
Validated == [controller : Controllers, request : CommandRequest, since : Nat]
Executed == [request : CommandRequest, since : Nat]

VARIABLES
  now,
  operating, precharged,   \* what callers pass as state and precharge_complete
  lastCounter,             \* _last_counter_by_source
  allowed,                 \* validated commands their controllers have not executed yet
  \* history, which the code does not keep
  executed                 \* the executed commands, in order

vars == <<now, operating, precharged, lastCounter, allowed, executed>>

TypeOK ==
  /\ now \in 0..MaxTime
  /\ operating \in BMSOperatingState /\ precharged \in BOOLEAN
  /\ lastCounter \in [Sources -> 0..MaxCounter \cup {None}]
  /\ allowed \in SUBSET Validated
  /\ executed \in Seq(Executed)

(***************************************************************************)
(* validate                                                                *)
(***************************************************************************)
\* Not stamped ahead of the clock, and not older than allowed.
Fresh(r) == r.timestamp <= now /\ now - r.timestamp <= MaxMessageAge

Authorized(r) ==
  /\ r.authenticated
  /\ r.source \in DOMAIN Permissions /\ r.type \in Permissions[r.source]

\* mutant: the counter executed last is accepted again
NextOrSame(r) == r.counter >= lastCounter[r.source]

\* A source that has executed nothing may begin with any counter.
InOrder(r) == r.counter > lastCounter[r.source]

StatePermits(r) ==
  /\ operating = "SAFE" => r.type \in {"OPEN_CONTACTOR", "REQUEST_RECOVERY"}
  /\ r.type = "CLOSE_CONTACTOR" => operating = "PRECHARGE" /\ precharged
  /\ r.type \in {"ENABLE_CHARGE", "ENABLE_DISCHARGE"} => operating \notin {"FAULT", "SAFE"}
  /\ r.type = "CLEAR_FAULT" => operating = "FAULT"
  /\ r.type = "ENTER_SERVICE" => operating \in {"OFF", "FAULT"}

Passes(r) ==
  /\ Fresh(r) /\ Authorized(r) /\ InOrder(r) /\ StatePermits(r)
  /\ r.type = "SET_POWER_LIMIT" => r.inRange

Validate(c, r) ==
  /\ Len(executed) < MaxExecuted
  /\ \A a \in allowed : a.controller # c
  /\ Passes(r)
  /\ allowed' = allowed \cup {[controller |-> c, request |-> r, since |-> Len(executed)]}
  /\ UNCHANGED <<now, operating, precharged, lastCounter, executed>>

(***************************************************************************)
(* record_executed                                                         *)
(***************************************************************************)
\* The counter is taken over as it is, lower than the last one or not.
RecordExecuted(r) == lastCounter' = [lastCounter EXCEPT ![r.source] = r.counter]

Execute(a) ==
  /\ Len(executed) < MaxExecuted
  /\ a \in allowed
  /\ RecordExecuted(a.request)
  /\ allowed' = allowed \ {a}
  /\ executed' = Append(executed, [request |-> a.request, since |-> a.since])
  /\ UNCHANGED <<now, operating, precharged>>

\* The controller gives a validated command up: nothing is recorded.
Abandon(a) ==
  /\ a \in allowed
  /\ allowed' = allowed \ {a}
  /\ UNCHANGED <<now, operating, precharged, lastCounter, executed>>

\* The BMS changes its state, and finishes or loses its precharge.
ChangeState ==
  /\ operating' \in BMSOperatingState /\ precharged' \in BOOLEAN
  /\ UNCHANGED <<now, lastCounter, allowed, executed>>

Tick ==
  /\ now < MaxTime
  /\ now' = now + 1
  /\ UNCHANGED <<operating, precharged, lastCounter, allowed, executed>>

Init ==
  /\ now = 0 /\ operating = "OFF" /\ precharged = FALSE
  /\ lastCounter = [s \in Sources |-> None]
  /\ allowed = {} /\ executed = <<>>

Next ==
  \/ \E c \in Controllers, r \in Requests : Validate(c, r)
  \/ \E a \in allowed : Execute(a) \/ Abandon(a)
  \/ ChangeState \/ Tick

Spec == Init /\ [][Next]_vars

(***************************************************************************)
(* Properties                                                              *)
(***************************************************************************)
Source(i) == executed[i].request.source
Counter(i) == executed[i].request.counter

\* Among the commands i to j, one of i's source was executed after another one of it that
\* it was not compared with, because it had been validated before.
Overlap(i, j) ==
  \E m, k \in i..j :
    /\ m < k /\ Source(m) = Source(i) /\ Source(k) = Source(i)
    /\ executed[k].since < m

\* Whatever controllers validate and execute at once, a command is executed after one of
\* its source with the same or a higher counter only if two commands of the source
\* overlapped, these two or others executed between them (BMS-SEC-COM-001, BMS-SEC-CMD-001).
DisorderNeedsOverlap ==
  \A i, j \in DOMAIN executed :
    i < j /\ Source(i) = Source(j) /\ Counter(j) <= Counter(i) => Overlap(i, j)

\* No charge or discharge is enabled before precharge is complete (BMS-SEC-CMD-002).
EnableNeedsPrecharge ==
  [][\A a \in allowed' \ allowed :
       a.request.type \in {"ENABLE_CHARGE", "ENABLE_DISCHARGE"} /\ operating \in {"OFF", "PRECHARGE"}
         => precharged]_vars
=============================================================================
