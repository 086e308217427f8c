-------------------------- MODULE AccessGates_proofs --------------------------
(***************************************************************************)
(* The three gates. CommandGate: types, and the order of execution under   *)
(* every interleaving of controllers. ConfigurationAudit: what the audit   *)
(* trail shows. NetworkAccess: the registers reached, and the count of     *)
(* denials. For every set of controllers, sources, permissions, requests,  *)
(* configurations, sessions, ranges and limits.                            *)
(***************************************************************************)
EXTENDS CommandGate, ConfigurationAudit, NetworkAccess, ProofLemmas, FiniteSetTheorems

(***************************************************************************)
(* Commands                                                                *)
(***************************************************************************)
USE GateAssumption DEF None

\* Each variable keeps its type.
THEOREM GateTypeCorrect == Spec => []TypeOK
<1>1. Init => TypeOK
  <2> SUFFICES ASSUME Init PROVE TypeOK
    OBVIOUS
  <2>1. now \in 0..MaxTime /\ lastCounter \in [Sources -> 0..MaxCounter \cup {None}]
    BY DEF Init
  <2>2. operating \in BMSOperatingState /\ allowed \in SUBSET Validated
    BY DEF Init, BMSOperatingState
  <2>3. precharged \in BOOLEAN
    BY Zenon DEF Init
  <2>4. executed \in Seq(Executed)
    BY DEF Init
  <2> QED BY <2>1, <2>2, <2>3, <2>4, Zenon DEF TypeOK
<1>2. TypeOK /\ [Next]_vars => TypeOK'
  <2> SUFFICES ASSUME TypeOK, [Next]_vars PROVE TypeOK'
    OBVIOUS
  <2> USE DEF TypeOK
  <2>1. ASSUME NEW c \in Controllers, NEW r \in Requests, Validate(c, r) PROVE TypeOK'
    <3>1. r \in CommandRequest /\ Len(executed) \in Nat
      OBVIOUS
    <3>2. [controller |-> c, request |-> r, since |-> Len(executed)] \in Validated
      BY <3>1 DEF Validated
    <3> QED BY <2>1, <3>2 DEF Validate
  <2>2. ASSUME NEW a \in allowed, Execute(a) PROVE TypeOK'
    <3>1. a.request \in CommandRequest /\ a.since \in Nat
      BY DEF Validated
    <3>2. a.request.counter \in 0..MaxCounter /\ a.request.source \in Sources
      BY <3>1 DEF CommandRequest
    <3>3. lastCounter' \in [Sources -> 0..MaxCounter \cup {None}]
      BY <2>2, <3>2 DEF Execute, RecordExecuted
    <3>4. [request |-> a.request, since |-> a.since] \in Executed
      BY <3>1 DEF Executed
    <3>5. executed' \in Seq(Executed)
      BY <2>2, <3>4 DEF Execute
    <3> QED BY <2>2, <3>3, <3>5 DEF Execute
  <2>3. ASSUME NEW a \in allowed, Abandon(a) PROVE TypeOK'
    BY <2>3 DEF Abandon
  <2>4. CASE ChangeState
    BY <2>4 DEF ChangeState
  <2>5. CASE Tick
    BY <2>5 DEF Tick
  <2>6. CASE UNCHANGED vars
    BY <2>6 DEF vars
  <2> QED BY <2>1, <2>2, <2>3, <2>4, <2>5, <2>6 DEF Next
<1> QED BY <1>1, <1>2, PTL DEF Spec

\* What is inductive. A source that has executed nothing since a command of it was validated
\* has left that command beyond its recorded counter. What it has executed lies up to that
\* counter, unless commands of it have overlapped since.
CounterInv ==
  /\ \A a \in allowed :
       /\ a.since <= Len(executed)
       /\ (\A m \in DOMAIN executed : a.since < m => Source(m) # a.request.source)
            => a.request.counter > lastCounter[a.request.source]
  /\ \A i \in DOMAIN executed :
       \A n \in Nat : n = Len(executed) => Counter(i) <= lastCounter[Source(i)] \/ Overlap(i, n)

\* The types of one entry, and what executing one more leaves of the others.
LEMMA ExecutedType ==
  ASSUME TypeOK, NEW i \in DOMAIN executed
  PROVE  /\ Source(i) \in Sources /\ Counter(i) \in Int /\ executed[i].since \in Int
         /\ i \in 1..Len(executed) /\ Len(executed) \in Nat
<1>1. executed \in Seq(Executed) /\ executed[i] \in Executed
  BY DEF TypeOK
<1>2. executed[i].request \in CommandRequest /\ executed[i].since \in Nat
  BY <1>1 DEF Executed
<1>3. Source(i) \in Sources /\ Counter(i) \in 0..MaxCounter
  BY <1>2 DEF Source, Counter, CommandRequest
<1> QED BY <1>1, <1>2, <1>3

\* An overlap stays one in a longer range, and when more is executed.
LEMMA OverlapStays ==
  ASSUME TypeOK, NEW i \in Int, NEW j \in Int, NEW n \in Int,
         1 <= i, i <= j, j <= n, j <= Len(executed),
         \A k \in DOMAIN executed : executed'[k] = executed[k],
         Overlap(i, j)
  PROVE  Overlap(i, n)'
<1>1. PICK m \in i..j, k \in i..j :
        m < k /\ Source(m) = Source(i) /\ Source(k) = Source(i) /\ executed[k].since < m
  BY DEF Overlap
<1>2. m \in DOMAIN executed /\ k \in DOMAIN executed /\ i \in DOMAIN executed
  <2>1. DOMAIN executed = 1..Len(executed) /\ Len(executed) \in Nat
    BY DEF TypeOK
  <2> QED BY <2>1
<1>3. m \in i..n /\ k \in i..n
  OBVIOUS
<1>4. executed'[m] = executed[m] /\ executed'[k] = executed[k] /\ executed'[i] = executed[i]
  BY <1>2
<1> QED BY <1>1, <1>3, <1>4 DEF Overlap, Source

LEMMA ExecuteStep ==
  ASSUME TypeOK, CounterInv, DisorderNeedsOverlap, NEW a \in allowed, Execute(a),
         NEW n \in Nat, n = Len(executed)
  PROVE  CounterInv' /\ DisorderNeedsOverlap'
<1> DEFINE s == a.request.source
           c == a.request.counter
<1>1. /\ n \in Nat /\ DOMAIN executed = 1..n /\ executed \in Seq(Executed)
      /\ a.request \in CommandRequest /\ a.since \in Nat /\ s \in Sources /\ c \in Int
      /\ lastCounter \in [Sources -> Int]
  <2>1. a.request \in CommandRequest /\ a.since \in Nat
    BY DEF TypeOK, Validated
  <2> QED BY <2>1 DEF TypeOK, CommandRequest
<1>2. /\ lastCounter' = [lastCounter EXCEPT ![s] = c]
      /\ allowed' = allowed \ {a}
      /\ executed' = Append(executed, [request |-> a.request, since |-> a.since])
  BY DEF Execute, RecordExecuted
<1>3. [request |-> a.request, since |-> a.since] \in Executed
  BY <1>1 DEF Executed
<1>4. /\ Len(executed') = n + 1 /\ executed'[n + 1] = [request |-> a.request, since |-> a.since]
      /\ \A i \in DOMAIN executed : executed'[i] = executed[i]
      /\ DOMAIN executed' = 1..(n + 1)
  BY <1>1, <1>2, <1>3, AppendFacts
<1>5. Source(n + 1)' = s /\ Counter(n + 1)' = c /\ executed'[n + 1].since = a.since
  BY <1>4 DEF Source, Counter
<1>6. \A i \in 1..n : Source(i)' = Source(i) /\ Counter(i)' = Counter(i)
  BY <1>1, <1>4 DEF Source, Counter
<1>7. lastCounter'[s] = c /\ \A q \in Sources : q # s => lastCounter'[q] = lastCounter[q]
  BY <1>1, <1>2
<1>8. \A i \in 1..n : Source(i) \in Sources /\ Counter(i) \in Int
  BY <1>1, ExecutedType
<1> HIDE DEF s, c
<1>9. ASSUME NEW i \in 1..n, Source(i) = s, c <= Counter(i) PROVE Overlap(i, n + 1)'
  <2>1. CASE \E m \in 1..n : a.since < m /\ Source(m) = s
    <3>1. PICK m \in 1..n : a.since < m /\ Source(m) = s
      BY <2>1
    <3>2. CASE i <= m
      <4>1. m \in i..(n + 1) /\ n + 1 \in i..(n + 1) /\ m < n + 1
        BY <1>1, <3>2
      <4> QED BY <4>1, <3>1, <1>5, <1>6, <1>9 DEF Overlap
    <3>3. CASE m < i
      <4>1. i \in i..(n + 1) /\ n + 1 \in i..(n + 1) /\ i < n + 1 /\ a.since < i
        BY <1>1, <3>1, <3>3
      <4> QED BY <4>1, <1>5, <1>6, <1>9 DEF Overlap
    <3> QED BY <3>2, <3>3
  <2>2. CASE \A m \in 1..n : a.since < m => Source(m) # s
    <3>1. c > lastCounter[s]
      BY <1>1, <2>2 DEF CounterInv, s, c
    <3>2. Counter(i) <= lastCounter[s] \/ Overlap(i, n)
      BY <1>1, <1>9 DEF CounterInv
    <3>3. Overlap(i, n)
      BY <1>1, <1>8, <1>9, <3>1, <3>2
    <3>4. 1 <= i /\ i <= n /\ n <= n + 1 /\ n <= Len(executed) /\ i \in Int /\ n \in Int /\ n + 1 \in Int
      BY <1>1
    <3> QED BY <3>3, <3>4, <1>4, OverlapStays
  <2> QED BY <2>1, <2>2
<1>10. ASSUME NEW b \in allowed'
       PROVE  /\ b.since <= Len(executed)'
              /\ (\A m \in DOMAIN executed' : b.since < m => Source(m)' # b.request.source)
                   => b.request.counter > lastCounter'[b.request.source]
  <2>1. b \in allowed /\ b.since \in Nat /\ b.request.source \in Sources
    BY <1>2 DEF TypeOK, Validated, CommandRequest
  <2>2. b.since <= n /\ b.since < n + 1
    BY <1>1, <2>1 DEF CounterInv
  <2>3. ASSUME \A m \in DOMAIN executed' : b.since < m => Source(m)' # b.request.source
        PROVE  b.request.counter > lastCounter'[b.request.source]
    <3>1. s # b.request.source
      BY <1>1, <1>4, <1>5, <2>2, <2>3
    <3>2. \A m \in 1..n : b.since < m => Source(m) # b.request.source
      BY <1>1, <1>4, <1>6, <2>3
    <3>3. b.request.counter > lastCounter[b.request.source]
      BY <1>1, <2>1, <3>2 DEF CounterInv
    <3> QED BY <1>7, <2>1, <3>1, <3>3
  <2> QED BY <1>1, <1>4, <2>1, <2>2, <2>3
<1>11. ASSUME NEW i \in DOMAIN executed'
       PROVE  Counter(i)' <= lastCounter'[Source(i)'] \/ Overlap(i, n + 1)'
  <2>1. CASE i = n + 1
    BY <1>1, <1>5, <1>7, <2>1
  <2>2. CASE i \in 1..n /\ Source(i) = s
    <3>1. CASE c < Counter(i)
      BY <1>1, <1>4, <1>6, <1>8, <1>9, <2>2, <3>1
    <3>2. CASE Counter(i) <= c
      BY <1>6, <1>7, <2>2, <3>2
    <3> QED BY <1>1, <1>8, <2>2, <3>1, <3>2
  <2>3. CASE i \in 1..n /\ Source(i) # s
    <3>1. Counter(i) <= lastCounter[Source(i)] \/ Overlap(i, n)
      BY <1>1, <2>3 DEF CounterInv
    <3>2. CASE Counter(i) <= lastCounter[Source(i)]
      BY <1>6, <1>7, <1>8, <2>3, <3>2
    <3>3. CASE Overlap(i, n)
      <4>1. 1 <= i /\ i <= n /\ n <= n + 1 /\ n <= Len(executed) /\ i \in Int /\ n \in Int /\ n + 1 \in Int
        BY <1>1, <2>3
      <4>2. Overlap(i, n + 1)'
        BY <3>3, <4>1, <1>4, OverlapStays
      <4> QED BY <4>2, <1>4, <1>6, <2>3
    <3> QED BY <3>1, <3>2, <3>3
  <2> QED BY <1>1, <1>4, <2>1, <2>2, <2>3
<1>12. ASSUME NEW i \in DOMAIN executed', NEW j \in DOMAIN executed', i < j,
              Source(i)' = Source(j)', Counter(j)' <= Counter(i)'
       PROVE  Overlap(i, j)'
  <2>1. i \in 1..n
    BY <1>1, <1>4, <1>12
  <2>2. CASE j = n + 1
    BY <1>5, <1>6, <1>9, <1>12, <2>1, <2>2
  <2>3. CASE j \in 1..n
    <3>1. Overlap(i, j)
      BY <1>1, <1>6, <1>12, <2>1, <2>3 DEF DisorderNeedsOverlap
    <3>2. 1 <= i /\ i <= j /\ j <= j /\ j <= Len(executed) /\ i \in Int /\ j \in Int
      BY <1>1, <1>12, <2>1, <2>3
    <3>3. Overlap(i, j)'
      BY <3>1, <3>2, <1>4, OverlapStays
    <3> QED BY <3>3, <1>6, <2>1
  <2> QED BY <1>1, <1>4, <2>2, <2>3
<1> QED BY <1>1, <1>4, <1>10, <1>11, <1>12 DEF CounterInv, DisorderNeedsOverlap

LEMMA CounterStep ==
  TypeOK /\ CounterInv /\ DisorderNeedsOverlap /\ [Next]_vars => CounterInv' /\ DisorderNeedsOverlap'
<1> SUFFICES ASSUME TypeOK, CounterInv, DisorderNeedsOverlap, [Next]_vars
             PROVE  CounterInv' /\ DisorderNeedsOverlap'
  OBVIOUS
<1>1. ASSUME NEW c \in Controllers, NEW r \in Requests, Validate(c, r)
      PROVE  CounterInv' /\ DisorderNeedsOverlap'
  <2> DEFINE b == [controller |-> c, request |-> r, since |-> Len(executed)]
  <2>1. r.counter > lastCounter[r.source]
    BY <1>1 DEF Validate, Passes, InOrder
  <2>2. allowed' = allowed \cup {b} /\ UNCHANGED <<lastCounter, executed>>
    BY <1>1 DEF Validate
  <2>3. Len(executed) \in Nat
    BY DEF TypeOK
  <2>4. ASSUME NEW a \in allowed'
        PROVE  /\ a.since <= Len(executed)
               /\ (\A m \in DOMAIN executed : a.since < m => Source(m) # a.request.source)
                    => a.request.counter > lastCounter[a.request.source]
    <3>1. CASE a = b
      BY <2>1, <2>3, <3>1
    <3>2. CASE a \in allowed
      BY <3>2 DEF CounterInv
    <3> QED BY <2>2, <3>1, <3>2
  <2> QED BY <2>2, <2>4 DEF CounterInv, DisorderNeedsOverlap, Overlap, Source, Counter
<1>2. ASSUME NEW a \in allowed, Execute(a) PROVE CounterInv' /\ DisorderNeedsOverlap'
  <2>1. PICK n \in Nat : n = Len(executed)
    BY DEF TypeOK
  <2> QED BY <1>2, <2>1, ExecuteStep
<1>3. ASSUME NEW a \in allowed, Abandon(a) PROVE CounterInv' /\ DisorderNeedsOverlap'
  <2>1. allowed' \subseteq allowed /\ UNCHANGED <<lastCounter, executed>>
    BY <1>3 DEF Abandon
  <2> QED BY <2>1 DEF CounterInv, DisorderNeedsOverlap, Overlap, Source, Counter
<1>4. CASE UNCHANGED <<lastCounter, allowed, executed>>
  BY <1>4 DEF CounterInv, DisorderNeedsOverlap, Overlap, Source, Counter
<1> QED BY <1>1, <1>2, <1>3, <1>4 DEF Next, ChangeState, Tick, vars

\* No command comes after one of its source that it should precede, or is it, unless commands
\* of that source overlapped between their validation and their execution, for any number of
\* controllers that share the validator in any way.
THEOREM CommandsAreOrdered == Spec => []DisorderNeedsOverlap
<1>1. Init => CounterInv /\ DisorderNeedsOverlap
  BY DEF Init, CounterInv, DisorderNeedsOverlap
<1> QED BY <1>1, CounterStep, GateTypeCorrect, PTL DEF Spec

(***************************************************************************)
(* Configurations                                                          *)
(***************************************************************************)
AuditEvent == [previous : Configurations, new : Configurations]

\* Every event rises by itself; over unbroken links the versions rise from any event to any
\* later one.
AuditInv ==
  /\ auditEvents \in Seq(AuditEvent)
  /\ \A i \in DOMAIN auditEvents : Upgrades(auditEvents[i].previous, auditEvents[i].new)
  /\ RollbackBreaksTheChain

LEMMA AuditStep == AuditInv /\ [ConfigurationNext]_auditEvents => AuditInv'
<1> SUFFICES ASSUME AuditInv, [ConfigurationNext]_auditEvents PROVE AuditInv'
  OBVIOUS
<1>1. CASE UNCHANGED auditEvents
  BY <1>1 DEF AuditInv, RollbackBreaksTheChain, Linked
<1>2. ASSUME NEW previous \in Configurations, NEW proposed \in Configurations,
             ApplyAuthorizedUpgrade(previous, proposed)
      PROVE  AuditInv'
  <2> DEFINE q == auditEvents
             n == Len(q)
             e == [previous |-> previous, new |-> proposed]
  <2>1. /\ auditEvents' = Append(q, e) /\ e \in AuditEvent /\ q \in Seq(AuditEvent)
        /\ Upgrades(e.previous, e.new)
    BY <1>2 DEF ApplyAuthorizedUpgrade, AuditInv, AuditEvent
  <2>2. /\ n \in Nat /\ DOMAIN q = 1..n /\ DOMAIN auditEvents' = DOMAIN q \cup {n + 1}
        /\ auditEvents'[n + 1] = e /\ \A i \in DOMAIN q : auditEvents'[i] = q[i]
    BY <2>1, AppendFacts
  <2>3. auditEvents' \in Seq(AuditEvent)
    BY <2>1
  <2>4. ASSUME NEW i \in DOMAIN auditEvents'
        PROVE  Upgrades(auditEvents'[i].previous, auditEvents'[i].new)
    <3>1. CASE i \in DOMAIN q
      BY <3>1, <2>2 DEF AuditInv
    <3>2. CASE i = n + 1
      BY <3>2, <2>1, <2>2
    <3> QED BY <3>1, <3>2, <2>2
  <2>5. \A i \in DOMAIN auditEvents' : auditEvents'[i].new.version \in Int
    <3> SUFFICES ASSUME NEW i \in DOMAIN auditEvents' PROVE auditEvents'[i].new.version \in Int
      OBVIOUS
    <3>1. auditEvents'[i] \in AuditEvent
      BY <2>3
    <3>2. auditEvents'[i].new \in Configurations
      BY <3>1 DEF AuditEvent
    <3> QED BY <3>2, ConfigurationAssumption DEF ConfigurationAssumption
  <2>6. ASSUME NEW i \in DOMAIN auditEvents', NEW j \in DOMAIN auditEvents', i < j,
               \A k \in (i + 1)..j : auditEvents'[k].previous = auditEvents'[k - 1].new
        PROVE  auditEvents'[i].new.version < auditEvents'[j].new.version
    <3>1. i \in Int /\ j \in Int /\ i \in DOMAIN q
      <4>1. i \in 1..n \cup {n + 1} /\ j \in 1..n \cup {n + 1}
        BY <2>2
      <4> HIDE DEF n
      <4> QED BY <4>1, <2>2, <2>6
    <3>2. CASE j \in DOMAIN q
      <4>1. \A k \in (i + 1)..j : q[k].previous = q[k - 1].new
        <5> SUFFICES ASSUME NEW k \in (i + 1)..j PROVE q[k].previous = q[k - 1].new
          OBVIOUS
        <5>1. k \in DOMAIN q /\ k - 1 \in DOMAIN q
          BY <2>2, <3>1, <3>2
        <5> QED BY <5>1, <2>2, <2>6
      <4>2. ~(q[j].new.version <= q[i].new.version)
        BY <4>1, <3>1, <3>2, <2>6 DEF AuditInv, RollbackBreaksTheChain, Linked
      <4>3. auditEvents'[i] = q[i] /\ auditEvents'[j] = q[j]
        BY <2>2, <3>1, <3>2
      <4> QED BY <4>2, <4>3, <2>5
    <3>3. CASE j = n + 1
      <4>1. n \in DOMAIN q /\ i <= n /\ e.previous = q[n].new
        <5>1. n \in DOMAIN q /\ i <= n /\ j \in (i + 1)..j /\ j - 1 = n
          BY <2>2, <3>1, <3>3, <2>6
        <5>2. auditEvents'[j].previous = auditEvents'[j - 1].new
          BY <5>1, <2>6
        <5> QED BY <5>1, <5>2, <2>2, <3>3
      <4>2. auditEvents'[n] = q[n] /\ auditEvents'[i] = q[i] /\ auditEvents'[j] = e
        BY <2>2, <3>1, <3>3, <4>1
      <4>3. q[n].new.version < e.new.version /\ q[n].new.version \in Int
            /\ e.new.version \in Int /\ q[i].new.version \in Int
        BY <2>1, <2>2, <2>5, <3>1, <3>3, <4>1, <4>2 DEF Upgrades
      <4>4. CASE i = n
        BY <4>2, <4>3, <4>4
      <4>5. CASE i < n
        <5>1. \A k \in (i + 1)..n : q[k].previous = q[k - 1].new
          <6> SUFFICES ASSUME NEW k \in (i + 1)..n PROVE q[k].previous = q[k - 1].new
            OBVIOUS
          <6>1. k \in DOMAIN q /\ k - 1 \in DOMAIN q /\ k \in (i + 1)..j
            BY <2>2, <3>1, <3>3
          <6> QED BY <6>1, <2>2, <2>6
        <5>2. ~(q[n].new.version <= q[i].new.version)
          BY <5>1, <3>1, <4>1, <4>5 DEF AuditInv, RollbackBreaksTheChain, Linked
        <5>3. q[i].new.version < e.new.version
          BY <5>2, <4>3
        <5> QED BY <5>3, <4>2
      <4> QED BY <2>2, <3>1, <4>1, <4>4, <4>5
    <3> QED BY <2>2, <3>2, <3>3
  <2>7. RollbackBreaksTheChain'
    <3> SUFFICES ASSUME NEW i \in DOMAIN auditEvents', NEW j \in DOMAIN auditEvents', i < j,
                        auditEvents'[j].new.version <= auditEvents'[i].new.version,
                        \A k \in (i + 1)..j : auditEvents'[k].previous = auditEvents'[k - 1].new
                 PROVE  FALSE
      BY DEF RollbackBreaksTheChain, Linked
    <3> QED BY <2>5, <2>6
  <2> QED BY <2>3, <2>4, <2>7 DEF AuditInv, Upgrades
<1> QED BY <1>1, <1>2 DEF ConfigurationNext

LEMMA AuditInvCorrect == ConfigurationSpec => []AuditInv
<1>1. ConfigurationInit => AuditInv
  <2> SUFFICES ASSUME ConfigurationInit PROVE AuditInv
    OBVIOUS
  <2>1. auditEvents = <<>> /\ DOMAIN auditEvents = {} /\ auditEvents \in Seq(AuditEvent)
    BY DEF ConfigurationInit
  <2> QED BY <2>1 DEF AuditInv, RollbackBreaksTheChain
<1> QED BY <1>1, AuditStep, PTL DEF ConfigurationSpec

\* A rollback leaves a broken link in the audit trail.
THEOREM RollbackIsVisible == ConfigurationSpec => []RollbackBreaksTheChain
<1>1. AuditInv => RollbackBreaksTheChain
  BY DEF AuditInv
<1> QED BY <1>1, AuditInvCorrect, PTL

(***************************************************************************)
(* Modbus requests                                                         *)
(***************************************************************************)
\* The list holds denials in the window of the last one, and all but those that lie more
\* than a window before another; its length decides.
ListInv ==
  \A c \in Clients :
    /\ \A i \in DOMAIN denials[c] \ deniedTimes[c] :
         \E j \in DOMAIN denials[c] : denials[c][i] < denials[c][j] - DeniedWindow
    /\ denials[c] # <<>> =>
         /\ limited[c] <=> Cardinality(deniedTimes[c]) >= DeniedLimit
         /\ \A i \in deniedTimes[c] :
              denials[c][i] >= denials[c][Len(denials[c])] - DeniedWindow

NetworkInv == NetworkTypeOK /\ AccessStaysInRange /\ ListInv

LEMMA AllowStep ==
  ASSUME NetworkInv, NEW s \in Sessions, NEW r \in ModbusRequests, AllowRequest(s, r)
  PROVE  NetworkInv'
<1>1. /\ granted' = granted \cup {<<r.function, a>> : a \in r.start..(r.start + r.quantity - 1)}
      /\ UNCHANGED <<deniedTimes, limited, denials>> /\ RangeIsAllowed(r)
  BY DEF AllowRequest, Allows
<1>2. r.function \in ModbusFunction /\ r.start \in Nat /\ r.quantity \in Nat \ {0}
  BY NetworkAssumption DEF NetworkAssumption, ModbusRequest
<1>3. PICK range \in SelectedRanges(r.function) :
        range[1] <= r.start /\ r.start + r.quantity - 1 <= range[2]
  BY <1>1 DEF RangeIsAllowed
<1>4. range[1] \in Nat /\ range[2] \in Nat
  BY NetworkAssumption DEF NetworkAssumption, SelectedRanges
<1>5. ASSUME NEW a \in r.start..(r.start + r.quantity - 1)
      PROVE  a \in Nat /\ range[1] <= a /\ a <= range[2]
  BY <1>2, <1>3, <1>4
<1>6. AccessStaysInRange'
  <2> SUFFICES ASSUME NEW g \in granted'
               PROVE  \E x \in SelectedRanges(g[1]) : x[1] <= g[2] /\ g[2] <= x[2]
    BY DEF AccessStaysInRange, SelectedRanges
  <2>1. CASE g \in granted
    BY <2>1 DEF NetworkInv, AccessStaysInRange
  <2>2. CASE g \notin granted
    <3>1. PICK a \in r.start..(r.start + r.quantity - 1) : g = <<r.function, a>>
      BY <1>1, <2>2
    <3> QED BY <3>1, <1>5
  <2> QED BY <2>1, <2>2
<1>7. granted' \subseteq ModbusFunction \X Nat
  BY <1>1, <1>2, <1>5 DEF NetworkInv, NetworkTypeOK
<1> QED BY <1>1, <1>6, <1>7 DEF NetworkInv, NetworkTypeOK, ListInv

LEMMA DenyStep ==
  ASSUME NetworkInv, NEW s \in Sessions, NEW r \in ModbusRequests, NEW t \in RequestTimes,
         DenyRequest(s, r, t)
  PROVE  NetworkInv'
<1> DEFINE c == s.client
           q == denials[c]
           n == Len(q)
           recent == Recent(c, t) \cup {n + 1}
<1>1. /\ deniedTimes' = [deniedTimes EXCEPT ![c] = recent]
      /\ limited' = [limited EXCEPT ![c] = Cardinality(recent) >= DeniedLimit]
      /\ denials' = [denials EXCEPT ![c] = Append(@, t)] /\ UNCHANGED granted
  BY DEF DenyRequest
<1>2. c \in Clients /\ t \in Nat /\ DeniedWindow \in Nat
  BY NetworkAssumption DEF NetworkAssumption, RequestTimes
<1>3. /\ denials \in [Clients -> Seq(Nat)] /\ deniedTimes \in [Clients -> SUBSET Nat]
      /\ limited \in [Clients -> BOOLEAN] /\ q \in Seq(Nat)
      /\ deniedTimes[c] \subseteq DOMAIN q
  BY <1>2 DEF NetworkInv, NetworkTypeOK
<1>4. /\ denials'[c] = Append(q, t) /\ deniedTimes'[c] = recent
      /\ limited'[c] = (Cardinality(recent) >= DeniedLimit)
  BY <1>1, <1>2, <1>3
<1>5. \A d \in Clients \ {c} : /\ denials'[d] = denials[d] /\ deniedTimes'[d] = deniedTimes[d]
                              /\ limited'[d] = limited[d]
  BY <1>1, <1>3
<1>6. /\ n \in Nat /\ DOMAIN q = 1..n /\ DOMAIN Append(q, t) = DOMAIN q \cup {n + 1}
      /\ Len(Append(q, t)) = n + 1
      /\ Append(q, t)[n + 1] = t /\ \A i \in DOMAIN q : Append(q, t)[i] = q[i]
  BY <1>2, <1>3, AppendFacts
<1>7. recent \subseteq DOMAIN Append(q, t) /\ recent \subseteq Nat
  BY <1>3, <1>6 DEF Recent
<1>8. NetworkTypeOK'
  <2>1. denials' \in [Clients -> Seq(Nat)] /\ deniedTimes' \in [Clients -> SUBSET Nat]
    BY <1>1, <1>2, <1>3, <1>7
  <2>2. limited' \in [Clients -> BOOLEAN]
    BY <1>1, <1>2, <1>3
  <2>3. \A d \in Clients : deniedTimes'[d] \subseteq DOMAIN denials'[d]
    BY <1>4, <1>5, <1>7 DEF NetworkInv, NetworkTypeOK
  <2> QED BY <1>1, <2>1, <2>2, <2>3 DEF NetworkInv, NetworkTypeOK
<1>9. ListInv'
  <2> SUFFICES ASSUME NEW d \in Clients
               PROVE  /\ \A i \in DOMAIN denials'[d] \ deniedTimes'[d] :
                           \E j \in DOMAIN denials'[d] :
                             denials'[d][i] < denials'[d][j] - DeniedWindow
                      /\ denials'[d] # <<>> =>
                           /\ limited'[d] <=> Cardinality(deniedTimes'[d]) >= DeniedLimit
                           /\ \A i \in deniedTimes'[d] :
                                denials'[d][i] >= denials'[d][Len(denials'[d])] - DeniedWindow
    BY DEF ListInv
  <2>1. CASE d # c
    BY <2>1, <1>5 DEF NetworkInv, ListInv
  <2>2. CASE d = c
    <3>1. ASSUME NEW i \in DOMAIN Append(q, t) \ recent
          PROVE  \E j \in DOMAIN Append(q, t) :
                   Append(q, t)[i] < Append(q, t)[j] - DeniedWindow
      <4>1. i \in DOMAIN q /\ Append(q, t)[i] = q[i]
        BY <1>6
      <4>2. CASE i \in deniedTimes[c]
        <5>1. ~(q[i] >= t - DeniedWindow) /\ q[i] \in Nat
          BY <4>1, <4>2, <1>3 DEF Recent
        <5>2. q[i] < t - DeniedWindow
          BY <5>1, <1>2
        <5> QED BY <5>2, <4>1, <1>6
      <4>3. CASE i \notin deniedTimes[c]
        <5>1. PICK j \in DOMAIN q : q[i] < q[j] - DeniedWindow
          BY <4>1, <4>3, <1>2 DEF NetworkInv, ListInv
        <5> QED BY <5>1, <4>1, <1>6
      <4> QED BY <4>2, <4>3
    <3>2. ASSUME NEW i \in recent
          PROVE  Append(q, t)[i] >= Append(q, t)[Len(Append(q, t))] - DeniedWindow
      <4>1. CASE i = n + 1
        BY <4>1, <1>2, <1>6
      <4>2. CASE i # n + 1
        <5>1. i \in DOMAIN q /\ q[i] >= t - DeniedWindow
          BY <4>2, <1>3 DEF Recent
        <5> QED BY <5>1, <1>6
      <4> QED BY <4>1, <4>2
    <3> QED BY <2>2, <3>1, <3>2, <1>4
  <2> QED BY <2>1, <2>2
<1> QED BY <1>1, <1>8, <1>9 DEF NetworkInv, AccessStaysInRange

LEMMA NetworkInvCorrect == NetworkSpec => []NetworkInv
<1>1. NetworkInit => NetworkInv
  <2> SUFFICES ASSUME NetworkInit PROVE NetworkInv
    OBVIOUS
  <2>1. /\ denials = [c \in Clients |-> <<>>] /\ deniedTimes = [c \in Clients |-> {}]
        /\ limited = [c \in Clients |-> FALSE] /\ granted = {}
    BY DEF NetworkInit
  <2>2. \A c \in Clients : denials[c] = <<>> /\ DOMAIN denials[c] = {} /\ deniedTimes[c] = {}
    BY <2>1
  <2>3. NetworkTypeOK
    BY <2>1, <2>2 DEF NetworkTypeOK
  <2> QED BY <2>1, <2>2, <2>3 DEF NetworkInv, ListInv, AccessStaysInRange
<1>2. NetworkInv /\ [NetworkNext]_networkVars => NetworkInv'
  <2>1. CASE UNCHANGED networkVars
    BY <2>1 DEF networkVars, NetworkInv, NetworkTypeOK, ListInv, AccessStaysInRange
  <2> QED BY <2>1, AllowStep, DenyStep DEF NetworkNext
<1> QED BY <1>1, <1>2, PTL DEF NetworkSpec

\* Each variable of the network gate keeps its type, and its lists stay within the denials.
THEOREM NetworkTypeCorrect == NetworkSpec => []NetworkTypeOK
<1>1. NetworkInv => NetworkTypeOK
  BY DEF NetworkInv
<1> QED BY <1>1, NetworkInvCorrect, PTL

\* No register outside its ranges is reached.
THEOREM RegistersStayInRange == NetworkSpec => []AccessStaysInRange
<1>1. NetworkInv => AccessStaysInRange
  BY DEF NetworkInv
<1> QED BY <1>1, NetworkInvCorrect, PTL

\* Denials are counted justly, whatever the order of their stamps.
THEOREM DenialsAreCountedJustly == NetworkSpec => []DenialsAreCounted
<1>1. NetworkInv => DenialsAreCounted
  <2> SUFFICES ASSUME NetworkInv, NEW c \in Clients, denials[c] # <<>>
               PROVE  LET last == denials[c][Len(denials[c])]
                      IN  /\ limited[c] => Cardinality(DeniedSince(c, last - DeniedWindow)) >= DeniedLimit
                          /\ \A i \in DeniedSince(c, last) :
                               /\ \A j \in DOMAIN denials[c] : denials[c][j] <= denials[c][i]
                               /\ Cardinality(DeniedSince(c, denials[c][i] - DeniedWindow)) >= DeniedLimit
                               => limited[c]
    BY DEF DenialsAreCounted
  <2> DEFINE q == denials[c]
             n == Len(q)
  <2>1. /\ q \in Seq(Nat) /\ n \in Nat /\ DOMAIN q = 1..n /\ deniedTimes[c] \subseteq DOMAIN q
        /\ DeniedWindow \in Nat /\ DeniedLimit \in Nat
    BY NetworkAssumption DEF NetworkInv, NetworkTypeOK, NetworkAssumption
  <2>2. IsFiniteSet(DOMAIN q) /\ IsFiniteSet(deniedTimes[c])
    BY <2>1, FS_Interval, FS_Subset
  <2>3. limited[c] <=> Cardinality(deniedTimes[c]) >= DeniedLimit
    BY DEF NetworkInv, ListInv
  <2>4. ASSUME NEW t \in Int
        PROVE  IsFiniteSet(DeniedSince(c, t)) /\ Cardinality(DeniedSince(c, t)) \in Nat
    <3>1. DeniedSince(c, t) \subseteq DOMAIN q
      BY DEF DeniedSince
    <3> QED BY <3>1, <2>2, FS_Subset, FS_CardinalityType
  <2>5. Cardinality(deniedTimes[c]) \in Nat
    BY <2>2, FS_CardinalityType
  <2>6. ASSUME limited[c] PROVE Cardinality(DeniedSince(c, q[n] - DeniedWindow)) >= DeniedLimit
    <3>1. deniedTimes[c] \subseteq DeniedSince(c, q[n] - DeniedWindow)
      BY <2>1 DEF NetworkInv, ListInv, DeniedSince
    <3>2. q[n] - DeniedWindow \in Int
      <4>1. n \in DOMAIN q
        BY <2>1
      <4> QED BY <4>1, <2>1
    <3>3. Cardinality(deniedTimes[c]) <= Cardinality(DeniedSince(c, q[n] - DeniedWindow))
      BY <3>1, <3>2, <2>4, FS_Subset
    <3> DEFINE seen == Cardinality(DeniedSince(c, q[n] - DeniedWindow))
               kept == Cardinality(deniedTimes[c])
    <3>4. seen \in Nat /\ kept \in Nat /\ kept <= seen /\ kept >= DeniedLimit
      BY <3>2, <3>3, <2>3, <2>4, <2>5, <2>6
    <3>5. seen >= DeniedLimit
      <4> HIDE DEF seen, kept
      <4> QED BY <3>4, <2>1
    <3> QED BY <3>5
  <2>7. ASSUME NEW i \in DOMAIN q, \A j \in DOMAIN q : q[j] <= q[i],
               Cardinality(DeniedSince(c, q[i] - DeniedWindow)) >= DeniedLimit
        PROVE  limited[c]
    <3>1. q[i] - DeniedWindow \in Int /\ q[i] \in Int
      <4>1. q \in Seq(Nat) /\ DeniedWindow \in Nat
        BY <2>1
      <4> HIDE DEF q
      <4> QED BY <4>1
    <3>2. DeniedSince(c, q[i] - DeniedWindow) \subseteq deniedTimes[c]
      <4> SUFFICES ASSUME NEW k \in DOMAIN q, q[k] >= q[i] - DeniedWindow, k \notin deniedTimes[c]
                   PROVE  FALSE
        BY DEF DeniedSince
      <4>1. PICK j \in DOMAIN q : q[k] < q[j] - DeniedWindow
        BY DEF NetworkInv, ListInv
      <4>2. q[k] \in Int /\ q[j] \in Int /\ q[j] <= q[i]
        <5>1. \A x \in DOMAIN q : q[x] \in Int
          <6>1. q \in Seq(Nat)
            BY <2>1
          <6> HIDE DEF q
          <6> QED BY <6>1
        <5> QED BY <5>1, <2>7
      <4> HIDE DEF q
      <4> QED BY <4>1, <4>2, <3>1, <2>1
    <3>3. Cardinality(DeniedSince(c, q[i] - DeniedWindow)) <= Cardinality(deniedTimes[c])
      BY <3>2, <2>2, FS_Subset
    <3> DEFINE seen == Cardinality(DeniedSince(c, q[i] - DeniedWindow))
               kept == Cardinality(deniedTimes[c])
    <3>4. seen \in Nat /\ kept \in Nat /\ seen <= kept /\ seen >= DeniedLimit
      BY <3>1, <3>3, <2>4, <2>5, <2>7
    <3>5. kept >= DeniedLimit
      <4> HIDE DEF seen, kept
      <4> QED BY <3>4, <2>1
    <3> QED BY <3>5, <2>3
  <2> QED BY <2>6, <2>7 DEF DeniedSince
<1> QED BY <1>1, NetworkInvCorrect, PTL
=============================================================================
