-------------------------- MODULE SensorTrust_proofs --------------------------
(***************************************************************************)
(* SensorTrust: types, the stream of every source and what breaks it, the  *)
(* bounded drift of the recorded SOC and the end of a revoked source, for  *)
(* every set of sources, readings, callers, limits and required checks.    *)
(***************************************************************************)
EXTENDS SensorTrust, ProofLemmas, TLAPS

USE SensorAssumption DEF None

(***************************************************************************)
(* Types. A counter is recorded without being compared again, so that it   *)
(* is in range only because it was when it was checked.                    *)
(***************************************************************************)
\* Of each caller one reading at most waits to be recorded, of a source it handles.
Alone ==
  /\ \A p, q \in passed : p.caller = q.caller => p = q
  /\ \A p \in passed : p.reading.source \in serves[p.caller]

PassedIsChecked ==
  \A p \in passed :
    /\ "freshness" \in required => p.reading.counter \in 0..MaxCounter
    /\ "plausibility" \in required => p.stamp # None

TypeInv == TypeOK /\ Alone /\ PassedIsChecked

LEMMA PassedType ==
  ASSUME TypeOK, NEW p \in passed
  PROVE  /\ p.caller \in Callers /\ p.reading \in Readings /\ p.stamp \in Stamps \cup {None}
         /\ p.seen \in Nat
         /\ p.reading.source \in Sources /\ p.reading.counter \in Int
         /\ p.reading.soc \in Int
<1>1. p \in Checked
  BY DEF TypeOK
<1>2. /\ p.caller \in Callers /\ p.reading \in Readings /\ p.stamp \in Stamps \cup {None}
      /\ p.seen \in Nat
  BY <1>1 DEF Checked
<1>3. p.reading \in Reading
  BY <1>2
<1> QED BY <1>2, <1>3 DEF Reading

\* The entry that recording p appends, without what it was compared with.
EntryOf(p) == [counter |-> p.reading.counter, stamp |-> p.stamp]

\* What recording does to the variables of ReplayValidator.
LEMMA RecordedFreshness ==
  ASSUME TypeInv, NEW p \in passed, Record(p), "freshness" \in required
  PROVE  /\ p.reading.counter \in 0..MaxCounter
         /\ lastCounter' = [lastCounter EXCEPT ![p.reading.source] = p.reading.counter]
         /\ lastTimestamp' = [lastTimestamp EXCEPT ![p.reading.source] =
                                IF p.stamp # None THEN p.stamp ELSE @]
         /\ accepted' = [accepted EXCEPT ![p.reading.source] =
                           Append(@, [counter |-> p.reading.counter, stamp |-> p.stamp,
                                      seen |-> p.seen])]
         /\ [counter |-> p.reading.counter, stamp |-> p.stamp, seen |-> p.seen] \in Recorded
         /\ EntryOf(p) \in Entry
<1>1. p.stamp \in Stamps \cup {None} /\ p.seen \in Nat
  BY PassedType DEF TypeInv
<1>2. p.reading.counter \in 0..MaxCounter
  BY DEF TypeInv, PassedIsChecked
<1>3. RecordFreshness(p)
  BY DEF Record
<1> QED BY <1>1, <1>2, <1>3 DEF RecordFreshness, Entry, Recorded, EntryOf

LEMMA TypeStep == TypeInv /\ [Next]_vars => TypeInv'
<1> SUFFICES ASSUME TypeInv, [Next]_vars PROVE TypeInv'
  OBVIOUS
<1> USE DEF TypeInv
<1>1. ASSUME NEW c \in Callers, NEW r \in Readings, NEW t \in Stamps \cup {None}, Check(c, r, t)
      PROVE  TypeInv'
  <2> DEFINE p == [caller |-> c, reading |-> r, stamp |-> t, seen |-> Len(accepted[r.source])]
  <2>1. /\ Passes(r, t) /\ r.source \in serves[c] /\ \A q \in passed : q.caller # c
        /\ passed' = passed \cup {p}
        /\ UNCHANGED <<required, serves, revoked, lastCounter, lastTimestamp, previous,
                       trustedSoc, accepted, trail, late>>
    BY <1>1 DEF Check
  <2>2. p \in Checked
    <3>1. r.source \in Sources
      BY DEF Reading
    <3>2. accepted[r.source] \in Seq(Recorded)
      BY <3>1 DEF TypeOK
    <3>3. Len(accepted[r.source]) \in Nat
      BY <3>2
    <3> QED BY <3>3 DEF Checked
  <2>3. TypeOK'
    BY <2>1, <2>2 DEF TypeOK
  <2>4. Alone'
    BY <2>1 DEF Alone
  <2>5. PassedIsChecked'
    BY <2>1 DEF PassedIsChecked, Passes, Fresh, Plausible
  <2> QED BY <2>3, <2>4, <2>5
<1>2. ASSUME NEW p \in passed, Record(p) PROVE TypeInv'
  <2>1. /\ p.reading \in Readings /\ p.stamp \in Stamps \cup {None} /\ p.caller \in Callers
        /\ p.reading.source \in Sources /\ p.reading.soc \in Int
    BY PassedType
  <2>2. passed' = passed \ {p} /\ UNCHANGED <<required, serves, revoked>>
    BY <1>2 DEF Record
  <2>3. /\ lastCounter' \in [Sources -> 0..MaxCounter \cup {None}]
        /\ lastTimestamp' \in [Sources -> Stamps \cup {None}]
        /\ accepted' \in [Sources -> Seq(Recorded)]
    <3>1. CASE "freshness" \in required
      <4> DEFINE s == p.reading.source
                 c == p.reading.counter
                 e == [counter |-> c, stamp |-> p.stamp, seen |-> p.seen]
      <4>1. /\ c \in 0..MaxCounter /\ e \in Recorded
            /\ lastCounter' = [lastCounter EXCEPT ![s] = c]
            /\ lastTimestamp' = [lastTimestamp EXCEPT ![s] = IF p.stamp # None THEN p.stamp ELSE @]
            /\ accepted' = [accepted EXCEPT ![s] = Append(@, e)]
        BY <1>2, <3>1, RecordedFreshness
      <4>2. lastCounter' \in [Sources -> 0..MaxCounter \cup {None}]
        BY <4>1 DEF TypeOK
      <4>3. lastTimestamp' \in [Sources -> Stamps \cup {None}]
        BY <4>1, <2>1 DEF TypeOK
      <4>4. accepted[s] \in Seq(Recorded) /\ Append(accepted[s], e) \in Seq(Recorded)
        BY <4>1, <2>1 DEF TypeOK
      <4>5. accepted' \in [Sources -> Seq(Recorded)]
        BY <4>1, <4>4 DEF TypeOK
      <4> QED BY <4>2, <4>3, <4>5
    <3>2. CASE "freshness" \notin required
      BY <1>2, <3>2 DEF Record, TypeOK
    <3> QED BY <3>1, <3>2
  <2>4. /\ previous' \in SUBSET [reading : Readings, stamp : Stamps]
        /\ trail' \in SUBSET [soc : Int, stamp : Stamps]
    <3>1. CASE "plausibility" \in required
      <4>1. p.stamp \in Stamps
        BY <2>1, <3>1 DEF PassedIsChecked
      <4> QED BY <1>2, <2>1, <3>1, <4>1 DEF Record, RecordHistory, TypeOK
    <3>2. CASE "plausibility" \notin required
      BY <1>2, <3>2 DEF Record, TypeOK
    <3> QED BY <3>1, <3>2
  <2>5. trustedSoc' \in Int
    BY <1>2, <2>1 DEF Record, UpdateSoc, TypeOK
  <2>6. late' \in [Callers \X Sources -> Nat]
    <3> DEFINE x == <<p.caller, p.reading.source>>
               m == IF "source" \in required /\ p.reading.source \in revoked
                    THEN late[x] + 1 ELSE late[x]
    <3>1. x \in Callers \X Sources
      BY <2>1
    <3>2. late' = [late EXCEPT ![x] = m]
      BY <1>2, <3>1 DEF Record, TypeOK
    <3>3. m \in Nat
      BY <3>1 DEF TypeOK
    <3> HIDE DEF m, x
    <3> QED BY <3>1, <3>2, <3>3 DEF TypeOK
  <2>7. TypeOK'
    BY <2>2, <2>3, <2>4, <2>5, <2>6 DEF TypeOK
  <2>8. Alone' /\ PassedIsChecked'
    BY <2>2 DEF Alone, PassedIsChecked
  <2> QED BY <2>7, <2>8
<1>3. ASSUME NEW p \in passed, Drop(p) PROVE TypeInv'
  <2>1. /\ passed' = passed \ {p}
        /\ UNCHANGED <<required, serves, revoked, lastCounter, lastTimestamp, previous,
                       trustedSoc, accepted, trail, late>>
    BY <1>3 DEF Drop
  <2> QED BY <2>1 DEF TypeOK, Alone, PassedIsChecked
<1>4. ASSUME NEW s \in Sources, RevokeSource(s) \/ RestoreSource(s) PROVE TypeInv'
  <2>1. /\ revoked' \subseteq Known
        /\ UNCHANGED <<required, serves, lastCounter, lastTimestamp, previous,
                       trustedSoc, passed, accepted, trail>>
    BY <1>4 DEF RevokeSource, RestoreSource, TypeOK
  <2>2. late' = ForgetLate(s) \/ late' = late
    BY <1>4 DEF RevokeSource, RestoreSource
  <2>3. late' \in [Callers \X Sources -> Nat]
    <3>1. late \in [Callers \X Sources -> Nat]
      BY DEF TypeOK
    <3>2. ForgetLate(s) \in [Callers \X Sources -> Nat]
      BY <3>1 DEF ForgetLate
    <3> QED BY <2>2, <3>1, <3>2
  <2>4. TypeOK'
    <3>1. [required |-> required, serves |-> serves]' \in Setups
      BY <2>1 DEF TypeOK
    <3>2. /\ lastCounter' \in [Sources -> 0..MaxCounter \cup {None}]
          /\ lastTimestamp' \in [Sources -> Stamps \cup {None}]
          /\ previous' \in SUBSET [reading : Readings, stamp : Stamps]
          /\ trustedSoc' \in Int
      BY <2>1 DEF TypeOK
    <3>3. /\ passed' \in SUBSET Checked
          /\ accepted' \in [Sources -> Seq(Recorded)]
          /\ trail' \in SUBSET [soc : Int, stamp : Stamps]
      BY <2>1 DEF TypeOK
    <3> QED BY <2>1, <2>3, <3>1, <3>2, <3>3 DEF TypeOK
  <2>5. Alone' /\ PassedIsChecked'
    BY <2>1 DEF Alone, PassedIsChecked
  <2> QED BY <2>4, <2>5
<1>5. CASE UNCHANGED vars
  BY <1>5 DEF vars, TypeOK, Alone, PassedIsChecked
<1> QED BY <1>1, <1>2, <1>3, <1>4, <1>5 DEF Next

LEMMA TypeInvCorrect == Spec => []TypeInv
<1>1. Init => TypeInv
  <2> SUFFICES ASSUME Init PROVE TypeInv
    OBVIOUS
  <2>1. /\ [required |-> required, serves |-> serves] \in Setups
        /\ late \in [Callers \X Sources -> Nat]
    <3>1. PICK u \in Setups : required = u.required /\ serves = u.serves
      BY DEF Init
    <3>2. u = [required |-> u.required, serves |-> u.serves]
      BY <3>1
    <3> QED BY <3>1, <3>2 DEF Init
  <2>2. TypeOK
    BY <2>1 DEF Init, TypeOK
  <2> QED BY <2>2 DEF Init, TypeInv, Alone, PassedIsChecked
<1> QED BY <1>1, TypeStep, PTL DEF Spec

\* Each variable keeps its type.
THEOREM SensorTypeCorrect == Spec => []TypeOK
<1>1. TypeInv => TypeOK
  BY DEF TypeInv
<1> QED BY <1>1, TypeInvCorrect, PTL

(***************************************************************************)
(* The stream of each source                                               *)
(***************************************************************************)
\* The validator remembers the counter of the last entry, and the stamp of the last entry
\* that has one.
Remembers(counter, stamp, q) ==
  /\ q # <<>> => counter = q[Len(q)].counter
  /\ \A i \in DOMAIN q :
       q[i].stamp # None /\ (\A j \in (i + 1)..Len(q) : q[j].stamp = None) => stamp = q[i].stamp

\* What waits follows what it was compared with, and still passes if that is all there is;
\* for a source that one caller handles, it is.
FollowsSeen(p, q) ==
  /\ p.seen <= Len(q)
  /\ Stream!Follows(EntryOf(p), q, p.seen)

WaitsFresh(p) ==
  LET s == p.reading.source
  IN  /\ FollowsSeen(p, accepted[s])
      /\ Serial(s) => p.seen = Len(accepted[s])
      /\ p.seen = Len(accepted[s]) => Fresh(p.reading, p.stamp)

StreamInv ==
  /\ \A s \in Sources : Remembers(lastCounter[s], lastTimestamp[s], accepted[s])
  /\ "freshness" \in required => \A p \in passed : WaitsFresh(p)

\* A reading that passes follows the whole stream.
LEMMA FreshFollows ==
  ASSUME NEW q \in Seq(Recorded), NEW counter \in 0..MaxCounter \cup {None}, NEW stamp,
         NEW c, NEW t, Remembers(counter, stamp, q),
         c \in 0..MaxCounter,
         counter # None => c = Successor(counter),
         t # None /\ stamp # None => t > stamp
  PROVE  Stream!Follows([counter |-> c, stamp |-> t], q, Len(q))
<1> DEFINE n == Len(q)
<1>1. n \in Nat /\ DOMAIN q = 1..n /\ (n > 0 => q # <<>>)
  OBVIOUS
<1>2. \A i \in 1..n : q[i] \in Recorded
  BY <1>1
<1>3. \A i \in 1..n : q[i].counter \in 0..MaxCounter
  BY <1>2 DEF Recorded
<1>4. n > 0 => c = Stream!Successor(q[n].counter)
  <2> SUFFICES ASSUME n > 0 PROVE c = Stream!Successor(q[n].counter)
    OBVIOUS
  <2>1. counter = q[n].counter /\ q[n].counter \in 0..MaxCounter
    BY <1>1, <1>3 DEF Remembers
  <2>2. counter # None
    BY <2>1 DEF SensorAssumption
  <2> QED BY <2>1, <2>2 DEF Successor, Stream!Successor
<1>5. ASSUME NEW i \in 1..n, t # None, q[i].stamp # None, \A j \in (i + 1)..n : q[j].stamp = None
      PROVE  q[i].stamp < t
  <2>1. stamp = q[i].stamp
    BY <1>1, <1>5 DEF Remembers
  <2> QED BY <2>1, <1>5
<1> HIDE DEF n
<1> QED BY <1>4, <1>5 DEF Stream!Follows, Stream!None, n

\* What an entry was compared with does not change.
LEMMA FollowsStays ==
  ASSUME NEW q, NEW o, NEW e, NEW k \in Nat,
         \A i \in 1..k : o[i] = q[i], Stream!Follows(e, q, k)
  PROVE  Stream!Follows(e, o, k)
<1>1. /\ e.counter \in 0..MaxCounter
      /\ k > 0 => e.counter = Stream!Successor(q[k].counter)
      /\ \A i \in 1..k :
           e.stamp # None /\ q[i].stamp # None /\ (\A j \in (i + 1)..k : q[j].stamp = None)
             => q[i].stamp < e.stamp
  BY DEF Stream!Follows, Stream!None
<1>2. k > 0 => o[k] = q[k]
  OBVIOUS
<1>3. \A i \in 1..k : (i + 1)..k \subseteq 1..k
  OBVIOUS
<1>4. ASSUME NEW i \in 1..k, e.stamp # None, o[i].stamp # None,
             \A j \in (i + 1)..k : o[j].stamp = None
      PROVE  o[i].stamp < e.stamp
  <2>1. o[i] = q[i] /\ \A j \in (i + 1)..k : q[j].stamp = None
    BY <1>3, <1>4
  <2> QED BY <1>1, <1>4, <2>1
<1> QED BY <1>1, <1>2, <1>4 DEF Stream!Follows, Stream!None

\* What ReplayValidator remembers after one more entry.
LEMMA RemembersOneMore ==
  ASSUME NEW q \in Seq(Recorded), NEW e \in Recorded, NEW counter, NEW stamp,
         Remembers(counter, stamp, q)
  PROVE  Remembers(e.counter, IF e.stamp # None THEN e.stamp ELSE stamp, Append(q, e))
<1> DEFINE n == Len(q)
           o == Append(q, e)
           last == IF e.stamp # None THEN e.stamp ELSE stamp
<1>1. /\ n \in Nat /\ DOMAIN q = 1..n /\ Len(o) = n + 1 /\ o[n + 1] = e
      /\ DOMAIN o = 1..(n + 1) /\ \A i \in 1..n : o[i] = q[i]
  <2>1. Len(o) = n + 1 /\ o[n + 1] = e /\ \A i \in DOMAIN q : o[i] = q[i]
    BY AppendFacts
  <2>2. DOMAIN o = DOMAIN q \cup {n + 1}
    BY AppendFacts
  <2> QED BY <2>1, <2>2
<1> HIDE DEF n, o
<1>2. ASSUME NEW i \in 1..(n + 1), o[i].stamp # None, \A j \in (i + 1)..(n + 1) : o[j].stamp = None
      PROVE  last = o[i].stamp
  <2>1. CASE i = n + 1
    BY <1>1, <1>2, <2>1
  <2>2. CASE i \in 1..n
    <3>1. n + 1 \in (i + 1)..(n + 1) /\ (i + 1)..n \subseteq (i + 1)..(n + 1)
      BY <1>1, <2>2
    <3>2. e.stamp = None
      BY <1>1, <1>2, <3>1
    <3>3. \A j \in (i + 1)..n : j \in 1..n /\ o[j].stamp = None
      BY <1>1, <1>2, <2>2, <3>1
    <3>4. o[i] = q[i] /\ \A j \in (i + 1)..n : q[j].stamp = None
      BY <1>1, <2>2, <3>3
    <3>5. stamp = q[i].stamp
      BY <1>1, <1>2, <2>2, <3>4 DEF Remembers, n
    <3> QED BY <3>2, <3>4, <3>5
  <2> QED BY <1>1, <2>1, <2>2
<1> HIDE DEF last
<1>3. Remembers(e.counter, last, o)
  BY <1>1, <1>2 DEF Remembers
<1> QED BY <1>3 DEF last, o

\* Recording one reading leaves the others as they were, of its source or of another.
LEMMA RecordedOneMore ==
  ASSUME TypeInv, StreamInv, NEW p \in passed, Record(p), "freshness" \in required
  PROVE  LET s == p.reading.source
         IN  /\ s \in Sources /\ EntryOf(p) \in Entry
             /\ FollowsSeen(p, accepted[s])
             /\ accepted' = [accepted EXCEPT ![s] =
                  Append(@, [counter |-> EntryOf(p).counter, stamp |-> EntryOf(p).stamp,
                             seen |-> p.seen])]
             /\ Serial(s) => p.seen = Len(accepted[s])
             /\ StreamInv'
<1> DEFINE s == p.reading.source
           e == [counter |-> p.reading.counter, stamp |-> p.stamp, seen |-> p.seen]
<1>1. /\ s \in Sources /\ e \in Recorded /\ EntryOf(p) \in Entry
      /\ lastCounter' = [lastCounter EXCEPT ![s] = e.counter]
      /\ lastTimestamp' = [lastTimestamp EXCEPT ![s] = IF e.stamp # None THEN e.stamp ELSE @]
      /\ accepted' = [accepted EXCEPT ![s] = Append(@, e)]
  BY PassedType, RecordedFreshness DEF TypeInv
<1>2. passed' = passed \ {p} /\ UNCHANGED <<required, serves>>
  BY DEF Record
<1>3. WaitsFresh(p)
  BY DEF StreamInv
<1>4. /\ accepted \in [Sources -> Seq(Recorded)] /\ accepted[s] \in Seq(Recorded)
      /\ lastCounter \in [Sources -> 0..MaxCounter \cup {None}]
      /\ lastTimestamp \in [Sources -> Stamps \cup {None}]
  BY <1>1 DEF TypeInv, TypeOK
<1>5. PICK n \in Nat : n = Len(accepted[s])
  BY <1>4
<1>6. /\ accepted'[s] = Append(accepted[s], e) /\ Len(accepted'[s]) = n + 1
      /\ \A i \in 1..n : accepted'[s][i] = accepted[s][i]
  <2>1. accepted'[s] = Append(accepted[s], e)
    BY <1>1, <1>4
  <2>2. DOMAIN accepted[s] = 1..n
    BY <1>4, <1>5
  <2> QED BY <1>1, <1>4, <1>5, <2>1, <2>2, AppendFacts
<1>7. ASSUME NEW u \in Sources
      PROVE  Remembers(lastCounter'[u], lastTimestamp'[u], accepted'[u])
  <2>1. Remembers(lastCounter[u], lastTimestamp[u], accepted[u])
    BY DEF StreamInv
  <2>2. CASE u = s
    <3>1. Remembers(e.counter, IF e.stamp # None THEN e.stamp ELSE lastTimestamp[s],
                    Append(accepted[s], e))
      BY <1>1, <1>4, <2>1, <2>2, RemembersOneMore
    <3>2. /\ lastCounter'[s] = e.counter
          /\ lastTimestamp'[s] = IF e.stamp # None THEN e.stamp ELSE lastTimestamp[s]
      BY <1>1, <1>4
    <3> QED BY <1>6, <2>2, <3>1, <3>2
  <2>3. CASE u # s
    BY <1>1, <1>4, <2>1, <2>3
  <2> QED BY <2>2, <2>3
<1>8. ASSUME NEW o \in passed' PROVE WaitsFresh(o)'
  <2>1. o \in passed /\ o # p /\ o.reading.source \in Sources /\ o.seen \in Nat
    BY <1>2, PassedType DEF TypeInv
  <2>2. WaitsFresh(o)
    BY <2>1 DEF StreamInv
  <2>3. CASE o.reading.source # s
    <3>1. /\ accepted'[o.reading.source] = accepted[o.reading.source]
          /\ lastCounter'[o.reading.source] = lastCounter[o.reading.source]
          /\ lastTimestamp'[o.reading.source] = lastTimestamp[o.reading.source]
      BY <1>1, <1>4, <2>1, <2>3
    <3> QED BY <1>2, <2>2, <3>1 DEF WaitsFresh, Fresh, Serial
  <2>4. CASE o.reading.source = s
    <3>1. o.seen <= n /\ Stream!Follows(EntryOf(o), accepted[s], o.seen)
      BY <1>5, <2>2, <2>4 DEF WaitsFresh, FollowsSeen
    <3>2. \A i \in 1..o.seen : accepted'[s][i] = accepted[s][i]
      BY <1>6, <2>1, <3>1
    <3>3. Stream!Follows(EntryOf(o), accepted'[s], o.seen)
      BY <2>1, <3>1, <3>2, FollowsStays
    <3>4. o.seen # n + 1 /\ o.seen <= n + 1
      BY <2>1, <3>1
    <3>5. ~Serial(s)
      <4>1. s \in serves[p.caller] /\ s \in serves[o.caller] /\ p.caller # o.caller
        BY <2>1, <2>4 DEF TypeInv, Alone
      <4>2. p.caller \in Callers /\ o.caller \in Callers
        BY <2>1, PassedType DEF TypeInv
      <4> QED BY <4>1, <4>2 DEF Serial
    <3>6. ~Serial(s)'
      BY <1>2, <3>5 DEF Serial
    <3> QED BY <1>6, <2>4, <3>3, <3>4, <3>6 DEF WaitsFresh, FollowsSeen
  <2> QED BY <2>3, <2>4
<1>9. StreamInv'
  BY <1>2, <1>7, <1>8 DEF StreamInv
<1>10. FollowsSeen(p, accepted[s]) /\ (Serial(s) => p.seen = Len(accepted[s]))
  BY <1>3 DEF WaitsFresh
<1>11. EntryOf(p).counter = p.reading.counter /\ EntryOf(p).stamp = p.stamp
  BY DEF EntryOf
<1> QED BY <1>1, <1>9, <1>10, <1>11

\* A recorded reading extends the stream of its source by an entry the abstract stream takes.
LEMMA RecordExtends ==
  ASSUME TypeInv, StreamInv, NEW p \in passed, Record(p), "freshness" \in required
  PROVE  StreamInv' /\ Stream!Next
<1> DEFINE s == p.reading.source
<1>1. /\ s \in Sources /\ EntryOf(p) \in Entry
      /\ FollowsSeen(p, accepted[s])
      /\ accepted' = [accepted EXCEPT ![s] =
           Append(@, [counter |-> EntryOf(p).counter, stamp |-> EntryOf(p).stamp,
                      seen |-> p.seen])]
      /\ Serial(s) => p.seen = Len(accepted[s])
      /\ StreamInv'
  BY RecordedOneMore
<1>2. p.seen \in 0..Len(accepted[s])
  <2>1. p.seen \in Nat /\ accepted[s] \in Seq(Recorded)
    BY <1>1, PassedType DEF TypeInv, TypeOK
  <2> QED BY <1>1, <2>1 DEF FollowsSeen
<1>3. {u \in Sources : Serial(u)}' = {u \in Sources : Serial(u)}
  BY DEF Record, Serial
<1>4. Stream!Accept(s, EntryOf(p), p.seen)
  BY <1>1, <1>3 DEF Stream!Accept, FollowsSeen
<1> QED BY <1>1, <1>2, <1>4 DEF Stream!Next

\* Every other step leaves what ReplayValidator keeps.
LEMMA OnlyRecordsExtend ==
  ASSUME TypeInv, StreamInv, [Next]_vars,
         ~ \E p \in passed : Record(p) /\ "freshness" \in required
  PROVE  StreamInv' /\ UNCHANGED <<serves, accepted>>
<1>1. ASSUME NEW c \in Callers, NEW r \in Readings, NEW t \in Stamps \cup {None}, Check(c, r, t)
      PROVE  StreamInv' /\ UNCHANGED <<serves, accepted>>
  <2> DEFINE s == r.source
             p == [caller |-> c, reading |-> r, stamp |-> t, seen |-> Len(accepted[s])]
  <2>1. /\ passed' = passed \cup {p} /\ ("freshness" \in required => Fresh(r, t))
        /\ UNCHANGED <<required, serves, lastCounter, lastTimestamp, accepted>>
    BY <1>1 DEF Check, Passes
  <2>2. s \in Sources
    BY DEF Reading
  <2>3. /\ accepted[s] \in Seq(Recorded) /\ lastCounter[s] \in 0..MaxCounter \cup {None}
        /\ Remembers(lastCounter[s], lastTimestamp[s], accepted[s])
    BY <2>2 DEF TypeInv, TypeOK, StreamInv
  <2>4. ASSUME "freshness" \in required PROVE WaitsFresh(p)
    <3>1. /\ r.counter \in 0..MaxCounter
          /\ lastCounter[s] # None => r.counter = Successor(lastCounter[s])
          /\ t # None /\ lastTimestamp[s] # None => t > lastTimestamp[s]
      BY <2>1, <2>4 DEF Fresh
    <3>2. Stream!Follows([counter |-> r.counter, stamp |-> t], accepted[s], Len(accepted[s]))
      BY <2>3, <3>1, FreshFollows
    <3>3. Len(accepted[s]) <= Len(accepted[s])
      BY <2>3
    <3>4. p.reading = r /\ p.stamp = t /\ p.seen = Len(accepted[s])
      OBVIOUS
    <3>5. EntryOf(p) = [counter |-> r.counter, stamp |-> t]
      BY DEF EntryOf
    <3> HIDE DEF p
    <3> QED BY <2>1, <2>4, <3>2, <3>3, <3>4, <3>5 DEF WaitsFresh, FollowsSeen
  <2>5. ASSUME "freshness" \in required PROVE \A o \in passed' : WaitsFresh(o)
    BY <2>1, <2>4, <2>5 DEF StreamInv
  <2> QED BY <2>1, <2>5 DEF StreamInv, WaitsFresh, Fresh, Serial
<1>2. ASSUME passed' \subseteq passed,
             UNCHANGED <<required, serves, lastCounter, lastTimestamp, accepted>>
      PROVE  StreamInv' /\ UNCHANGED <<serves, accepted>>
  BY <1>2 DEF StreamInv, WaitsFresh, Fresh, Serial
<1>3. ASSUME NEW p \in passed, Record(p)
      PROVE  StreamInv' /\ UNCHANGED <<serves, accepted>>
  <2>1. passed' \subseteq passed /\ UNCHANGED <<required, serves, lastCounter, lastTimestamp, accepted>>
    BY <1>3 DEF Record
  <2> QED BY <1>2, <2>1
<1>4. ASSUME NEW p \in passed, Drop(p)
      PROVE  StreamInv' /\ UNCHANGED <<serves, accepted>>
  <2>1. passed' \subseteq passed /\ UNCHANGED <<required, serves, lastCounter, lastTimestamp, accepted>>
    BY <1>4 DEF Drop
  <2> QED BY <1>2, <2>1
<1>5. ASSUME NEW s \in Sources, RevokeSource(s) \/ RestoreSource(s)
      PROVE  StreamInv' /\ UNCHANGED <<serves, accepted>>
  <2>1. passed' \subseteq passed /\ UNCHANGED <<required, serves, lastCounter, lastTimestamp, accepted>>
    BY <1>5 DEF RevokeSource, RestoreSource
  <2> QED BY <1>2, <2>1
<1>6. CASE UNCHANGED vars
  <2>1. passed' \subseteq passed /\ UNCHANGED <<required, serves, lastCounter, lastTimestamp, accepted>>
    BY <1>6 DEF vars
  <2> QED BY <1>2, <2>1
<1> QED BY <1>1, <1>3, <1>4, <1>5, <1>6 DEF Next

LEMMA StreamStep == TypeInv /\ StreamInv /\ [Next]_vars
                    => StreamInv' /\ [Stream!Next]_<<accepted, {s \in Sources : Serial(s)}>>
<1> SUFFICES ASSUME TypeInv, StreamInv, [Next]_vars
             PROVE  StreamInv' /\ [Stream!Next]_<<accepted, {s \in Sources : Serial(s)}>>
  OBVIOUS
<1>1. ASSUME NEW p \in passed, Record(p), "freshness" \in required
      PROVE  StreamInv' /\ [Stream!Next]_<<accepted, {s \in Sources : Serial(s)}>>
  BY <1>1, RecordExtends
<1>2. CASE ~ \E p \in passed : Record(p) /\ "freshness" \in required
  <2>1. StreamInv' /\ UNCHANGED <<serves, accepted>>
    BY <1>2, OnlyRecordsExtend
  <2>2. {s \in Sources : Serial(s)}' = {s \in Sources : Serial(s)}
    BY <2>1 DEF Serial
  <2> QED BY <2>1, <2>2
<1> QED BY <1>1, <1>2

LEMMA StreamInvCorrect == Spec => []StreamInv
<1>1. Init => StreamInv
  <2> SUFFICES ASSUME Init PROVE StreamInv
    OBVIOUS
  <2>1. ASSUME NEW s \in Sources PROVE accepted[s] = <<>> /\ DOMAIN accepted[s] = {}
    <3>1. accepted[s] = <<>>
      BY DEF Init
    <3> QED BY <3>1
  <2>2. passed = {}
    BY DEF Init
  <2> QED BY <2>1, <2>2 DEF StreamInv, Remembers
<1> QED BY <1>1, TypeInvCorrect, StreamStep, PTL DEF Spec

\* What is recorded of each source implements the stream, however callers share sources.
THEOREM FreshStreamImplemented == Spec => ImplementsFreshStream
<1>1. Init => Stream!Init
  BY DEF Init, Stream!Init
<1> QED BY <1>1, TypeInvCorrect, StreamInvCorrect, StreamStep, PTL
        DEF Spec, ImplementsFreshStream, Stream!Spec

(***************************************************************************)
(* What breaks the order of a stream                                       *)
(***************************************************************************)
\* The entries after i, up to j, were each compared with all before it.
Unbroken(q, i, j) == \A k \in (i + 1)..j : q[k].seen = k - 1

\* An entry n places after another carries its counter plus n, modulo the wraparound.
Steps(c, d, n) == d = c + n \/ d = c + n - (MaxCounter + 1)

LEMMA StepsApart ==
  ASSUME NEW c \in Int, NEW d \in Int, NEW n \in Int, 0 < n, n <= MaxCounter, Steps(c, d, n)
  PROVE  c # d
BY SensorAssumption DEF Steps, SensorAssumption

LEMMA OneStepMore ==
  ASSUME NEW c \in 0..MaxCounter, NEW d \in 0..MaxCounter, NEW n \in Nat, n < MaxCounter,
         n = 0 => d = c, n > 0 => Steps(c, d, n)
  PROVE  Steps(c, IF d = MaxCounter THEN 0 ELSE d + 1, n + 1)
BY SensorAssumption DEF Steps, SensorAssumption

\* Over an unbroken range counters go on by steps, and stamps rise, up to the last one that
\* is remembered.
Orderly(q, last) ==
  /\ \A i \in DOMAIN q : q[i].seen <= i - 1
  /\ \A i, j \in DOMAIN q :
       i < j /\ Unbroken(q, i, j)
         => /\ j - i <= MaxCounter => Steps(q[i].counter, q[j].counter, j - i)
            /\ q[i].stamp # None /\ q[j].stamp # None => q[i].stamp < q[j].stamp
  /\ \A i \in DOMAIN q :
       q[i].stamp # None /\ Unbroken(q, i, Len(q)) => last # None /\ q[i].stamp <= last

OrderInv ==
  \A s \in Sources :
    /\ Orderly(accepted[s], lastTimestamp[s])
    /\ Serial(s) => \A k \in DOMAIN accepted[s] : accepted[s][k].seen = k - 1

\* One more entry that follows what it was compared with, and comes after the last stamp
\* if that was everything.
LEMMA OrderlyOneMore ==
  ASSUME NEW q \in Seq(Recorded), NEW e \in Recorded, NEW last \in Stamps \cup {None},
         Orderly(q, last), e.seen <= Len(q),
         Stream!Follows(e, q, e.seen),
         e.seen = Len(q) /\ e.stamp # None /\ last # None => e.stamp > last
  PROVE  Orderly(Append(q, e), IF e.stamp # None THEN e.stamp ELSE last)
<1> DEFINE n == Len(q)
           o == Append(q, e)
           new == IF e.stamp # None THEN e.stamp ELSE last
<1>1. /\ n \in Nat /\ DOMAIN q = 1..n /\ Len(o) = n + 1 /\ o[n + 1] = e
      /\ DOMAIN o = 1..(n + 1) /\ \A i \in 1..n : o[i] = q[i]
  <2>1. Len(o) = n + 1 /\ o[n + 1] = e /\ \A i \in DOMAIN q : o[i] = q[i]
    BY AppendFacts
  <2>2. DOMAIN o = DOMAIN q \cup {n + 1}
    BY AppendFacts
  <2> QED BY <2>1, <2>2
<1>2. /\ e.counter \in 0..MaxCounter /\ e.stamp \in Stamps \cup {None} /\ e.seen \in Nat
      /\ \A i \in 1..n : /\ q[i].counter \in 0..MaxCounter /\ q[i].stamp \in Stamps \cup {None}
                         /\ q[i].seen \in Nat
  <2>1. \A x \in Recorded : /\ x.counter \in 0..MaxCounter /\ x.stamp \in Stamps \cup {None}
                            /\ x.seen \in Nat
    BY DEF Recorded
  <2> QED BY <1>1, <2>1
<1>3. Stamps \subseteq Nat
  BY DEF Stamps, SensorAssumption
<1>4. new \in Stamps \cup {None} /\ (e.stamp # None => new = e.stamp) /\ (e.stamp = None => new = last)
  BY <1>2
<1>5. \A i, j \in 1..n : Unbroken(o, i, j) => Unbroken(q, i, j)
  BY <1>1 DEF Unbroken
<1>6. e.seen <= n
  OBVIOUS
<1>7. \A i \in 1..n : Unbroken(o, i, n + 1) => e.seen = n /\ Unbroken(q, i, n)
  <2> SUFFICES ASSUME NEW i \in 1..n, Unbroken(o, i, n + 1) PROVE e.seen = n /\ Unbroken(q, i, n)
    OBVIOUS
  <2> HIDE DEF n, o
  <2>1. n + 1 \in (i + 1)..(n + 1) /\ (i + 1)..n \subseteq (i + 1)..(n + 1)
    BY <1>1
  <2>2. o[n + 1].seen = (n + 1) - 1
    BY <2>1 DEF Unbroken
  <2>3. \A k \in (i + 1)..n : k \in 1..n /\ o[k].seen = k - 1
    BY <1>1, <2>1 DEF Unbroken
  <2> QED BY <1>1, <2>2, <2>3 DEF Unbroken
<1>8. \A i \in 1..n : q[i].seen <= i - 1
  BY <1>1 DEF Orderly
<1>9. ASSUME NEW i \in 1..n, NEW j \in 1..n, i < j, Unbroken(q, i, j)
      PROVE  /\ j - i <= MaxCounter => Steps(q[i].counter, q[j].counter, j - i)
             /\ q[i].stamp # None /\ q[j].stamp # None => q[i].stamp < q[j].stamp
  BY <1>1, <1>9 DEF Orderly
<1>10. ASSUME NEW i \in 1..n, q[i].stamp # None, Unbroken(q, i, n)
       PROVE  last # None /\ q[i].stamp <= last
  BY <1>1, <1>10 DEF Orderly
<1>11. e.seen = n /\ n > 0 => e.counter = IF q[n].counter = MaxCounter THEN 0 ELSE q[n].counter + 1
  BY DEF Stream!Follows, Stream!Successor
<1>12. e.seen = n /\ e.stamp # None /\ last # None => e.stamp > last
  OBVIOUS
<1> HIDE DEF n, o, new
<1>13. ASSUME NEW i \in 1..n, Unbroken(o, i, n + 1)
       PROVE  /\ n + 1 - i <= MaxCounter => Steps(q[i].counter, e.counter, n + 1 - i)
              /\ q[i].stamp # None /\ e.stamp # None => q[i].stamp < e.stamp
              /\ q[i].stamp # None => new # None /\ q[i].stamp <= new
  <2>1. e.seen = n /\ Unbroken(q, i, n) /\ n > 0 /\ n \in 1..n
    BY <1>1, <1>7, <1>13
  <2>2. ASSUME n + 1 - i <= MaxCounter PROVE Steps(q[i].counter, e.counter, n + 1 - i)
    <3>1. n - i \in Nat /\ n - i < MaxCounter /\ n + 1 - i = (n - i) + 1
      BY <1>1, <2>2, SensorAssumption DEF SensorAssumption
    <3>2. n - i = 0 => q[n].counter = q[i].counter
      <4>1. n - i = 0 => n = i
        BY <1>1
      <4> QED BY <4>1
    <3>3. n - i > 0 => Steps(q[i].counter, q[n].counter, n - i)
      <4>1. n - i > 0 => i < n /\ n - i <= MaxCounter
        BY <1>1, <3>1, SensorAssumption DEF SensorAssumption
      <4> QED BY <1>9, <2>1, <4>1
    <3>4. q[i].counter \in 0..MaxCounter /\ q[n].counter \in 0..MaxCounter
      BY <1>2, <2>1
    <3>5. Steps(q[i].counter, IF q[n].counter = MaxCounter THEN 0 ELSE q[n].counter + 1, (n - i) + 1)
      BY <3>1, <3>2, <3>3, <3>4, OneStepMore
    <3> QED BY <1>11, <2>1, <3>1, <3>5
  <2>3. ASSUME q[i].stamp # None
        PROVE  /\ e.stamp # None => q[i].stamp < e.stamp
               /\ new # None /\ q[i].stamp <= new
    <3>1. last # None /\ q[i].stamp <= last
      BY <1>10, <2>1, <2>3
    <3>2. q[i].stamp \in Nat /\ last \in Nat
      BY <1>2, <1>3, <2>3, <3>1
    <3>3. e.stamp # None => e.stamp \in Nat /\ e.stamp > last
      BY <1>2, <1>3, <1>12, <2>1, <3>1
    <3> QED BY <1>4, <3>1, <3>2, <3>3
  <2> QED BY <2>2, <2>3
<1>14. ASSUME NEW i \in DOMAIN o PROVE o[i].seen <= i - 1
  BY <1>1, <1>2, <1>6, <1>8
<1>15. ASSUME NEW i \in DOMAIN o, NEW j \in DOMAIN o, i < j, Unbroken(o, i, j)
       PROVE  /\ j - i <= MaxCounter => Steps(o[i].counter, o[j].counter, j - i)
              /\ o[i].stamp # None /\ o[j].stamp # None => o[i].stamp < o[j].stamp
  <2>1. i \in 1..n /\ o[i] = q[i]
    BY <1>1, <1>15
  <2>2. CASE j = n + 1
    BY <1>1, <1>13, <1>15, <2>1, <2>2
  <2>3. CASE j \in 1..n
    BY <1>1, <1>5, <1>9, <1>15, <2>1, <2>3
  <2> QED BY <1>1, <2>2, <2>3
<1>16. ASSUME NEW i \in DOMAIN o, o[i].stamp # None, Unbroken(o, i, n + 1)
       PROVE  new # None /\ o[i].stamp <= new
  <2>1. CASE i = n + 1
    BY <1>1, <1>2, <1>3, <1>4, <1>16, <2>1
  <2>2. CASE i \in 1..n
    BY <1>1, <1>13, <1>16, <2>2
  <2> QED BY <1>1, <2>1, <2>2
<1>17. Orderly(o, new)
  BY <1>1, <1>14, <1>15, <1>16 DEF Orderly
<1> QED BY <1>17 DEF o, new

LEMMA OrderStep == TypeInv /\ StreamInv /\ OrderInv /\ [Next]_vars => OrderInv'
<1> SUFFICES ASSUME TypeInv, StreamInv, OrderInv, [Next]_vars PROVE OrderInv'
  OBVIOUS
<1>1. ASSUME NEW p \in passed, Record(p), "freshness" \in required PROVE OrderInv'
  <2> DEFINE s == p.reading.source
             e == [counter |-> p.reading.counter, stamp |-> p.stamp, seen |-> p.seen]
  <2>1. /\ s \in Sources /\ e \in Recorded
        /\ lastTimestamp' = [lastTimestamp EXCEPT ![s] = IF e.stamp # None THEN e.stamp ELSE @]
        /\ accepted' = [accepted EXCEPT ![s] = Append(@, e)]
    BY <1>1, PassedType, RecordedFreshness DEF TypeInv
  <2>2. WaitsFresh(p) /\ UNCHANGED serves
    BY <1>1 DEF StreamInv, Record
  <2>3. /\ accepted \in [Sources -> Seq(Recorded)] /\ accepted[s] \in Seq(Recorded)
        /\ lastTimestamp \in [Sources -> Stamps \cup {None}]
        /\ lastTimestamp[s] \in Stamps \cup {None}
    BY <2>1 DEF TypeInv, TypeOK
  <2>4. /\ accepted'[s] = Append(accepted[s], e)
        /\ lastTimestamp'[s] = IF e.stamp # None THEN e.stamp ELSE lastTimestamp[s]
    BY <2>1, <2>3
  <2>5. Orderly(accepted'[s], lastTimestamp'[s])
    <3>1. e.seen <= Len(accepted[s]) /\ Stream!Follows(EntryOf(p), accepted[s], e.seen)
      BY <2>2 DEF WaitsFresh, FollowsSeen
    <3>2. Stream!Follows(e, accepted[s], e.seen)
      BY <3>1 DEF EntryOf, Stream!Follows
    <3>3. e.seen = Len(accepted[s]) /\ e.stamp # None /\ lastTimestamp[s] # None
            => e.stamp > lastTimestamp[s]
      BY <2>2 DEF WaitsFresh, Fresh
    <3>4. Orderly(accepted[s], lastTimestamp[s])
      BY <2>1 DEF OrderInv
    <3>5. Orderly(Append(accepted[s], e), IF e.stamp # None THEN e.stamp ELSE lastTimestamp[s])
      BY <2>1, <2>3, <3>1, <3>2, <3>3, <3>4, OrderlyOneMore
    <3> QED BY <2>4, <3>5
  <2>6. ASSUME Serial(s), NEW k \in DOMAIN accepted'[s] PROVE accepted'[s][k].seen = k - 1
    <3>1. p.seen = Len(accepted[s])
      BY <2>2, <2>6 DEF WaitsFresh
    <3>2. /\ accepted'[s][Len(accepted[s]) + 1] = e
          /\ \A i \in DOMAIN accepted[s] : accepted'[s][i] = accepted[s][i]
          /\ DOMAIN accepted'[s] = DOMAIN accepted[s] \cup {Len(accepted[s]) + 1}
          /\ Len(accepted[s]) \in Nat
      BY <2>1, <2>3, <2>4, AppendFacts
    <3>3. CASE k \in DOMAIN accepted[s]
      BY <2>1, <2>6, <3>2, <3>3 DEF OrderInv
    <3>4. CASE k = Len(accepted[s]) + 1
      BY <3>1, <3>2, <3>4
    <3> QED BY <3>2, <3>3, <3>4
  <2>7. ASSUME NEW u \in Sources
        PROVE  /\ Orderly(accepted'[u], lastTimestamp'[u])
               /\ Serial(u) => \A k \in DOMAIN accepted'[u] : accepted'[u][k].seen = k - 1
    <3>1. CASE u = s
      BY <2>5, <2>6, <3>1
    <3>2. CASE u # s
      <4>1. accepted'[u] = accepted[u] /\ lastTimestamp'[u] = lastTimestamp[u]
        BY <2>1, <2>3, <3>2
      <4> QED BY <4>1 DEF OrderInv
    <3> QED BY <3>1, <3>2
  <2> QED BY <2>2, <2>7 DEF OrderInv, Serial
<1>2. CASE ~ \E p \in passed : Record(p) /\ "freshness" \in required
  <2>1. UNCHANGED <<serves, accepted, lastTimestamp>>
    <3>1. CASE \E p \in passed : Record(p)
      BY <1>2, <3>1 DEF Record
    <3>2. CASE ~ \E p \in passed : Record(p)
      BY <3>2 DEF Next, Check, Drop, RevokeSource, RestoreSource, vars
    <3> QED BY <3>1, <3>2
  <2> QED BY <2>1 DEF OrderInv, Serial
<1> QED BY <1>1, <1>2

LEMMA OrderInvCorrect == Spec => []OrderInv
<1>1. Init => OrderInv
  <2> SUFFICES ASSUME Init, NEW s \in Sources PROVE DOMAIN accepted[s] = {}
    BY DEF OrderInv, Orderly
  <2>1. accepted[s] = <<>>
    BY DEF Init
  <2> QED BY <2>1
<1> QED BY <1>1, TypeInvCorrect, StreamInvCorrect, OrderStep, PTL DEF Spec

\* A counter within a cycle, or a stamp, comes back only where readings of the source
\* overlapped between check and record.
THEOREM RepeatsNeedOverlaps == Spec => []RepeatNeedsOverlap
<1>1. TypeInv /\ OrderInv => RepeatNeedsOverlap
  <2> SUFFICES ASSUME TypeInv, OrderInv, NEW s \in Sources,
                      NEW i \in DOMAIN accepted[s], NEW j \in DOMAIN accepted[s], i < j,
                      \/ j - i <= MaxCounter /\ accepted[s][i].counter = accepted[s][j].counter
                      \/ /\ accepted[s][i].stamp # None /\ accepted[s][j].stamp # None
                         /\ accepted[s][i].stamp >= accepted[s][j].stamp
               PROVE  ~Serial(s) /\ \E k \in (i + 1)..j : Overlaps(s, k)
    BY DEF RepeatNeedsOverlap
  <2> DEFINE q == accepted[s]
  <2>1. q \in Seq(Recorded) /\ DOMAIN q = 1..Len(q) /\ Len(q) \in Nat
    BY DEF TypeInv, TypeOK
  <2>2. \A k \in DOMAIN q : q[k].counter \in Int /\ q[k].stamp \in Int /\ q[k].seen \in Nat
    <3>1. \A x \in Recorded : x.counter \in Int /\ x.stamp \in Int /\ x.seen \in Nat
      BY DEF Recorded, Stamps
    <3> QED BY <2>1, <3>1
  <2>3. Orderly(q, lastTimestamp[s]) /\ (Serial(s) => \A k \in DOMAIN q : q[k].seen = k - 1)
    BY DEF OrderInv
  <2>4. i \in Int /\ j \in Int /\ \A k \in (i + 1)..j : k \in DOMAIN q /\ k \in Int
    <3> HIDE DEF q
    <3> QED BY <2>1 DEF q
  <2>5. ~Unbroken(q, i, j)
    <3> SUFFICES ASSUME Unbroken(q, i, j) PROVE FALSE
      OBVIOUS
    <3>1. /\ j - i <= MaxCounter => Steps(q[i].counter, q[j].counter, j - i)
          /\ q[i].stamp # None /\ q[j].stamp # None => q[i].stamp < q[j].stamp
      BY <2>3 DEF Orderly
    <3>2. j - i <= MaxCounter => q[i].counter # q[j].counter
      <4>1. j - i \in Int /\ 0 < j - i
        BY <2>4
      <4> QED BY <2>2, <3>1, <4>1, StepsApart
    <3> QED BY <2>2, <3>1, <3>2
  <2>6. PICK k \in (i + 1)..j : q[k].seen # k - 1
    BY <2>5 DEF Unbroken
  <2>7. q[k].seen <= k - 1 /\ k \in DOMAIN q
    BY <2>3, <2>4 DEF Orderly
  <2>8. q[k].seen < k - 1
    BY <2>2, <2>4, <2>6, <2>7
  <2> QED BY <2>3, <2>6, <2>7, <2>8 DEF Overlaps
<1> QED BY <1>1, TypeInvCorrect, OrderInvCorrect, PTL

(***************************************************************************)
(* The end of a revoked source                                             *)
(***************************************************************************)
\* A caller that has recorded a reading of a source since its revocation has none left.
LateAllowed(c, s) ==
  \/ late[<<c, s>>] = 0
  \/ late[<<c, s>>] = 1 /\ \A p \in passed : ~(p.caller = c /\ p.reading.source = s)

LateInv == "source" \in required => \A s \in revoked, c \in Callers : LateAllowed(c, s)

LEMMA LateStep == TypeInv /\ LateInv /\ [Next]_vars => LateInv'
<1> SUFFICES ASSUME TypeInv, LateInv, [Next]_vars, "source" \in required',
                    NEW s \in revoked', NEW c \in Callers
             PROVE  LateAllowed(c, s)'
  BY DEF LateInv
<1>0. late \in [Callers \X Sources -> Nat] /\ revoked \subseteq Sources /\ Known \subseteq Sources
  BY DEF TypeInv, TypeOK, SensorAssumption
<1>1. ASSUME NEW d \in Callers, NEW r \in Readings, NEW t \in Stamps \cup {None}, Check(d, r, t)
      PROVE  LateAllowed(c, s)'
  <2>1. /\ passed' = passed \cup {[caller |-> d, reading |-> r, stamp |-> t,
                                   seen |-> Len(accepted[r.source])]}
        /\ UNCHANGED <<required, revoked, late>> /\ ("source" \in required => SourceTrusted(r))
    BY <1>1 DEF Check, Passes
  <2>2. r.source \notin revoked
    BY <2>1 DEF SourceTrusted
  <2> QED BY <2>1, <2>2 DEF LateInv, LateAllowed
<1>2. ASSUME NEW p \in passed, Record(p) PROVE LateAllowed(c, s)'
  <2> DEFINE x == <<p.caller, p.reading.source>>
  <2>1. /\ passed' = passed \ {p} /\ UNCHANGED <<required, revoked>>
        /\ late' = [late EXCEPT ![x] =
                       IF "source" \in required /\ p.reading.source \in revoked
                       THEN @ + 1 ELSE @]
    BY <1>2 DEF Record
  <2>2. CASE p.caller = c /\ p.reading.source = s
    <3>1. LateAllowed(c, s) /\ x = <<c, s>> /\ s \in Sources /\ x \in Callers \X Sources
      BY <2>1, <2>2, <1>0 DEF LateInv
    <3>2. late[x] = 0
      BY <2>2, <3>1 DEF LateAllowed
    <3>3. late'[x] = 1
      BY <2>1, <2>2, <3>1, <3>2, <1>0
    <3>4. \A q \in passed' : q.caller # c
      BY <2>1, <2>2 DEF TypeInv, Alone
    <3> QED BY <3>1, <3>3, <3>4 DEF LateAllowed
  <2>3. CASE ~(p.caller = c /\ p.reading.source = s)
    <3>1. <<c, s>> # x /\ <<c, s>> \in Callers \X Sources
      BY <2>1, <2>3, <1>0
    <3>2. late'[<<c, s>>] = late[<<c, s>>]
      BY <2>1, <3>1, <1>0
    <3> QED BY <2>1, <3>2 DEF LateInv, LateAllowed
  <2> QED BY <2>2, <2>3
<1>3. ASSUME NEW p \in passed, Drop(p) PROVE LateAllowed(c, s)'
  BY <1>3 DEF Drop, LateInv, LateAllowed
<1>4. ASSUME NEW q \in Sources, RevokeSource(q) PROVE LateAllowed(c, s)'
  <2>1. /\ revoked' = revoked \cup {q} /\ UNCHANGED <<required, passed>>
        /\ late' = IF q \in revoked THEN late ELSE ForgetLate(q)
    BY <1>4 DEF RevokeSource
  <2>2. <<c, s>> \in Callers \X Sources
    BY <2>1, <1>0
  <2>3. CASE s \in revoked
    <3>1. late'[<<c, s>>] = late[<<c, s>>] \/ late'[<<c, s>>] = 0
      BY <2>1, <2>2 DEF ForgetLate
    <3> QED BY <2>1, <2>3, <3>1 DEF LateInv, LateAllowed
  <2>4. CASE s \notin revoked
    <3>1. s = q /\ q \notin revoked
      BY <2>1, <2>4
    <3>2. late'[<<c, s>>] = 0
      BY <2>1, <2>2, <3>1 DEF ForgetLate
    <3> QED BY <3>2 DEF LateAllowed
  <2> QED BY <2>3, <2>4
<1>5. ASSUME NEW q \in Sources, RestoreSource(q) PROVE LateAllowed(c, s)'
  <2>1. revoked' = revoked \ {q} /\ UNCHANGED <<required, passed>> /\ late' = ForgetLate(q)
    BY <1>5 DEF RestoreSource
  <2>2. late'[<<c, s>>] = late[<<c, s>>] /\ s \in revoked
    BY <2>1, <1>0 DEF ForgetLate
  <2> QED BY <2>1, <2>2 DEF LateInv, LateAllowed
<1>6. CASE UNCHANGED vars
  BY <1>6 DEF vars, LateInv, LateAllowed
<1> QED BY <1>1, <1>2, <1>3, <1>4, <1>5, <1>6 DEF Next

\* Of a revoked source no caller records more than the one reading it had checked before.
THEOREM RevocationIsFinal == Spec => []RevocationStops
<1>1. Init => LateInv
  BY DEF Init, LateInv, LateAllowed, SensorAssumption
<1>2. TypeInv /\ LateInv => RevocationStops
  <2> SUFFICES ASSUME TypeInv, LateInv, "source" \in required, NEW s \in revoked, NEW c \in Callers
               PROVE  late[<<c, s>>] <= 1
    BY DEF RevocationStops
  <2>1. LateAllowed(c, s)
    BY DEF LateInv
  <2> QED BY <2>1 DEF LateAllowed
<1> QED BY <1>1, <1>2, LateStep, TypeInvCorrect, PTL DEF Spec

(***************************************************************************)
(* The drift of the recorded SOC                                           *)
(***************************************************************************)
\* With one caller: nothing is on the trail before the first reading of the history,
\* which carries the latest stamp, and what waits is plausible against it.
TrailInv ==
  OneCaller =>
    /\ previous = {} => trail = {}
    /\ \A p \in previous : /\ [soc |-> p.reading.soc, stamp |-> p.stamp] \in trail
                           /\ \A e \in trail : e.stamp <= p.stamp
    /\ "plausibility" \in required => \A q \in passed : Plausible(q.reading, q.stamp)
    /\ DriftIsBounded

\* From a at x to b at y the limit is kept; over two periods in a row it is kept too.
Within(a, x, b, y) == Abs(b - a) <= MaxSocRate * (y - x)

LEMMA DriftAdds ==
  ASSUME NEW a \in Int, NEW b \in Int, NEW c \in Int,
         NEW x \in Int, NEW y \in Int, NEW z \in Int,
         Within(a, x, b, y), Within(b, y, c, z)
  PROVE  Within(a, x, c, z)
<1>1. MaxSocRate * (z - x) = MaxSocRate * (y - x) + MaxSocRate * (z - y)
  BY DEF SensorAssumption
<1>2. Abs(c - a) <= Abs(b - a) + Abs(c - b)
  BY DEF Abs
<1>3. MaxSocRate * (y - x) \in Int /\ MaxSocRate * (z - y) \in Int
  BY DEF SensorAssumption
<1>4. Abs(b - a) \in Int /\ Abs(c - b) \in Int /\ Abs(c - a) \in Int
  BY DEF Abs
<1>5. Abs(b - a) <= MaxSocRate * (y - x) /\ Abs(c - b) <= MaxSocRate * (z - y)
  BY DEF Within
<1> QED BY <1>1, <1>2, <1>3, <1>4, <1>5 DEF Within

LEMMA TrailStep == TypeInv /\ TrailInv /\ [Next]_vars => TrailInv'
<1> SUFFICES ASSUME TypeInv, TrailInv, [Next]_vars, OneCaller' PROVE TrailInv'
  BY DEF TrailInv
<1>1. ASSUME NEW c \in Callers, NEW r \in Readings, NEW t \in Stamps \cup {None}, Check(c, r, t)
      PROVE  TrailInv'
  <2>1. /\ passed' = passed \cup {[caller |-> c, reading |-> r, stamp |-> t,
                                   seen |-> Len(accepted[r.source])]}
        /\ UNCHANGED <<required, serves, previous, trail>>
        /\ "plausibility" \in required => Plausible(r, t)
    BY <1>1 DEF Check, Passes
  <2> QED BY <2>1 DEF TrailInv, Plausible, DriftIsBounded, OneCaller
<1>2. ASSUME NEW p \in passed, Record(p), "plausibility" \in required PROVE TrailInv'
  <2> DEFINE f == [soc |-> p.reading.soc, stamp |-> p.stamp]
  <2>1. /\ passed' = passed \ {p} /\ UNCHANGED <<required, serves>>
        /\ previous' = {[reading |-> p.reading, stamp |-> p.stamp]}
        /\ trail' = trail \cup {f}
    BY <1>2 DEF Record, RecordHistory
  <2>0. OneCaller
    BY <2>1 DEF OneCaller
  <2>2. /\ p.reading \in Readings /\ p.reading.soc \in Int
        /\ p.stamp \in Stamps /\ p.stamp \in Int /\ Plausible(p.reading, p.stamp)
    BY <2>0, <1>2, PassedType DEF TypeInv, TrailInv, Plausible, Stamps
  <2>3. passed' = {}
    <3>1. ASSUME NEW q \in passed PROVE q = p
      <4>1. q.caller \in Callers /\ p.caller \in Callers
        BY PassedType DEF TypeInv
      <4>2. q.caller = p.caller
        BY <2>0, <4>1 DEF OneCaller, TypeInv, Alone
      <4> QED BY <4>2 DEF TypeInv, Alone
    <3> QED BY <2>1, <3>1
  <2>4. \A e \in trail : /\ e.soc \in Int /\ e.stamp \in Int /\ e.stamp < p.stamp
                        /\ Abs(p.reading.soc - e.soc) <= MaxSocRate * (p.stamp - e.stamp)
    <3> SUFFICES ASSUME NEW e \in trail
                 PROVE  /\ e.soc \in Int /\ e.stamp \in Int /\ e.stamp < p.stamp
                        /\ Abs(p.reading.soc - e.soc) <= MaxSocRate * (p.stamp - e.stamp)
      OBVIOUS
    <3>1. e.soc \in Int /\ e.stamp \in Int
      BY DEF TypeInv, TypeOK, Stamps
    <3>2. PICK b \in previous : TRUE
      BY <2>0 DEF TrailInv
    <3>3. b \in [reading : Readings, stamp : Stamps]
      BY DEF TypeInv, TypeOK
    <3>4. b.reading \in Reading /\ b.stamp \in Int
      BY <3>3 DEF Stamps, SensorAssumption
    <3>5. b.reading.soc \in Int
      BY <3>4 DEF Reading
    <3> DEFINE g == [soc |-> b.reading.soc, stamp |-> b.stamp]
    <3>6. g \in trail /\ e.stamp <= g.stamp /\ DriftIsBounded
      BY <2>0 DEF TrailInv
    <3>7. Abs(g.soc - e.soc) <= MaxSocRate * (g.stamp - e.stamp)
      BY <3>6, <2>0 DEF DriftIsBounded
    <3>8. Abs(b.reading.soc - e.soc) <= MaxSocRate * (b.stamp - e.stamp)
      BY <3>7
    <3>9. /\ p.stamp - b.stamp > 0
          /\ Abs(p.reading.soc - b.reading.soc) <= MaxSocRate * (p.stamp - b.stamp)
      BY <2>2 DEF Plausible
    <3>10. Abs(p.reading.soc - e.soc) <= MaxSocRate * (p.stamp - e.stamp)
      <4>1. p.reading.soc \in Int /\ p.stamp \in Int
        BY <2>2
      <4>2. /\ Within(e.soc, e.stamp, b.reading.soc, b.stamp)
            /\ Within(b.reading.soc, b.stamp, p.reading.soc, p.stamp)
        BY <3>8, <3>9 DEF Within
      <4>3. e.soc \in Int /\ e.stamp \in Int /\ b.stamp \in Int /\ b.reading.soc \in Int
        BY <3>1, <3>4, <3>5
      <4>4. Within(e.soc, e.stamp, p.reading.soc, p.stamp)
        BY <4>1, <4>2, <4>3, DriftAdds
      <4> QED BY <4>4 DEF Within
    <3>11. e.stamp <= b.stamp
      BY <3>6
    <3>12. e.stamp < p.stamp
      BY <3>1, <3>4, <3>9, <3>11, <2>2
    <3> QED BY <3>1, <3>10, <3>12
  <2>5. DriftIsBounded'
    <3> SUFFICES ASSUME NEW e \in trail', NEW h \in trail', e.stamp <= h.stamp
                 PROVE  /\ Abs(h.soc - e.soc) <= MaxSocRate * (h.stamp - e.stamp)
                        /\ e # h => e.stamp < h.stamp
      BY DEF DriftIsBounded
    <3>1. CASE e \in trail /\ h \in trail
      BY <3>1, <2>0 DEF TrailInv, DriftIsBounded
    <3>2. CASE e \in trail /\ h = f
      BY <3>2, <2>4
    <3>3. CASE e = f /\ h \in trail
      BY <3>3, <2>2, <2>4
    <3>4. CASE e = f /\ h = f
      <4>1. h.soc - e.soc = 0 /\ h.stamp - e.stamp = 0
        BY <3>4, <2>2
      <4>2. Abs(0) <= MaxSocRate * 0
        BY DEF Abs, SensorAssumption
      <4> QED BY <4>1, <4>2, <3>4
    <3> QED BY <3>1, <3>2, <3>3, <3>4, <2>1
  <2>6. /\ f \in trail' /\ \A e \in trail' : e.stamp <= p.stamp
    BY <2>1, <2>2, <2>4
  <2>7. previous' # {} /\ \A q \in previous' : q.reading = p.reading /\ q.stamp = p.stamp
    BY <2>1
  <2>8. \A q \in previous' : /\ [soc |-> q.reading.soc, stamp |-> q.stamp] \in trail'
                            /\ \A e \in trail' : e.stamp <= q.stamp
    BY <2>6, <2>7
  <2>9. \A q \in passed' : Plausible(q.reading, q.stamp)'
    BY <2>3
  <2> QED BY <2>5, <2>7, <2>8, <2>9 DEF TrailInv
<1>3. ASSUME NEW p \in passed, Record(p), "plausibility" \notin required PROVE TrailInv'
  <2>1. UNCHANGED <<required, serves, previous, trail>>
    BY <1>3 DEF Record
  <2> QED BY <2>1, <1>3 DEF TrailInv, DriftIsBounded, OneCaller
<1>4. ASSUME NEW p \in passed, Drop(p) PROVE TrailInv'
  <2>1. passed' \subseteq passed /\ UNCHANGED <<required, serves, previous, trail>>
    BY <1>4 DEF Drop
  <2> QED BY <2>1 DEF TrailInv, Plausible, DriftIsBounded, OneCaller
<1>5. ASSUME NEW s \in Sources, RevokeSource(s) \/ RestoreSource(s) PROVE TrailInv'
  <2>1. UNCHANGED <<required, serves, previous, trail, passed>>
    BY <1>5 DEF RevokeSource, RestoreSource
  <2> QED BY <2>1 DEF TrailInv, Plausible, DriftIsBounded, OneCaller
<1>6. CASE UNCHANGED vars
  BY <1>6 DEF vars, TrailInv, Plausible, DriftIsBounded, OneCaller
<1> QED BY <1>1, <1>2, <1>3, <1>4, <1>5, <1>6 DEF Next

\* The recorded SOC never drifts faster than its limit, over any period.
THEOREM DriftNeverExceeds == Spec => []DriftIsBounded
<1>1. Init => TrailInv
  BY DEF Init, TrailInv, DriftIsBounded
<1>2. TrailInv => DriftIsBounded
  BY DEF TrailInv, DriftIsBounded
<1> QED BY <1>1, <1>2, TrailStep, TypeInvCorrect, PTL DEF Spec
=============================================================================
