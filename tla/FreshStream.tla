----------------------------- MODULE FreshStream -----------------------------
(***************************************************************************)
(* What ReplayValidator promises of the readings it records: each follows  *)
(* what was recorded of its source when it was checked, by the next        *)
(* counter, modulo the wraparound, and a later stamp, where both carry     *)
(* one. For a source that one caller handles nothing is recorded between   *)
(* the two, and the stream is consecutive. Lost, repeated and reordered    *)
(* readings do not change that.                                            *)
(***************************************************************************)
EXTENDS Integers, Sequences

CONSTANTS
  Sources,
  Entry,        \* what is recorded: a record of a counter and a stamp
  MaxCounter    \* max_counter, after which a counter returns to 0

None == -1

VARIABLES
  accepted,     \* what was recorded of each source, in order, each entry with seen,
                \* the number of entries it was compared with
  serial        \* the sources handled by one caller, which do not change

Successor(c) == IF c = MaxCounter THEN 0 ELSE c + 1

\* e follows the first k entries of a stream. A source begins with any counter; an entry
\* without a stamp may come in between.
Follows(e, stream, k) ==
  /\ e.counter \in 0..MaxCounter
  /\ k > 0 => e.counter = Successor(stream[k].counter)
  /\ \A i \in 1..k :
       e.stamp # None /\ stream[i].stamp # None /\ (\A j \in (i + 1)..k : stream[j].stamp = None)
         => stream[i].stamp < e.stamp

Accept(s, e, k) ==
  /\ accepted' = [accepted EXCEPT ![s] =
                    Append(@, [counter |-> e.counter, stamp |-> e.stamp, seen |-> k])]
  /\ Follows(e, accepted[s], k)
  /\ s \in serial => k = Len(accepted[s])
  /\ UNCHANGED serial

Init == accepted = [s \in Sources |-> <<>>] /\ serial \subseteq Sources
Next == \E s \in Sources, e \in Entry : \E k \in 0..Len(accepted[s]) : Accept(s, e, k)
Spec == Init /\ [][Next]_<<accepted, serial>>
=============================================================================
