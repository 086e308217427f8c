--------------------------- MODULE EvidenceLedger ---------------------------
(***************************************************************************)
(* What the campaign promises about its evidence, without processes,       *)
(* checkpoints or kills: a ledger that grows by the next case of the       *)
(* campaign under the released version, and that is set aside whole when   *)
(* another version finds it.                                               *)
(***************************************************************************)
EXTENDS Naturals, Sequences

CONSTANTS CaseCount, MaxVersion

VARIABLES ledger, release

Entry(s) == [test |-> Len(ledger) + 1, status |-> s, sig |-> release,
             prev |-> Len(ledger)]

HoldsOnly(v) == \A i \in DOMAIN ledger : ledger[i].sig = v

Init == ledger = <<>> /\ release = 0

\* The next case, and no other, is recorded under the released version.
RecordNext ==
  /\ release \in 1..MaxVersion /\ HoldsOnly(release)
  /\ Len(ledger) < CaseCount
  /\ \E s \in {"PASS", "FAIL", "ERROR"} : ledger' = Append(ledger, Entry(s))
  /\ UNCHANGED release

SetAside ==
  /\ ledger # <<>> /\ \A i \in DOMAIN ledger : ledger[i].sig # release
  /\ ledger' = <<>>
  /\ UNCHANGED release

Release ==
  /\ release' \in 1..MaxVersion
  /\ release' >= release
  /\ UNCHANGED ledger

Next == RecordNext \/ SetAside \/ Release

Spec == Init /\ [][Next]_<<ledger, release>>
=============================================================================
