----------------------------- MODULE FindingOps -----------------------------
(***************************************************************************)
(* The finding of one root cause and the operations finding.py and         *)
(* remediation.py apply to it, as functions from a finding to a finding.   *)
(*                                                                         *)
(* An evidence record's hash is abstracted by a positive number (the       *)
(* record's position in its hash chain): equal hashes are equal numbers.   *)
(* The descriptive fields (title, severity, component, owner) are left     *)
(* out.                                                                    *)
(***************************************************************************)
EXTENDS Naturals

\* NONE: the registry holds no finding for the root cause.
FindingStatus == {"NONE", "OPEN", "REMEDIATED_PENDING_RETEST", "CLOSED"}

\* links: evidence_record_hashes; retest: retest_evidence_hash, 0 for None.
Finding == [status : FindingStatus, links : SUBSET (Nat \ {0}), retest : Nat]

NoFinding == [status |-> "NONE", links |-> {}, retest |-> 0]

\* A first failure creates an OPEN finding; a later one is linked to it, whatever
\* the finding's status.
CreateOrLink(f, h) ==
  [f EXCEPT !.status = IF @ = "NONE" THEN "OPEN" ELSE @,
            !.links  = @ \union {h}]

ApplyRemediation(f) == [f EXCEPT !.status = "REMEDIATED_PENDING_RETEST"]

\* mutant: the hash of the retest's evidence is not kept
RecordRetestOnly(f, outcome, h) ==
  [f EXCEPT !.status = IF outcome = "PASS" THEN "CLOSED" ELSE "OPEN"]

\* Callable only on a finding in REMEDIATED_PENDING_RETEST.
RecordRetest(f, outcome, h) ==
  [f EXCEPT !.status = IF outcome = "PASS" THEN "CLOSED" ELSE "OPEN",
            !.retest = h]

\* What CampaignRunner does to a finding when a case that retests it passes.
CloseByRetest(f, h) ==
  IF f.status \in {"NONE", "CLOSED"}
  THEN f
  ELSE RecordRetest(IF f.status = "OPEN" THEN ApplyRemediation(f) ELSE f, "PASS", h)
=============================================================================
