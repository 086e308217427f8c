--------------------------- MODULE CampaignRunner ---------------------------
(***************************************************************************)
(* campaign_builder.CampaignRunner with its checkpoint, its evidence store *)
(* and its finding registry, as main.py runs it: one process at a time     *)
(* over an output directory, which may be killed between any two effects   *)
(* on the disk and started again, by the same or by another code version.  *)
(*                                                                         *)
(* Abstractions.                                                           *)
(*  - The campaign signature is the code version: the case list of a       *)
(*    version is fixed, and test identifiers are positions in that list.   *)
(*  - A record's hash is its position in its writer's chain; GENESIS is 0. *)
(*  - The evidence file exists iff it holds a record. A line fits the      *)
(*    stream's buffer and reaches the file in one system call, which a     *)
(*    kill of the process does not split (a power loss could);             *)
(*    checkpoint.json is truncated by one call and written by another.     *)
(*  - The reports are written for people and never read back: left out,    *)
(*    as are the summary's counters that the exit status does not use.     *)
(*  - A storage error is raised through main.py and ends the process: it   *)
(*    leaves the disk as a kill at the same point does (Crash).            *)
(***************************************************************************)
EXTENDS FindingOps, Sequences, FiniteSets

CONSTANTS
  CaseCount,         \* number of cases of the campaign
  RootCause,         \* case -> the root cause its failure reveals, or NoRoot
  RetestOf,          \* case -> the root cause it retests, or NoRoot
  Expected,          \* case -> its expected status
  Roots, NoRoot,
  MaxVersion,        \* code versions are 1..MaxVersion, in order of release
  AllowRevert,       \* may an older version run after a newer one?
  CrashTearsFiles,   \* may a kill hit a file between truncation and writing?
  Limits,            \* values of --max-cases; CaseCount stands for None
  MaxCrashes         \* bound on the number of kills (model bound)

ASSUME CampaignAssumption ==
  /\ CaseCount \in Nat \ {0}
  /\ MaxVersion \in Nat \ {0}
  /\ NoRoot \notin Roots
  /\ RootCause \in [1..CaseCount -> Roots \union {NoRoot}]
  /\ RetestOf \in [1..CaseCount -> Roots \union {NoRoot}]
  /\ Expected \in [1..CaseCount -> {"PASS", "FAIL", "ERROR"}]
  /\ AllowRevert \in BOOLEAN
  /\ CrashTearsFiles \in BOOLEAN
  /\ Limits \subseteq Nat
  /\ MaxCrashes \in Nat

Tests    == 1..CaseCount
Versions == 1..MaxVersion
Status   == {"PASS", "FAIL", "ERROR"}
Missing  == "none"                  \* completed.get(test_id) is None

VARIABLES
  \* the output directory
  evidence,     \* evidence.jsonl
  archive,      \* evidence.stale.jsonl
  checkpoint,   \* checkpoint.json
  \* the process
  pc,
  version,      \* code version of the current or last process; 0 before any
  limit,        \* max_new_cases
  records,      \* EvidenceStore.records
  completed,    \* CampaignCheckpoint.completed
  findings,     \* FindingRegistry
  cursor,       \* the case the loop of run() is at
  executed,     \* newly_executed
  unexpected,   \* unexpected results seen by the loop
  exit,         \* how the last process that ended by itself ended
  crashes

disk    == <<evidence, archive, checkpoint>>
memory  == <<limit, records, completed, findings, cursor, executed, unexpected>>
vars    == <<disk, memory, pc, version, exit, crashes>>

Record == [test : Tests, status : Status, sig : Versions, prev : Nat]

\* checkpoint.json: not there, truncated and not yet rewritten, or whole.
Checkpoint == [state     : {"absent", "torn", "whole"},
               sig       : 0..MaxVersion,
               completed : [Tests -> Status \union {Missing}]]

NothingCompleted == [t \in Tests |-> Missing]
UnreadableCheckpoint(s) == [state |-> s, sig |-> 0, completed |-> NothingCompleted]

PCs == {"down", "unlinkArchive", "moveEvidence", "unlinkCheckpoint", "reconcile",
        "reconcileWrite", "run", "append", "mark", "markWrite", "respond"}

TypeOK ==
  /\ evidence \in Seq(Record)
  /\ archive \in Seq(Record)
  /\ checkpoint \in Checkpoint
  /\ pc \in PCs
  /\ version \in 0..MaxVersion
  /\ limit \in Nat
  /\ records \in Seq(Record)
  /\ completed \in [Tests -> Status \union {Missing}]
  /\ findings \in [Roots -> Finding]
  /\ cursor \in 1..(CaseCount + 1)
  /\ executed \in Nat
  /\ unexpected \in Nat
  /\ exit \in {"none", "zero", "one", "raised"}
  /\ crashes \in Nat

(***************************************************************************)
(* Findings                                                                *)
(***************************************************************************)
NoFindings == [r \in Roots |-> NoFinding]

\* _process_response: record h, of case t and status s, on the registry fs.
ProcessResponse(fs, t, s, h) ==
  LET linked == IF RootCause[t] # NoRoot /\ s = "FAIL"
                THEN [fs EXCEPT ![RootCause[t]] = CreateOrLink(@, h)]
                ELSE fs
  IN  IF RetestOf[t] # NoRoot /\ s = "PASS"
      THEN [linked EXCEPT ![RetestOf[t]] = CloseByRetest(@, h)]
      ELSE linked

FailuresOf(recs, r) ==
  {i \in DOMAIN recs : RootCause[recs[i].test] = r /\ recs[i].status = "FAIL"}
RetestsOf(recs, r) ==
  {i \in DOMAIN recs : RetestOf[recs[i].test] = r /\ recs[i].status = "PASS"}

\* The finding of a root cause with the failures F and the passing retests T: the
\* first retest closes it, the later ones meet a CLOSED finding and change nothing.
FindingOf(F, T) ==
  [status |-> IF F = {} THEN "NONE" ELSE IF T = {} THEN "OPEN" ELSE "CLOSED",
   links  |-> F,
   retest |-> IF F = {} \/ T = {} THEN 0 ELSE CHOOSE i \in T : \A j \in T : i <= j]

\* mutant: the second pass, over the passing retests, is missing
RestoreFailuresOnly(recs) == [r \in Roots |-> FindingOf(FailuresOf(recs, r), {})]

\* _restore_response_state, in closed form (RestoreIsReplay has the loops).
RestoreFindings(recs) ==
  [r \in Roots |-> FindingOf(FailuresOf(recs, r), RetestsOf(recs, r))]

\* The loops of _restore_response_state as they run: a first pass over the chain
\* links every failure to its finding, a second one applies every passing retest.
Linked(recs) ==
  LET fs[i \in 0..Len(recs)] ==
        IF i = 0 THEN NoFindings
        ELSE IF RootCause[recs[i].test] # NoRoot /\ recs[i].status = "FAIL"
        THEN [fs[i-1] EXCEPT ![RootCause[recs[i].test]] = CreateOrLink(@, i)]
        ELSE fs[i-1]
  IN  fs

Closed(recs) ==
  LET fs[i \in 0..Len(recs)] ==
        IF i = 0 THEN Linked(recs)[Len(recs)]
        ELSE IF RetestOf[recs[i].test] # NoRoot /\ recs[i].status = "PASS"
        THEN [fs[i-1] EXCEPT ![RetestOf[recs[i].test]] = CloseByRetest(@, i)]
        ELSE fs[i-1]
  IN  fs

RestoreByReplay(recs) == Closed(recs)[Len(recs)]

(***************************************************************************)
(* The constructor: load, then archive what is stale or rebuild what is    *)
(* missing.                                                                *)
(***************************************************************************)
\* verify_chain: every record names the hash of the one before it.
VerifyChain(recs) == \A i \in DOMAIN recs : recs[i].prev = i - 1

\* json.loads of a truncated checkpoint raises, a broken chain raises.
Loadable == checkpoint.state # "torn" /\ VerifyChain(evidence)

\* mutant: a missing checkpoint counts as a stale one
CheckpointIsNotCurrent(v) == ~(checkpoint.state = "whole" /\ checkpoint.sig = v)

CheckpointIsStale(v) == checkpoint.state = "whole" /\ checkpoint.sig # v
EvidenceIsStale(v)   == \E i \in DOMAIN evidence : evidence[i].sig # v

Loaded(v) == IF checkpoint.state = "whole" THEN checkpoint.completed
             ELSE NothingCompleted

\* An older version runs again only where the model says so.
MayStart(v) == pc = "down" /\ (AllowRevert \/ v >= version)

StartRaises(v) ==
  /\ MayStart(v) /\ ~Loadable
  /\ version' = v
  /\ exit' = "raised"
  /\ UNCHANGED <<disk, memory, pc, crashes>>

BeginProcess(v, k) ==
  /\ version' = v
  /\ limit' = k
  /\ cursor' = 1 /\ executed' = 0 /\ unexpected' = 0
  /\ findings' = NoFindings
  /\ exit' = "none"
  /\ UNCHANGED <<disk, crashes>>

StartStale(v, k) ==
  /\ MayStart(v) /\ Loadable
  /\ CheckpointIsStale(v) \/ EvidenceIsStale(v)
  /\ BeginProcess(v, k)
  /\ records' = <<>> /\ completed' = NothingCompleted
  /\ pc' = IF evidence # <<>> THEN "unlinkArchive" ELSE "unlinkCheckpoint"

StartMatching(v, k) ==
  /\ MayStart(v) /\ Loadable
  /\ ~CheckpointIsStale(v) /\ ~EvidenceIsStale(v)
  /\ BeginProcess(v, k)
  /\ records' = evidence /\ completed' = Loaded(v)
  /\ pc' = "reconcile"

UnlinkArchive ==
  /\ pc = "unlinkArchive"
  /\ archive' = <<>>
  /\ pc' = "moveEvidence"
  /\ UNCHANGED <<evidence, checkpoint, memory, version, exit, crashes>>

\* mutant: the prior chain is copied and left in place
CopyEvidence ==
  /\ pc = "moveEvidence"
  /\ archive' = evidence
  /\ pc' = "unlinkCheckpoint"
  /\ UNCHANGED <<evidence, checkpoint, memory, version, exit, crashes>>

MoveEvidence ==
  /\ pc = "moveEvidence"
  /\ archive' = evidence /\ evidence' = <<>>
  /\ pc' = "unlinkCheckpoint"
  /\ UNCHANGED <<checkpoint, memory, version, exit, crashes>>

\* mutant: archiving keeps the old checkpoint
KeepCheckpoint ==
  /\ pc = "unlinkCheckpoint"
  /\ completed' = Loaded(version)
  /\ pc' = "run"
  /\ UNCHANGED <<disk, version, exit, crashes, limit, records, findings, cursor,
                 executed, unexpected>>

\* Both files are gone when they are loaded again: the fresh run starts empty.
UnlinkCheckpoint ==
  /\ pc = "unlinkCheckpoint"
  /\ checkpoint' = UnreadableCheckpoint("absent")
  /\ pc' = "run"
  /\ UNCHANGED <<evidence, archive, memory, version, exit, crashes>>

(***************************************************************************)
(* CampaignCheckpoint.mark: the table in memory, then the file, which      *)
(* write_text truncates before it writes.                                  *)
(***************************************************************************)
MarkInMemory(t, s) ==
  /\ completed' = [completed EXCEPT ![t] = s]
  /\ checkpoint' = UnreadableCheckpoint("torn")

WriteCheckpoint ==
  checkpoint' = [state |-> "whole", sig |-> version, completed |-> completed]

Unreconciled == {i \in DOMAIN records : completed[records[i].test] = Missing}

\* mutant: the checkpoint is not rebuilt from the evidence chain
NothingToReconcile == {}

ToReconcile == Unreconciled

ReconcileMark(i) ==
  /\ pc = "reconcile"
  /\ i \in ToReconcile /\ \A j \in ToReconcile : i <= j
  /\ MarkInMemory(records[i].test, records[i].status)
  /\ pc' = "reconcileWrite"
  /\ UNCHANGED <<evidence, archive, version, exit, crashes, limit, records,
                 findings, cursor, executed, unexpected>>

ReconcileWrite ==
  /\ pc = "reconcileWrite"
  /\ WriteCheckpoint
  /\ pc' = "reconcile"
  /\ UNCHANGED <<evidence, archive, memory, version, exit, crashes>>

Restore ==
  /\ pc = "reconcile" /\ ToReconcile = {}
  /\ findings' = RestoreFindings(records)
  /\ pc' = "run"
  /\ UNCHANGED <<disk, version, exit, crashes, limit, records, completed, cursor,
                 executed, unexpected>>

(***************************************************************************)
(* run()                                                                   *)
(***************************************************************************)
InLoop == pc = "run" /\ cursor <= CaseCount

\* mutant: a resumed case is taken to have matched
ResumeAsExpected ==
  /\ InLoop /\ completed[cursor] # Missing
  /\ cursor' = cursor + 1
  /\ UNCHANGED <<disk, pc, version, exit, crashes, limit, records, completed,
                 findings, executed, unexpected>>

\* The case has a saved status: counted and not executed again.
Resume ==
  /\ InLoop /\ completed[cursor] # Missing
  /\ unexpected' = unexpected + IF completed[cursor] = Expected[cursor] THEN 0 ELSE 1
  /\ cursor' = cursor + 1
  /\ UNCHANGED <<disk, pc, version, exit, crashes, limit, records, completed,
                 findings, executed>>

\* mutant: the record links to nothing
ExecuteUnlinked(s) ==
  /\ InLoop /\ completed[cursor] = Missing /\ executed < limit
  /\ records' = Append(records, [test |-> cursor, status |-> s, sig |-> version,
                                 prev |-> 0])
  /\ pc' = "append"
  /\ UNCHANGED <<disk, version, exit, crashes, limit, completed, findings, cursor,
                 executed, unexpected>>

\* The executor's observation has status s, ERROR when it raises. append()
\* links the record to the last one in memory and keeps it there first.
Execute(s) ==
  /\ InLoop /\ completed[cursor] = Missing /\ executed < limit
  /\ records' = Append(records, [test |-> cursor, status |-> s, sig |-> version,
                                 prev |-> Len(records)])
  /\ pc' = "append"
  /\ UNCHANGED <<disk, version, exit, crashes, limit, completed, findings, cursor,
                 executed, unexpected>>

LastRecord == records[Len(records)]

AppendToFile ==
  /\ pc = "append"
  /\ evidence' = Append(evidence, LastRecord)
  /\ pc' = "mark"
  /\ UNCHANGED <<archive, checkpoint, memory, version, exit, crashes>>

\* mutant: anything but a failure is marked as passed
MarkErrorAsPass ==
  /\ pc = "mark"
  /\ MarkInMemory(cursor, IF LastRecord.status = "FAIL" THEN "FAIL" ELSE "PASS")
  /\ pc' = "markWrite"
  /\ UNCHANGED <<evidence, archive, version, exit, crashes, limit, records,
                 findings, cursor, executed, unexpected>>

Mark ==
  /\ pc = "mark"
  /\ MarkInMemory(cursor, LastRecord.status)
  /\ pc' = "markWrite"
  /\ UNCHANGED <<evidence, archive, version, exit, crashes, limit, records,
                 findings, cursor, executed, unexpected>>

MarkWrite ==
  /\ pc = "markWrite"
  /\ WriteCheckpoint
  /\ pc' = "respond"
  /\ UNCHANGED <<evidence, archive, memory, version, exit, crashes>>

\* mutant: the failure is not handed to the response loop
SkipResponse ==
  /\ pc = "respond"
  /\ executed' = executed + 1
  /\ unexpected' = unexpected
       + IF LastRecord.status = Expected[cursor] THEN 0 ELSE 1
  /\ cursor' = cursor + 1
  /\ pc' = "run"
  /\ UNCHANGED <<disk, version, exit, crashes, limit, records, completed, findings>>

Respond ==
  /\ pc = "respond"
  /\ findings' = ProcessResponse(findings, cursor, LastRecord.status, Len(records))
  /\ executed' = executed + 1
  /\ unexpected' = unexpected
       + IF LastRecord.status = Expected[cursor] THEN 0 ELSE 1
  /\ cursor' = cursor + 1
  /\ pc' = "run"
  /\ UNCHANGED <<disk, version, exit, crashes, limit, records, completed>>

\* The loop ends after the last case, or breaks at max_new_cases.
LoopEnded ==
  /\ pc = "run"
  /\ cursor <= CaseCount => completed[cursor] = Missing /\ executed >= limit

Clean ==
  /\ \A t \in Tests : completed[t] # Missing
  /\ unexpected = 0
  /\ \A r \in Roots : findings[r].status \in {"NONE", "CLOSED"}

\* What a process that ended keeps in memory: nothing.
ForgetMemory ==
  /\ records' = <<>> /\ completed' = NothingCompleted /\ findings' = NoFindings
  /\ limit' = 0 /\ cursor' = 1 /\ executed' = 0 /\ unexpected' = 0

Finish ==
  /\ LoopEnded
  /\ exit' = IF Clean THEN "zero" ELSE "one"
  /\ pc' = "down"
  /\ ForgetMemory
  /\ UNCHANGED <<disk, version, crashes>>

(***************************************************************************)
(* The environment                                                         *)
(***************************************************************************)
\* The process is killed; the disk keeps what was written so far.
Crash ==
  /\ pc # "down" /\ crashes < MaxCrashes
  /\ pc \in {"reconcileWrite", "markWrite"} => CrashTearsFiles
  /\ crashes' = crashes + 1
  /\ pc' = "down"
  /\ exit' = "none"
  /\ ForgetMemory
  /\ UNCHANGED <<disk, version>>

\* A fresh clone holds the evidence and not the checkpoint, which git ignores.
FreshClone ==
  /\ pc = "down" /\ checkpoint.state # "absent"
  /\ checkpoint' = UnreadableCheckpoint("absent")
  /\ UNCHANGED <<evidence, archive, pc, version, exit, crashes, memory>>

Init ==
  /\ evidence = <<>> /\ archive = <<>>
  /\ checkpoint = UnreadableCheckpoint("absent")
  /\ pc = "down" /\ version = 0 /\ exit = "none" /\ crashes = 0
  /\ limit = 0 /\ records = <<>> /\ completed = NothingCompleted
  /\ findings = NoFindings /\ cursor = 1 /\ executed = 0 /\ unexpected = 0

Start == \E v \in Versions :
           \/ StartRaises(v)
           \/ \E k \in Limits : StartStale(v, k) \/ StartMatching(v, k)

Archive   == UnlinkArchive \/ MoveEvidence \/ UnlinkCheckpoint
Reconcile == (\E i \in DOMAIN records : ReconcileMark(i)) \/ ReconcileWrite \/ Restore
Run       == Resume \/ (\E s \in Status : Execute(s)) \/ AppendToFile \/ Mark
             \/ MarkWrite \/ Respond \/ Finish

Process == Archive \/ Reconcile \/ Run
Next    == Start \/ Process \/ Crash \/ FreshClone

Spec == Init /\ [][Next]_vars

\* A started process takes its next step, and the operator runs the command again.
FairSpec == Spec /\ WF_vars(Process) /\ WF_vars(Start)

(***************************************************************************)
(* Properties                                                              *)
(***************************************************************************)
\* Between two cases, with everything a case does behind it.
BetweenCases == pc = "run"

\* The evidence on disk is the campaign's case list up to some case, each case once
\* and in order, all by one code version, however often the runs that produced it
\* were killed, limited or resumed: no record is duplicated or missing, so the
\* campaign digest depends only on the outcomes (test_campaign_reproducibility.py).
EvidenceIsCampaignPrefix ==
  /\ Len(evidence) <= CaseCount
  /\ \A i \in DOMAIN evidence :
       evidence[i].test = i /\ evidence[i].sig = evidence[1].sig

\* A case the runner counts as completed has a record of the running version with
\* that status in the evidence file: a result is never taken from a checkpoint whose
\* evidence is gone, and ERROR is never turned into PASS on the way.
CompletedIsRecorded ==
  BetweenCases =>
    \A t \in Tests : completed[t] # Missing =>
      \E i \in DOMAIN evidence : /\ evidence[i].test = t
                                 /\ evidence[i].status = completed[t]
                                 /\ evidence[i].sig = version

\* What any start loads back from disk verifies as a hash chain, so that a kill
\* never costs the evidence recorded before it.
EvidenceReloads == VerifyChain(evidence)

\* The registry of a running campaign is the one a restart would rebuild from the
\* evidence file at that moment: no kill loses a finding, and none closes one.
RestartPreservesFindings ==
  BetweenCases => findings = RestoreFindings(evidence)

\* Restoring the registry is replaying the evidence chain in two passes, one that
\* links every failure and one that applies every passing retest.
RestoreIsReplay == RestoreFindings(evidence) = RestoreByReplay(evidence)

\* A finding is closed only by a retest recorded after every failure linked to it.
ClosedOnlyByNewerRetest ==
  \A r \in Roots : findings[r].status = "CLOSED" =>
    \A h \in findings[r].links : h < findings[r].retest

\* Exit status 0 is backed by the disk: every case of the campaign has a record of
\* that code version with its expected status, and every failure that reveals a root
\* cause is followed by a passing retest of it.
CleanExitIsEvidenced ==
  exit = "zero" =>
    /\ Len(evidence) = CaseCount
    /\ \A i \in DOMAIN evidence : /\ evidence[i].status = Expected[i]
                                  /\ evidence[i].sig = version
    /\ \A r \in Roots : \A i \in FailuresOf(evidence, r) :
         \E j \in RetestsOf(evidence, r) : i < j

\* A start archives the evidence of other versions only: the evidence file loses
\* its records in no other way than by being moved whole to the archive, and the
\* version that moves it has recorded none of them.
OnlyForeignEvidenceIsArchived ==
  [][ \/ /\ Len(evidence) <= Len(evidence')
         /\ \A i \in DOMAIN evidence : evidence'[i] = evidence[i]
      \/ /\ evidence' = <<>> /\ archive' = evidence
         /\ \A i \in DOMAIN evidence : evidence[i].sig # version ]_vars

\* The evidence file and the running version implement the ledger of EvidenceLedger:
\* each step on the disk records exactly the next case of the campaign, sets the
\* evidence of another version aside whole, or leaves the ledger alone.
Ledger == INSTANCE EvidenceLedger WITH ledger <- evidence, release <- version
ImplementsLedger == Ledger!Spec

CampaignComplete ==
  Len(evidence) = CaseCount /\ \A i \in DOMAIN evidence : evidence[i].sig = version

\* The operator who keeps running the command gets the campaign of the deployed
\* version executed and recorded to its last case, whatever kills came in between.
CampaignCompletes == <>[]CampaignComplete

\* What holds of the code: the campaign completes, or a kill between the truncation
\* and the writing of checkpoint.json has left a file that no start can load, and
\* nobody has taken it away.
CompletesUnlessTorn ==
  <>[]CampaignComplete \/ <>[](pc = "down" /\ checkpoint.state = "torn")

(***************************************************************************)
(* The inductive invariant behind the safety properties, for campaigns     *)
(* where an older version does not come back after a newer one.            *)
(***************************************************************************)
\* The evidence file is a chained prefix of the campaign by one version.
EvidenceInv ==
  /\ Len(evidence) <= CaseCount
  /\ \A i \in DOMAIN evidence :
       /\ evidence[i].test = i /\ evidence[i].prev = i - 1
       /\ evidence[i].sig = evidence[1].sig
       /\ evidence[i].sig <= version

\* A whole checkpoint is of the version of the evidence and lists nothing beyond
\* it; left behind by an interrupted archiving, it is of an older version.
CheckpointInv ==
  checkpoint.state = "whole" =>
    IF evidence = <<>> THEN checkpoint.sig < version
    ELSE /\ checkpoint.sig = evidence[1].sig
         /\ \A t \in Tests : checkpoint.completed[t] # Missing =>
              t <= Len(evidence) /\ evidence[t].status = checkpoint.completed[t]

\* While the constructor archives, memory is empty, and the evidence that is still
\* in place is of another version.
ArchiveInv ==
  /\ pc \in {"unlinkArchive", "moveEvidence"} =>
       evidence # <<>> /\ evidence[1].sig # version
  /\ pc = "unlinkCheckpoint" => evidence = <<>>
  /\ pc \in {"unlinkArchive", "moveEvidence", "unlinkCheckpoint"} =>
       records = <<>> /\ completed = NothingCompleted /\ cursor = 1

Matching == pc \in {"reconcile", "reconcileWrite", "run", "append", "mark",
                    "markWrite", "respond"}

\* The record of the current case, in memory before it is in the file.
PendingRecord == [test |-> cursor, status |-> LastRecord.status, sig |-> version,
                  prev |-> Len(evidence)]

\* Memory agrees with the evidence file, which is of the running version.
MemoryInv ==
  Matching =>
    /\ version \in Versions
    /\ \A i \in DOMAIN evidence : evidence[i].sig = version
    /\ checkpoint.state = "whole" => checkpoint.sig = version
    /\ \A t \in Tests : completed[t] # Missing =>
         t <= Len(evidence) /\ evidence[t].status = completed[t]
    /\ IF pc = "append"
       THEN /\ LastRecord.status \in Status
            /\ records = Append(evidence, PendingRecord)
       ELSE records = evidence

\* Where the loop is: cases up to the end of the evidence are marked, except the
\* current one between its append and its mark.
LoopInv ==
  /\ pc \in {"reconcile", "reconcileWrite"} => cursor = 1
  /\ pc \in {"reconcileWrite", "mark", "markWrite", "respond"} => evidence # <<>>
  /\ pc = "run" => cursor <= Len(evidence) + 1
  /\ pc = "append" => cursor = Len(evidence) + 1 /\ cursor <= CaseCount
  /\ pc \in {"mark", "markWrite", "respond"} => cursor = Len(evidence)
  /\ pc \in {"run", "append", "markWrite", "respond"} =>
       \A t \in DOMAIN evidence : completed[t] # Missing
  /\ pc = "mark" =>
       \A t \in DOMAIN evidence : t < cursor => completed[t] # Missing

CampaignInv == EvidenceInv /\ CheckpointInv /\ ArchiveInv /\ MemoryInv /\ LoopInv

\* In the campaign no case that can reveal a root cause comes after one that
\* retests it, as in build_default_campaign.
RetestsLast ==
  \A t, u \in Tests : RootCause[t] # NoRoot /\ RootCause[t] = RetestOf[u] => t <= u

\* The registry is the one of the evidence file, but for the response to the current
\* record, which is still to come between its append and Respond.
FindingsInv ==
  /\ pc \in {"run", "append"} => findings = RestoreFindings(evidence)
  /\ pc \in {"mark", "markWrite", "respond"} =>
       ProcessResponse(findings, cursor, LastRecord.status, Len(records))
         = RestoreFindings(evidence)
  /\ pc \notin {"run", "append", "mark", "markWrite", "respond"} =>
       findings = NoFindings

\* As long as no result was unexpected, every case the loop has passed is completed
\* as expected; and only a process that has ended has an exit status.
ExitInv ==
  /\ unexpected = 0 => \A t \in Tests : t < cursor => completed[t] = Expected[t]
  /\ exit = "zero" => pc = "down"

RegistryInv ==
  FindingsInv /\ ClosedOnlyByNewerRetest /\ ExitInv /\ CleanExitIsEvidenced
=============================================================================
