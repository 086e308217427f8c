------------------------ MODULE CampaignRunner_proofs ------------------------
(***************************************************************************)
(* Proofs about CampaignRunner, for every campaign, every number of code   *)
(* versions and every number of kills.                                     *)
(***************************************************************************)
EXTENDS CampaignRunner, ProofLemmas, SequenceTheorems

USE CampaignAssumption

-----------------------------------------------------------------------------
(***************************************************************************)
(* Types                                                                   *)
(***************************************************************************)
\* CHOOSE picks the least element of a non-empty set of naturals.
LEMMA LeastChosen ==
  ASSUME NEW T \in SUBSET Nat, T # {}
  PROVE  LET m == CHOOSE i \in T : \A j \in T : i <= j
         IN  m \in T /\ \A j \in T : m <= j
<1>1. \E m \in T : \A n \in T : m <= n
  BY NatMinimum, Zenon
<1> QED BY <1>1, Zenon

\* The positions of failures and retests in a chain.
LEMMA Positions ==
  ASSUME NEW recs \in Seq(Record), NEW r
  PROVE  /\ FailuresOf(recs, r) \in SUBSET (Nat \ {0})
         /\ RetestsOf(recs, r) \in SUBSET (Nat \ {0})
  BY LenProperties DEF FailuresOf, RetestsOf

\* The registry rebuilt from a chain has the type of a registry.
LEMMA RestoreType ==
  ASSUME NEW recs \in Seq(Record)
  PROVE  RestoreFindings(recs) \in [Roots -> Finding]
<1> SUFFICES ASSUME NEW r \in Roots
             PROVE  FindingOf(FailuresOf(recs, r), RetestsOf(recs, r)) \in Finding
  BY DEF RestoreFindings
<1> DEFINE F == FailuresOf(recs, r)
           T == RetestsOf(recs, r)
           first == CHOOSE i \in T : \A j \in T : i <= j
<1>1. F \in SUBSET (Nat \ {0}) /\ T \in SUBSET (Nat \ {0})
  BY Positions
<1>2. T # {} => first \in Nat
  BY <1>1, LeastChosen, Zenon
<1>3. FindingOf(F, T) =
        [status |-> IF F = {} THEN "NONE" ELSE IF T = {} THEN "OPEN" ELSE "CLOSED",
         links  |-> F,
         retest |-> IF F = {} \/ T = {} THEN 0 ELSE first]
  BY DEF FindingOf
<1>4. FindingOf(F, T) \in Finding
  <2> HIDE DEF F, T, first
  <2> QED BY <1>1, <1>2, <1>3 DEF Finding, FindingStatus
<1> QED BY <1>4

\* The response to a record keeps the type of the registry.
LEMMA ResponseType ==
  ASSUME NEW fs \in [Roots -> Finding], NEW t \in Tests, NEW s \in Status,
         NEW h \in Nat \ {0}
  PROVE  ProcessResponse(fs, t, s, h) \in [Roots -> Finding]
<1>1. \A f \in Finding : CreateOrLink(f, h) \in Finding
  BY DEF CreateOrLink, Finding, FindingStatus
<1>2. \A f \in Finding : CloseByRetest(f, h) \in Finding
  BY DEF CloseByRetest, RecordRetest, ApplyRemediation, Finding, FindingStatus
<1>3. RootCause[t] \in Roots \union {NoRoot} /\ RetestOf[t] \in Roots \union {NoRoot}
  BY DEF Tests
<1> QED BY <1>1, <1>2, <1>3 DEF ProcessResponse

\* The last record of a non-empty chain is a record.
LEMMA LastType ==
  ASSUME TypeOK, records # <<>>
  PROVE  LastRecord \in Record /\ Len(records) \in Nat \ {0}
<1>1. records \in Seq(Record)
  BY DEF TypeOK
<1>2. Len(records) \in Nat /\ Len(records) # 0
  BY <1>1, EmptySeq, LenProperties
<1> QED BY <1>1, <1>2, ElementOfSeq DEF LastRecord

\* A process has a version; between append() and the end of the response there is
\* a current case and a last record.
Active == /\ pc # "down" => version \in Versions
          /\ pc \in {"append", "mark", "markWrite", "respond"} =>
               records # <<>> /\ cursor \in Tests

\* What every process starts with.
LEMMA BeginType ==
  ASSUME TypeOK, NEW v \in Versions, NEW k \in Limits, BeginProcess(v, k)
  PROVE  /\ version' \in Versions /\ version' \in 0..MaxVersion /\ limit' \in Nat
         /\ cursor' \in 1..(CaseCount + 1) /\ executed' \in Nat /\ unexpected' \in Nat
         /\ findings' \in [Roots -> Finding] /\ exit' \in {"none", "zero", "one", "raised"}
         /\ crashes' \in Nat
         /\ evidence' \in Seq(Record) /\ archive' \in Seq(Record)
         /\ checkpoint' \in Checkpoint
<1>1. NoFindings \in [Roots -> Finding]
  BY DEF NoFindings, NoFinding, Finding, FindingStatus
<1> QED BY <1>1 DEF BeginProcess, TypeOK, Versions, disk

LEMMA Unreadable ==
  ASSUME NEW s \in {"absent", "torn"}
  PROVE  /\ UnreadableCheckpoint(s) \in Checkpoint
         /\ NothingCompleted \in [Tests -> Status \union {Missing}]
  BY DEF UnreadableCheckpoint, NothingCompleted, Checkpoint

LEMMA WrittenType ==
  ASSUME TypeOK, WriteCheckpoint
  PROVE  checkpoint' \in Checkpoint
  BY DEF TypeOK, WriteCheckpoint, Checkpoint

LEMMA MarkType ==
  ASSUME TypeOK, NEW t \in Tests, NEW s \in Status, MarkInMemory(t, s)
  PROVE  checkpoint' \in Checkpoint /\ completed' \in [Tests -> Status \union {Missing}]
  BY Unreadable DEF TypeOK, MarkInMemory

LEMMA ForgetType ==
  ASSUME ForgetMemory
  PROVE  /\ records' \in Seq(Record) /\ completed' \in [Tests -> Status \union {Missing}]
         /\ findings' \in [Roots -> Finding] /\ limit' \in Nat
         /\ cursor' \in 1..(CaseCount + 1) /\ executed' \in Nat /\ unexpected' \in Nat
<1>1. NoFindings \in [Roots -> Finding]
  BY DEF NoFindings, NoFinding, Finding, FindingStatus
<1> QED BY <1>1, Unreadable DEF ForgetMemory

-----------------------------------------------------------------------------
\* Every step keeps every variable in its type.
LEMMA TypeStep ==
  ASSUME TypeOK, Active, [Next]_vars
  PROVE  TypeOK' /\ Active'
<1> USE DEF Active
<1>1. ASSUME NEW v \in Versions, StartRaises(v) PROVE TypeOK' /\ Active'
  BY <1>1 DEF StartRaises, MayStart, TypeOK, disk, memory, Versions
<1>2. ASSUME NEW v \in Versions, NEW k \in Limits, StartStale(v, k)
      PROVE TypeOK' /\ Active'
  <2>1. BeginProcess(v, k)
    BY <1>2 DEF StartStale
  <2>2. records' \in Seq(Record) /\ completed' \in [Tests -> Status \union {Missing}]
        /\ pc' \in PCs /\ pc' \notin {"append", "mark", "markWrite", "respond"}
    BY <1>2, Unreadable DEF StartStale, PCs
  <2> QED BY <2>1, <2>2, BeginType DEF TypeOK
<1>3. ASSUME NEW v \in Versions, NEW k \in Limits, StartMatching(v, k)
      PROVE TypeOK' /\ Active'
  <2>1. BeginProcess(v, k)
    BY <1>3 DEF StartMatching
  <2>2. records' \in Seq(Record) /\ completed' \in [Tests -> Status \union {Missing}]
        /\ pc' \in PCs /\ pc' \notin {"append", "mark", "markWrite", "respond"}
    BY <1>3, Unreadable DEF StartMatching, PCs, Loaded, TypeOK, Checkpoint
  <2> QED BY <2>1, <2>2, BeginType DEF TypeOK
<1>4. CASE UnlinkArchive
  BY <1>4 DEF UnlinkArchive, TypeOK, PCs, memory
<1>5. CASE MoveEvidence
  BY <1>5 DEF MoveEvidence, TypeOK, PCs, memory
<1>6. CASE UnlinkCheckpoint
  BY <1>6, Unreadable DEF UnlinkCheckpoint, TypeOK, PCs, memory
<1>7. ASSUME NEW i \in DOMAIN records, ReconcileMark(i) PROVE TypeOK' /\ Active'
  <2>1. records[i].test \in Tests /\ records[i].status \in Status
    <3>1. records \in Seq(Record) /\ i \in 1..Len(records)
      BY LenProperties DEF TypeOK
    <3>2. records[i] \in Record
      BY <3>1, ElementOfSeq
    <3> QED BY <3>2 DEF Record
  <2>2. checkpoint' \in Checkpoint /\ completed' \in [Tests -> Status \union {Missing}]
    BY <1>7, <2>1, MarkType DEF ReconcileMark
  <2> QED BY <1>7, <2>2 DEF ReconcileMark, TypeOK, PCs
<1>8. CASE ReconcileWrite
  BY <1>8, WrittenType DEF ReconcileWrite, TypeOK, PCs, memory
<1>9. CASE Restore
  <2>1. findings' \in [Roots -> Finding]
    BY <1>9, RestoreType DEF Restore, TypeOK
  <2> QED BY <1>9, <2>1 DEF Restore, TypeOK, PCs, disk
<1>10. CASE Resume
  BY <1>10 DEF Resume, InLoop, TypeOK, PCs, disk, Tests
<1>11. ASSUME NEW s \in Status, Execute(s) PROVE TypeOK' /\ Active'
  <2>1. cursor \in Tests
    BY <1>11 DEF Execute, InLoop, TypeOK, Tests
  <2>2. Len(records) \in Nat /\ version \in Nat
    BY LenProperties DEF TypeOK
  <2>3. version \in Versions
    BY <1>11 DEF Execute, InLoop
  <2> DEFINE r == [test |-> cursor, status |-> s, sig |-> version, prev |-> Len(records)]
  <2>4. r \in Record
    BY <2>1, <2>2, <2>3 DEF Record
  <2>5. records' \in Seq(Record) /\ records' # <<>>
    <3>1. records' = Append(records, r)
      BY <1>11 DEF Execute
    <3> HIDE DEF r
    <3> QED BY <3>1, <2>4, AppendProperties DEF TypeOK
  <2> QED BY <1>11, <2>1, <2>3, <2>5 DEF Execute, TypeOK, PCs, disk
<1>12. CASE AppendToFile
  <2>1. evidence' \in Seq(Record)
    BY <1>12, LastType, AppendProperties DEF AppendToFile, TypeOK
  <2> QED BY <1>12, <2>1 DEF AppendToFile, TypeOK, PCs, memory
<1>13. CASE Mark
  <2>1. checkpoint' \in Checkpoint /\ completed' \in [Tests -> Status \union {Missing}]
    BY <1>13, LastType, MarkType DEF Mark, Record
  <2> QED BY <1>13, <2>1 DEF Mark, TypeOK, PCs
<1>14. CASE MarkWrite
  BY <1>14, WrittenType DEF MarkWrite, TypeOK, PCs, memory
<1>15. CASE Respond
  <2>1. findings' \in [Roots -> Finding]
    BY <1>15, LastType, ResponseType DEF Respond, Record, TypeOK
  <2> QED BY <1>15, <2>1 DEF Respond, TypeOK, PCs, disk, Tests
<1>16. CASE Finish
  BY <1>16, ForgetType DEF Finish, TypeOK, PCs, disk
<1>17. CASE Crash
  BY <1>17, ForgetType DEF Crash, TypeOK, PCs, disk
<1>18. CASE FreshClone
  BY <1>18, Unreadable DEF FreshClone, TypeOK, PCs, memory
<1>19. CASE UNCHANGED vars
  BY <1>19 DEF TypeOK, vars, disk, memory
<1> QED BY <1>1, <1>2, <1>3, <1>4, <1>5, <1>6, <1>7, <1>8, <1>9, <1>10, <1>11, <1>12,
           <1>13, <1>14, <1>15, <1>16, <1>17, <1>18, <1>19
        DEF Next, Start, Process, Archive, Reconcile, Run

\* The initial state is well typed.
LEMMA TypeInit == Init => TypeOK /\ Active
<1> SUFFICES ASSUME Init PROVE TypeOK /\ Active
  OBVIOUS
<1>1. NoFindings \in [Roots -> Finding]
  BY DEF NoFindings, NoFinding, Finding, FindingStatus
<1>2. <<>> \in Seq(Record)
  OBVIOUS
<1> QED BY <1>1, <1>2, Unreadable DEF Init, TypeOK, Active, PCs

\* Type correctness: no step leaves a variable outside its type, so every status that
\* is recorded, saved or restored is PASS, FAIL or ERROR.
THEOREM TypeCorrect == Spec => []TypeOK
<1>1. Init => TypeOK /\ Active
  BY TypeInit
<1>2. TypeOK /\ Active /\ [Next]_vars => TypeOK' /\ Active'
  BY TypeStep
<1> QED BY <1>1, <1>2, PTL DEF Spec

-----------------------------------------------------------------------------
(***************************************************************************)
(* The inductive invariant, where no older version comes back              *)
(***************************************************************************)
\* What the provers need to know of a chain as a sequence.
LEMMA ChainFacts ==
  ASSUME NEW recs \in Seq(Record)
  PROVE  /\ Len(recs) \in Nat /\ DOMAIN recs = 1..Len(recs)
         /\ recs = <<>> <=> Len(recs) = 0
         /\ \A i \in 1..Len(recs) :
              /\ recs[i] \in Record /\ recs[i].test \in Tests
              /\ recs[i].status \in Status /\ recs[i].sig \in Versions
<1>1. Len(recs) \in Nat /\ DOMAIN recs = 1..Len(recs) /\ (recs = <<>> <=> Len(recs) = 0)
  BY LenProperties, EmptySeq
<1>2. \A i \in 1..Len(recs) : recs[i] \in Record
  BY ElementOfSeq
<1> QED BY <1>1, <1>2 DEF Record

\* The disk's invariants depend on the disk and the version alone.
LEMMA SameDisk ==
  ASSUME CampaignInv, UNCHANGED <<evidence, checkpoint, version>>
  PROVE  EvidenceInv' /\ CheckpointInv'
  BY DEF CampaignInv, EvidenceInv, CheckpointInv

\* A later version inherits the disk of an earlier one.
LEMMA LaterVersion ==
  ASSUME TypeOK, CampaignInv, UNCHANGED <<evidence, checkpoint>>,
         version' \in Versions, version <= version'
  PROVE  EvidenceInv' /\ CheckpointInv'
<1>1. \A i \in DOMAIN evidence : evidence[i].sig \in Int
  BY ChainFacts DEF TypeOK, Versions
<1>2. version \in Int /\ version' \in Int /\ checkpoint.sig \in Int
  BY DEF TypeOK, Versions, Checkpoint
<1> QED BY <1>1, <1>2 DEF CampaignInv, EvidenceInv, CheckpointInv

\* A chain that matches the checkpoint and the evidence of a version is all its own.
LEMMA MatchingDisk ==
  ASSUME TypeOK, CampaignInv, NEW v \in Versions, ~CheckpointIsStale(v), version <= v
  PROVE  /\ checkpoint.state = "whole" => checkpoint.sig = v
         /\ \A t \in Tests : Loaded(v)[t] # Missing =>
              /\ t <= Len(evidence)
              /\ evidence[t].status = Loaded(v)[t]
<1>1. checkpoint.state = "whole" => checkpoint.sig = v
  BY DEF CheckpointIsStale
<1>2. CASE checkpoint.state = "whole"
  <2>1. evidence # <<>>
    BY <1>1, <1>2 DEF CampaignInv, CheckpointInv, TypeOK, Versions
  <2> QED BY <1>1, <1>2, <2>1 DEF CampaignInv, CheckpointInv, Loaded
<1>3. CASE checkpoint.state # "whole"
  BY <1>3 DEF Loaded, NothingCompleted
<1> QED BY <1>1, <1>2, <1>3

\* A checkpoint written while memory agrees with the evidence is a good one.
LEMMA GoodCheckpoint ==
  ASSUME TypeOK, CampaignInv, Matching, pc # "append", evidence # <<>>,
         WriteCheckpoint, UNCHANGED <<evidence, version>>
  PROVE  EvidenceInv' /\ CheckpointInv' /\ checkpoint'.sig = version
<1>1. evidence[1].sig = version
  BY ChainFacts DEF CampaignInv, MemoryInv, TypeOK
<1> QED BY <1>1 DEF CampaignInv, EvidenceInv, CheckpointInv, MemoryInv, WriteCheckpoint

\* A truncated or missing checkpoint claims nothing.
LEMMA NoCheckpoint ==
  ASSUME CampaignInv, UNCHANGED <<evidence, version>>, checkpoint'.state # "whole"
  PROVE  EvidenceInv' /\ CheckpointInv'
  BY DEF CampaignInv, EvidenceInv, CheckpointInv

\* The steps of the constructor keep the invariant.
LEMMA StartStep ==
  ASSUME TypeOK, Active, CampaignInv, ~AllowRevert, NEW v \in Versions, NEW k,
         StartRaises(v) \/ StartStale(v, k) \/ StartMatching(v, k)
  PROVE  CampaignInv'
<1>1. version' = v /\ version <= v /\ UNCHANGED <<evidence, checkpoint>>
  BY DEF StartRaises, StartStale, StartMatching, BeginProcess, MayStart, disk, TypeOK,
         Versions
<1>2. EvidenceInv' /\ CheckpointInv'
  BY <1>1, LaterVersion
<1>3. CASE StartRaises(v)
  <2>1. pc' = "down"
    BY <1>3 DEF StartRaises, MayStart
  <2> QED BY <2>1, <1>2 DEF CampaignInv, ArchiveInv, MemoryInv, LoopInv, Matching
<1>4. CASE StartStale(v, k)
  <2>1. pc' = (IF evidence # <<>> THEN "unlinkArchive" ELSE "unlinkCheckpoint")
        /\ records' = <<>> /\ completed' = NothingCompleted /\ cursor' = 1
    BY <1>4 DEF StartStale, BeginProcess
  <2>2. evidence # <<>> => evidence[1].sig # v
    <3> SUFFICES ASSUME evidence # <<>>, evidence[1].sig = v PROVE FALSE
      OBVIOUS
    <3>1. ~EvidenceIsStale(v)
      BY DEF EvidenceIsStale, CampaignInv, EvidenceInv
    <3>2. ~CheckpointIsStale(v)
      BY DEF CheckpointIsStale, CampaignInv, CheckpointInv
    <3> QED BY <1>4, <3>1, <3>2 DEF StartStale
  <2> QED BY <1>1, <1>2, <2>1, <2>2
          DEF CampaignInv, ArchiveInv, MemoryInv, LoopInv, Matching
<1>5. CASE StartMatching(v, k)
  <2>1. /\ pc' = "reconcile" /\ records' = evidence /\ completed' = Loaded(v)
        /\ cursor' = 1
        /\ ~CheckpointIsStale(v) /\ ~EvidenceIsStale(v)
    BY <1>5 DEF StartMatching, BeginProcess
  <2>2. MemoryInv'
    BY <1>1, <2>1, MatchingDisk DEF MemoryInv, Matching, EvidenceIsStale
  <2> QED BY <1>2, <2>1, <2>2 DEF CampaignInv, ArchiveInv, LoopInv
<1> QED BY <1>3, <1>4, <1>5

\* Archiving keeps the invariant: what it leaves of the checkpoint is of an older version.
LEMMA ArchiveStep ==
  ASSUME TypeOK, Active, CampaignInv, Archive
  PROVE  CampaignInv'
<1>1. CASE UnlinkArchive
  <2>1. EvidenceInv' /\ CheckpointInv'
    BY <1>1, SameDisk DEF UnlinkArchive
  <2> QED BY <1>1, <2>1 DEF UnlinkArchive, memory, CampaignInv, ArchiveInv, MemoryInv,
                            LoopInv, Matching
<1>2. CASE MoveEvidence
  <2>1. evidence # <<>> /\ evidence[1].sig # version /\ 1 \in DOMAIN evidence
    BY <1>2, ChainFacts DEF MoveEvidence, CampaignInv, ArchiveInv, TypeOK
  <2>2. checkpoint.state = "whole" => checkpoint.sig = evidence[1].sig
    BY <2>1 DEF CampaignInv, CheckpointInv
  <2>3. evidence[1].sig < version
    BY <2>1, ChainFacts DEF CampaignInv, EvidenceInv, TypeOK, Versions
  <2>4. evidence' = <<>> /\ UNCHANGED <<checkpoint, version, records, completed, cursor>>
        /\ pc = "moveEvidence" /\ pc' = "unlinkCheckpoint"
    BY <1>2 DEF MoveEvidence, memory
  <2>5. EvidenceInv'
    BY <2>4 DEF EvidenceInv
  <2>6. CheckpointInv'
    BY <2>2, <2>3, <2>4 DEF CheckpointInv
  <2> QED BY <2>4, <2>5, <2>6 DEF CampaignInv, ArchiveInv, MemoryInv, LoopInv, Matching
<1>3. CASE UnlinkCheckpoint
  <2>1. /\ pc = "unlinkCheckpoint" /\ pc' = "run" /\ checkpoint'.state = "absent"
        /\ UNCHANGED <<evidence, version, records, completed, cursor>>
    BY <1>3 DEF UnlinkCheckpoint, memory, UnreadableCheckpoint
  <2>2. evidence = <<>> /\ records = <<>> /\ completed = NothingCompleted /\ cursor = 1
    BY <2>1 DEF CampaignInv, ArchiveInv
  <2>3. EvidenceInv' /\ CheckpointInv'
    BY <2>1, NoCheckpoint
  <2>4. version \in Versions
    BY <2>1 DEF Active
  <2>5. MemoryInv'
    BY <2>1, <2>2, <2>4 DEF MemoryInv, NothingCompleted
  <2> QED BY <2>1, <2>2, <2>3, <2>5 DEF CampaignInv, ArchiveInv, LoopInv
<1> QED BY <1>1, <1>2, <1>3 DEF Archive

\* Rebuilding the checkpoint keeps the invariant.
LEMMA ReconcileStep ==
  ASSUME TypeOK, Active, CampaignInv, Reconcile
  PROVE  CampaignInv'
<1>1. ASSUME NEW i \in DOMAIN records, ReconcileMark(i) PROVE CampaignInv'
  <2>1. /\ pc = "reconcile" /\ pc' = "reconcileWrite"
        /\ completed' = [completed EXCEPT ![records[i].test] = records[i].status]
        /\ checkpoint'.state = "torn"
        /\ UNCHANGED <<evidence, version, records, cursor>>
    BY <1>1 DEF ReconcileMark, MarkInMemory, UnreadableCheckpoint
  <2>2. records = evidence
    BY <2>1 DEF CampaignInv, MemoryInv, Matching
  <2>3. records[i].test = i /\ i <= Len(evidence) /\ evidence # <<>> /\ i \in Tests
    BY <2>2, ChainFacts DEF CampaignInv, EvidenceInv, TypeOK
  <2>4. EvidenceInv' /\ CheckpointInv'
    BY <2>1, NoCheckpoint
  <2>5. MemoryInv'
    BY <2>1, <2>2, <2>3 DEF CampaignInv, MemoryInv, Matching, TypeOK
  <2> QED BY <2>1, <2>3, <2>4, <2>5 DEF CampaignInv, ArchiveInv, LoopInv
<1>2. CASE ReconcileWrite
  <2>1. /\ pc = "reconcileWrite" /\ pc' = "reconcile" /\ WriteCheckpoint
        /\ UNCHANGED <<evidence, version, records, completed, cursor>>
    BY <1>2 DEF ReconcileWrite, memory
  <2>2. EvidenceInv' /\ CheckpointInv' /\ checkpoint'.sig = version
    BY <2>1, GoodCheckpoint DEF Matching, CampaignInv, LoopInv
  <2>3. MemoryInv'
    BY <2>1, <2>2 DEF CampaignInv, MemoryInv, Matching
  <2> QED BY <2>1, <2>2, <2>3 DEF CampaignInv, ArchiveInv, LoopInv
<1>3. CASE Restore
  <2>1. /\ pc = "reconcile" /\ pc' = "run" /\ ToReconcile = {}
        /\ UNCHANGED <<evidence, checkpoint, version, records, completed, cursor>>
    BY <1>3 DEF Restore, disk
  <2>2. EvidenceInv' /\ CheckpointInv'
    BY <2>1, SameDisk
  <2>3. records = evidence /\ cursor = 1
    BY <2>1 DEF CampaignInv, MemoryInv, LoopInv, Matching
  <2>4. \A t \in DOMAIN evidence : completed[t] # Missing
    BY <2>1, <2>3 DEF ToReconcile, Unreconciled, CampaignInv, EvidenceInv
  <2>5. MemoryInv'
    BY <2>1 DEF CampaignInv, MemoryInv, Matching
  <2> QED BY <2>1, <2>2, <2>3, <2>4, <2>5, ChainFacts
          DEF CampaignInv, ArchiveInv, LoopInv, TypeOK
<1> QED BY <1>1, <1>2, <1>3 DEF Reconcile

\* What the loop appends is the record of the next case.
LEMMA PendingFacts ==
  ASSUME TypeOK, Active, CampaignInv, pc = "append"
  PROVE  /\ records \in Seq(Record) /\ LastRecord = PendingRecord
         /\ records = Append(evidence, PendingRecord)
         /\ Len(records) = Len(evidence) + 1
         /\ \A i \in 1..Len(evidence) : records[i] = evidence[i]
         /\ records[Len(evidence) + 1] = PendingRecord
         /\ PendingRecord \in Record
<1>1. records = Append(evidence, PendingRecord) /\ LastRecord.status \in Status
      /\ version \in Versions /\ cursor \in Tests
  BY DEF CampaignInv, MemoryInv, Matching, Active
<1>2. Len(evidence) \in Nat
  BY ChainFacts DEF TypeOK
<1>3. PendingRecord \in Record
  BY <1>1, <1>2 DEF PendingRecord, Record
<1> HIDE DEF PendingRecord
<1>4. /\ Len(records) = Len(evidence) + 1
      /\ \A i \in 1..Len(evidence) : records[i] = evidence[i]
      /\ records[Len(evidence) + 1] = PendingRecord
  BY <1>1, <1>3, AppendProperties DEF TypeOK
<1>5. LastRecord = PendingRecord
  BY <1>4 DEF LastRecord
<1> QED BY <1>1, <1>3, <1>4, <1>5 DEF TypeOK

\* The steps of run() keep the invariant.
LEMMA RunStep ==
  ASSUME TypeOK, Active, CampaignInv, Run
  PROVE  CampaignInv'
<1>0. /\ Len(evidence) \in Nat /\ DOMAIN evidence = 1..Len(evidence)
      /\ (evidence = <<>> <=> Len(evidence) = 0)
      /\ \A i \in 1..Len(evidence) : evidence[i].status \in Status
      /\ cursor \in 1..(CaseCount + 1)
  BY ChainFacts DEF TypeOK
<1>1. CASE Resume
  <2>1. /\ pc = "run" /\ pc' = "run" /\ cursor <= CaseCount
        /\ completed[cursor] # Missing /\ cursor' = cursor + 1
        /\ UNCHANGED <<evidence, checkpoint, version, records, completed>>
    BY <1>1 DEF Resume, InLoop, disk
  <2>2. EvidenceInv' /\ CheckpointInv'
    BY <2>1, SameDisk
  <2>3. MemoryInv'
    BY <2>1 DEF CampaignInv, MemoryInv, Matching
  <2>4. cursor <= Len(evidence)
    BY <2>1, <1>0 DEF CampaignInv, MemoryInv, Matching, Tests
  <2> QED BY <1>0, <2>1, <2>2, <2>3, <2>4 DEF CampaignInv, ArchiveInv, LoopInv
<1>2. ASSUME NEW s \in Status, Execute(s) PROVE CampaignInv'
  <2> DEFINE r == [test |-> cursor, status |-> s, sig |-> version, prev |-> Len(records)]
  <2>1. /\ pc = "run" /\ pc' = "append" /\ cursor <= CaseCount
        /\ completed[cursor] = Missing
        /\ records' = Append(records, r)
        /\ UNCHANGED <<evidence, checkpoint, version, completed, cursor>>
    BY <1>2 DEF Execute, InLoop, disk
  <2>2. EvidenceInv' /\ CheckpointInv'
    BY <2>1, SameDisk
  <2>3. records = evidence /\ version \in Versions
    BY <2>1 DEF CampaignInv, MemoryInv, Matching
  <2>4. cursor = Len(evidence) + 1
    <3>1. cursor <= Len(evidence) + 1
      BY <2>1 DEF CampaignInv, LoopInv
    <3>2. cursor \notin 1..Len(evidence)
      BY <1>0, <2>1 DEF CampaignInv, LoopInv
    <3> QED BY <1>0, <3>1, <3>2
  <2>5. r \in Record
    BY <1>0, <2>1, <2>3 DEF Record, Tests
  <2>6. records'[Len(records')] = r
    <3> HIDE DEF r
    <3> QED BY <2>1, <2>5, AppendProperties, ChainFacts DEF TypeOK
  <2>7. r = PendingRecord' /\ LastRecord'.status = s
    BY <2>1, <2>3, <2>6 DEF PendingRecord, LastRecord
  <2>8. MemoryInv'
    BY <2>1, <2>3, <2>7 DEF CampaignInv, MemoryInv, Matching
  <2> QED BY <1>0, <2>1, <2>2, <2>4, <2>8 DEF CampaignInv, ArchiveInv, LoopInv
<1>3. CASE AppendToFile
  <2>1. /\ pc = "append" /\ pc' = "mark" /\ evidence' = Append(evidence, LastRecord)
        /\ UNCHANGED <<checkpoint, version, records, completed, cursor>>
    BY <1>3 DEF AppendToFile, memory
  <2>2. evidence' = records /\ evidence' # <<>>
    BY <2>1, PendingFacts, ChainFacts
  <2>3. /\ Len(evidence') = Len(evidence) + 1
        /\ \A i \in 1..Len(evidence) : evidence'[i] = evidence[i]
        /\ evidence'[cursor] = PendingRecord
        /\ cursor = Len(evidence') /\ cursor <= CaseCount
        /\ DOMAIN evidence' = 1..cursor
    BY <2>1, <2>2, PendingFacts, ChainFacts, <1>0 DEF CampaignInv, LoopInv
  <2>4. \A i \in DOMAIN evidence : evidence[i].sig = version
    BY <2>1 DEF CampaignInv, MemoryInv, Matching
  <2>5. \A i \in DOMAIN evidence' :
          evidence'[i].test = i /\ evidence'[i].prev = i - 1 /\ evidence'[i].sig = version
    <3> SUFFICES ASSUME NEW i \in 1..cursor
                 PROVE  /\ evidence'[i].test = i /\ evidence'[i].prev = i - 1
                        /\ evidence'[i].sig = version
      BY <2>3
    <3>1. CASE i = cursor
      BY <1>0, <2>3, <3>1 DEF PendingRecord
    <3>2. CASE i # cursor
      <4>1. i \in 1..Len(evidence)
        BY <1>0, <2>3, <3>2
      <4> QED BY <1>0, <2>3, <2>4, <4>1 DEF CampaignInv, EvidenceInv
    <3> QED BY <3>1, <3>2
  <2>6. EvidenceInv'
    <3>1. 1 \in DOMAIN evidence' /\ version <= version /\ version' = version
      BY <1>0, <2>1, <2>3 DEF TypeOK
    <3>2. Len(evidence') <= CaseCount
      BY <2>3
    <3>3. evidence'[1].sig = version
      BY <2>5, <3>1
    <3>4. \A i \in DOMAIN evidence' :
            /\ evidence'[i].test = i /\ evidence'[i].prev = i - 1
            /\ evidence'[i].sig = evidence'[1].sig /\ evidence'[i].sig <= version'
      BY <2>5, <3>1, <3>3
    <3> QED BY <3>2, <3>4 DEF EvidenceInv
  <2>7. CheckpointInv'
    <3> SUFFICES ASSUME checkpoint.state = "whole"
                 PROVE  /\ checkpoint.sig = evidence'[1].sig
                        /\ \A t \in Tests : checkpoint.completed[t] # Missing =>
                             /\ t <= Len(evidence')
                             /\ evidence'[t].status = checkpoint.completed[t]
      BY <2>1, <2>2 DEF CheckpointInv
    <3>1. checkpoint.sig = version
      BY <2>1 DEF CampaignInv, MemoryInv, Matching
    <3>2. evidence # <<>>
      BY <3>1 DEF CampaignInv, CheckpointInv, TypeOK
    <3>3. \A t \in Tests : checkpoint.completed[t] # Missing =>
            t <= Len(evidence) /\ evidence[t].status = checkpoint.completed[t]
      BY <3>2 DEF CampaignInv, CheckpointInv
    <3> QED BY <1>0, <2>3, <2>5, <3>1, <3>3 DEF Tests
  <2>8. MemoryInv'
    <3>1. \A t \in Tests : completed[t] # Missing =>
            t <= Len(evidence) /\ evidence[t].status = completed[t]
      BY <2>1 DEF CampaignInv, MemoryInv, Matching
    <3>2. ASSUME NEW t \in Tests, completed[t] # Missing
          PROVE  t <= Len(evidence') /\ evidence'[t].status = completed[t]
      <4>1. t <= Len(evidence) /\ evidence[t].status = completed[t]
        BY <3>1, <3>2
      <4>2. t \in 1..Len(evidence) /\ t <= Len(evidence')
        BY <1>0, <2>3, <4>1 DEF Tests
      <4>3. evidence'[t] = evidence[t]
        BY <2>3, <4>2
      <4> QED BY <4>1, <4>2, <4>3
    <3> QED BY <2>1, <2>2, <2>5, <3>2 DEF CampaignInv, MemoryInv, Matching
  <2> QED BY <1>0, <2>1, <2>2, <2>3, <2>6, <2>7, <2>8 DEF CampaignInv, ArchiveInv, LoopInv
<1>4. CASE Mark
  <2>1. /\ pc = "mark" /\ pc' = "markWrite" /\ checkpoint'.state = "torn"
        /\ completed' = [completed EXCEPT ![cursor] = LastRecord.status]
        /\ UNCHANGED <<evidence, version, records, cursor>>
    BY <1>4 DEF Mark, MarkInMemory, UnreadableCheckpoint
  <2>2. EvidenceInv' /\ CheckpointInv'
    BY <2>1, NoCheckpoint
  <2>3. records = evidence /\ cursor = Len(evidence) /\ evidence # <<>> /\ cursor \in Tests
    BY <2>1 DEF CampaignInv, MemoryInv, LoopInv, Matching, Active
  <2>4. LastRecord.status = evidence[cursor].status /\ LastRecord.status \in Status
    BY <1>0, <2>3 DEF LastRecord
  <2>5. MemoryInv'
    BY <2>1, <2>3, <2>4 DEF CampaignInv, MemoryInv, Matching, TypeOK
  <2>6. \A t \in DOMAIN evidence : completed'[t] # Missing
    <3>1. \A t \in DOMAIN evidence : t < cursor => completed[t] # Missing
      BY <2>1 DEF CampaignInv, LoopInv
    <3>2. \A t \in DOMAIN evidence : t \in Tests
      BY <1>0 DEF CampaignInv, EvidenceInv, Tests
    <3>3. completed \in [Tests -> Status \union {Missing}] /\ Missing \notin Status
      BY DEF TypeOK, Status, Missing
    <3>4. completed'[cursor] # Missing
      BY <2>1, <2>3, <2>4, <3>3
    <3>5. \A t \in Tests : t # cursor => completed'[t] = completed[t]
      BY <2>1, <3>3
    <3>6. \A t \in DOMAIN evidence : t = cursor \/ t < cursor
      BY <1>0, <2>3
    <3> QED BY <3>1, <3>2, <3>4, <3>5, <3>6
  <2> QED BY <2>1, <2>2, <2>3, <2>5, <2>6 DEF CampaignInv, ArchiveInv, LoopInv
<1>5. CASE MarkWrite
  <2>1. /\ pc = "markWrite" /\ pc' = "respond" /\ WriteCheckpoint
        /\ UNCHANGED <<evidence, version, records, completed, cursor>>
    BY <1>5 DEF MarkWrite, memory
  <2>2. EvidenceInv' /\ CheckpointInv' /\ checkpoint'.sig = version
    BY <2>1, GoodCheckpoint DEF Matching, CampaignInv, LoopInv
  <2>3. MemoryInv'
    BY <2>1, <2>2 DEF CampaignInv, MemoryInv, Matching
  <2> QED BY <2>1, <2>2, <2>3 DEF CampaignInv, ArchiveInv, LoopInv
<1>6. CASE Respond
  <2>1. /\ pc = "respond" /\ pc' = "run" /\ cursor' = cursor + 1
        /\ UNCHANGED <<evidence, checkpoint, version, records, completed>>
    BY <1>6 DEF Respond, disk
  <2>2. EvidenceInv' /\ CheckpointInv'
    BY <2>1, SameDisk
  <2>3. MemoryInv'
    BY <2>1 DEF CampaignInv, MemoryInv, Matching
  <2> QED BY <1>0, <2>1, <2>2, <2>3 DEF CampaignInv, ArchiveInv, LoopInv
<1>7. CASE Finish
  <2>1. pc' = "down" /\ UNCHANGED <<evidence, checkpoint, version>>
    BY <1>7 DEF Finish, disk
  <2> QED BY <2>1, SameDisk DEF CampaignInv, ArchiveInv, MemoryInv, LoopInv, Matching
<1> QED BY <1>1, <1>2, <1>3, <1>4, <1>5, <1>6, <1>7 DEF Run

\* Every step keeps the invariant.
LEMMA CampaignStep ==
  ASSUME TypeOK, Active, CampaignInv, ~AllowRevert, [Next]_vars
  PROVE  CampaignInv'
<1>1. CASE Start
  <2>1. PICK v \in Versions :
          StartRaises(v) \/ \E k \in Limits : StartStale(v, k) \/ StartMatching(v, k)
    BY <1>1 DEF Start
  <2>2. PICK k : StartRaises(v) \/ StartStale(v, k) \/ StartMatching(v, k)
    BY <2>1
  <2> QED BY <2>2, StartStep
<1>2. CASE Process
  BY <1>2, ArchiveStep, ReconcileStep, RunStep DEF Process
<1>3. CASE Crash
  <2>1. pc' = "down" /\ UNCHANGED <<evidence, checkpoint, version>>
    BY <1>3 DEF Crash, disk
  <2> QED BY <2>1, SameDisk DEF CampaignInv, ArchiveInv, MemoryInv, LoopInv, Matching
<1>4. CASE FreshClone
  <2>1. pc' = "down" /\ UNCHANGED <<evidence, version>> /\ checkpoint'.state = "absent"
    BY <1>4 DEF FreshClone, UnreadableCheckpoint
  <2> QED BY <2>1, NoCheckpoint DEF CampaignInv, ArchiveInv, MemoryInv, LoopInv, Matching
<1>5. CASE UNCHANGED vars
  BY <1>5, SameDisk DEF vars, disk, memory, CampaignInv, ArchiveInv, MemoryInv, LoopInv,
                   Matching, PendingRecord, LastRecord
<1> QED BY <1>1, <1>2, <1>3, <1>4, <1>5 DEF Next

\* The inductive invariant holds in every state of every campaign whose versions are
\* only ever replaced by later ones.
THEOREM CampaignInvariant ==
  ASSUME ~AllowRevert
  PROVE  Spec => [](TypeOK /\ Active /\ CampaignInv)
<1>1. Init => TypeOK /\ Active /\ CampaignInv
  <2> SUFFICES ASSUME Init PROVE TypeOK /\ Active /\ CampaignInv
    OBVIOUS
  <2>1. TypeOK /\ Active
    BY TypeInit
  <2>2. CampaignInv
    BY DEF Init, CampaignInv, EvidenceInv, CheckpointInv, ArchiveInv, MemoryInv, LoopInv,
           Matching, UnreadableCheckpoint
  <2> QED BY <2>1, <2>2
<1>2. TypeOK /\ Active /\ CampaignInv /\ [Next]_vars => TypeOK' /\ Active' /\ CampaignInv'
  BY TypeStep, CampaignStep
<1> QED BY <1>1, <1>2, PTL DEF Spec

\* The evidence file holds a prefix of the campaign by one version, each case once.
THEOREM EvidenceIsPrefix ==
  ASSUME ~AllowRevert
  PROVE  Spec => []EvidenceIsCampaignPrefix
<1>1. CampaignInv => EvidenceIsCampaignPrefix
  BY DEF CampaignInv, EvidenceInv, EvidenceIsCampaignPrefix
<1> QED BY <1>1, CampaignInvariant, PTL

\* Whatever was killed when, the next start can verify the chain it loads.
THEOREM EvidenceAlwaysReloads ==
  ASSUME ~AllowRevert
  PROVE  Spec => []EvidenceReloads
<1>1. CampaignInv => EvidenceReloads
  BY DEF CampaignInv, EvidenceInv, EvidenceReloads, VerifyChain
<1> QED BY <1>1, CampaignInvariant, PTL

\* Every result the runner resumes from has its record in the evidence file.
THEOREM CompletedAlwaysRecorded ==
  ASSUME ~AllowRevert
  PROVE  Spec => []CompletedIsRecorded
<1>1. TypeOK /\ CampaignInv => CompletedIsRecorded
  <2> SUFFICES ASSUME TypeOK, CampaignInv, BetweenCases,
                      NEW t \in Tests, completed[t] # Missing
               PROVE  \E i \in DOMAIN evidence : /\ evidence[i].test = t
                                                 /\ evidence[i].status = completed[t]
                                                 /\ evidence[i].sig = version
    BY DEF CompletedIsRecorded
  <2>1. t <= Len(evidence) /\ evidence[t].status = completed[t]
        /\ \A i \in DOMAIN evidence : evidence[i].sig = version
    BY DEF CampaignInv, MemoryInv, Matching, BetweenCases
  <2>2. t \in DOMAIN evidence
    BY <2>1, ChainFacts DEF TypeOK, Tests
  <2> QED BY <2>1, <2>2 DEF CampaignInv, EvidenceInv
<1> QED BY <1>1, CampaignInvariant, PTL

-----------------------------------------------------------------------------
(***************************************************************************)
(* Restoring the registry                                                  *)
(***************************************************************************)
\* Linking a failure to a finding nothing has retested.
LEMMA LinkStep ==
  ASSUME NEW F \in SUBSET Nat, NEW h \in Nat
  PROVE  CreateOrLink(FindingOf(F, {}), h) = FindingOf(F \union {h}, {})
<1> DEFINE f == FindingOf(F, {})
           G == F \union {h}
<1>1. f = [status |-> IF F = {} THEN "NONE" ELSE "OPEN", links |-> F, retest |-> 0]
  BY DEF FindingOf
<1>2. FindingOf(G, {}) = [status |-> "OPEN", links |-> G, retest |-> 0]
  BY DEF FindingOf
<1> HIDE DEF f
<1>3. CreateOrLink(f, h) = [f EXCEPT !.status = "OPEN", !.links = G]
  <2>1. (IF f.status = "NONE" THEN "OPEN" ELSE f.status) = "OPEN" /\ f.links = F
    BY <1>1
  <2> HIDE DEF G
  <2> QED BY <2>1 DEF CreateOrLink, G
<1> HIDE DEF G
<1>4. CreateOrLink(f, h) = FindingOf(G, {})
  BY <1>1, <1>2, <1>3
<1> QED BY <1>4 DEF f, G

\* A passing retest after all the others closes an open finding and leaves a closed
\* one, and the absence of one, as it is.
LEMMA CloseStep ==
  ASSUME NEW F \in SUBSET Nat, NEW T \in SUBSET Nat, NEW h \in Nat, \A j \in T : j < h
  PROVE  CloseByRetest(FindingOf(F, T), h) = FindingOf(F, T \union {h})
<1> DEFINE first(S) == CHOOSE i \in S : \A j \in S : i <= j
<1>1. CASE F = {}
  BY <1>1 DEF FindingOf, CloseByRetest
<1>2. CASE F # {} /\ T = {}
  <2>1. first({h}) = h
    OBVIOUS
  <2>2. FindingOf(F, T) = [status |-> "OPEN", links |-> F, retest |-> 0]
    BY <1>2 DEF FindingOf
  <2>3. FindingOf(F, T \union {h}) = [status |-> "CLOSED", links |-> F, retest |-> h]
    <3>1. T \union {h} = {h}
      BY <1>2
    <3>2. FindingOf(F, {h}) = [status |-> "CLOSED", links |-> F, retest |-> first({h})]
      BY <1>2 DEF FindingOf
    <3> QED BY <2>1, <3>1, <3>2
  <2>4. CloseByRetest([status |-> "OPEN", links |-> F, retest |-> 0], h)
          = [status |-> "CLOSED", links |-> F, retest |-> h]
    BY DEF CloseByRetest, RecordRetest, ApplyRemediation
  <2> QED BY <2>2, <2>3, <2>4
<1>3. CASE F # {} /\ T # {}
  <2> DEFINE m == first(T)
             n == first(T \union {h})
  <2>1. m \in T /\ \A j \in T : m <= j
    BY <1>3, LeastChosen
  <2>2. T \union {h} \in SUBSET Nat /\ T \union {h} # {}
    OBVIOUS
  <2>3. n \in T \union {h} /\ \A j \in T \union {h} : n <= j
    BY <2>2, LeastChosen, Zenon
  <2>4. FindingOf(F, T) = [status |-> "CLOSED", links |-> F, retest |-> m]
    BY <1>3 DEF FindingOf
  <2>5. FindingOf(F, T \union {h}) = [status |-> "CLOSED", links |-> F, retest |-> n]
    BY <1>3 DEF FindingOf
  <2> HIDE DEF m, n
  <2>6. m = n
    BY <2>1, <2>3
  <2> QED BY <2>4, <2>5, <2>6 DEF CloseByRetest
<1> QED BY <1>1, <1>2, <1>3

\* The first pass links the failures it has met.
LEMMA LinkedIs ==
  ASSUME NEW recs \in Seq(Record)
  PROVE  Linked(recs)[Len(recs)] = [r \in Roots |-> FindingOf(FailuresOf(recs, r), {})]
<1> DEFINE N == Len(recs)
           upTo(n, r) == {i \in FailuresOf(recs, r) : i <= n}
           form == [n \in 0..N |-> [r \in Roots |-> FindingOf(upTo(n, r), {})]]
           step(f, i) ==
             IF i = 0 THEN NoFindings
             ELSE IF RootCause[recs[i].test] # NoRoot /\ recs[i].status = "FAIL"
             THEN [f[i-1] EXCEPT ![RootCause[recs[i].test]] = CreateOrLink(@, i)]
             ELSE f[i-1]
<1>1. N \in Nat
  BY LenProperties
<1>2. \A i \in 0..N : form[i] = step(form, i)
  <2> SUFFICES ASSUME NEW i \in 0..N
               PROVE  [r \in Roots |-> FindingOf(upTo(i, r), {})] = step(form, i)
    OBVIOUS
  <2>1. CASE i = 0
    <3>1. \A r \in Roots : upTo(0, r) = {}
      BY Positions
    <3>2. FindingOf({}, {}) = NoFinding
      BY DEF FindingOf, NoFinding
    <3> QED BY <2>1, <3>1, <3>2 DEF NoFindings
  <2>2. CASE i # 0
    <3> DEFINE before == [r \in Roots |-> FindingOf(upTo(i-1, r), {})]
               c == RootCause[recs[i].test]
    <3>1. i \in 1..N /\ i - 1 \in 0..N /\ form[i-1] = before
      BY <1>1, <2>2
    <3>2. recs[i].test \in Tests /\ i \in DOMAIN recs /\ c \in Roots \union {NoRoot}
      <4>1. DOMAIN recs = 1..N /\ recs[i].test \in Tests
        BY <3>1, ChainFacts
      <4> QED BY <3>1, <4>1 DEF Tests
    <3>3. \A r \in Roots :
            upTo(i, r) = IF c = r /\ recs[i].status = "FAIL"
                         THEN upTo(i-1, r) \union {i} ELSE upTo(i-1, r)
      BY <3>1, <3>2, Positions DEF FailuresOf
    <3>4. \A r \in Roots : upTo(i-1, r) \in SUBSET Nat
      BY Positions
    <3>5. step(form, i) = IF c # NoRoot /\ recs[i].status = "FAIL"
                          THEN [before EXCEPT ![c] = CreateOrLink(@, i)] ELSE before
      BY <2>2, <3>1
    <3> HIDE DEF upTo, c, step
    <3>6. CASE c # NoRoot /\ recs[i].status = "FAIL"
      <4>1. before[c] = FindingOf(upTo(i-1, c), {})
        BY <3>2, <3>6
      <4>2. CreateOrLink(before[c], i) = FindingOf(upTo(i-1, c) \union {i}, {})
        <5>1. upTo(i-1, c) \in SUBSET Nat /\ i \in Nat
          BY <3>1, <3>2, <3>4, <3>6
        <5> QED BY <4>1, <5>1, LinkStep
      <4> QED BY <3>2, <3>3, <3>5, <3>6, <4>2
    <3>7. CASE ~(c # NoRoot /\ recs[i].status = "FAIL")
      <4>1. \A r \in Roots : upTo(i, r) = upTo(i-1, r)
        BY <3>3, <3>7
      <4> QED BY <3>5, <3>7, <4>1
    <3> QED BY <3>6, <3>7
  <2> QED BY <2>1, <2>2
<1>3. form = [i \in 0..N |-> step(form, i)]
  BY <1>2
<1>4. Linked(recs) = CHOOSE f : f = [i \in 0..N |-> step(f, i)]
  BY DEF Linked
<1> HIDE DEF form
<1>5. Linked(recs) = [i \in 0..N |-> step(Linked(recs), i)]
  BY <1>3, <1>4, Zenon
<1>6. \A i \in 1..N : Linked(recs)[i-1] = form[i-1] => Linked(recs)[i] = form[i]
  <2> SUFFICES ASSUME NEW i \in 1..N, Linked(recs)[i-1] = form[i-1]
               PROVE  Linked(recs)[i] = form[i]
    OBVIOUS
  <2>1. i \in 0..N /\ i # 0
    BY <1>1
  <2>2. Linked(recs)[i] = step(Linked(recs), i) /\ form[i] = step(form, i)
    BY <1>2, <1>5, <2>1
  <2> QED BY <2>1, <2>2
<1>7. Linked(recs)[0] = form[0]
  BY <1>1, <1>3, <1>5
<1>8. Linked(recs)[N] = form[N]
  <2>1. Follows(N, Linked(recs), form)
    BY <1>6, <1>7 DEF Follows
  <2> HIDE DEF N
  <2>2. AgreeUpTo(N, Linked(recs), form)
    BY <1>1, <2>1, SameRecursion
  <2>3. N \in 0..N
    BY <1>1
  <2> QED BY <2>2, <2>3 DEF AgreeUpTo
<1>9. form[N] = [r \in Roots |-> FindingOf(FailuresOf(recs, r), {})]
  <2>1. \A r \in Roots : upTo(N, r) = FailuresOf(recs, r)
    BY <1>1, ChainFacts DEF FailuresOf
  <2>2. N \in 0..N
    BY <1>1
  <2>3. form[N] = [r \in Roots |-> FindingOf(upTo(N, r), {})]
    BY <2>2 DEF form
  <2> HIDE DEF upTo
  <2> QED BY <2>1, <2>3
<1> QED BY <1>8, <1>9

\* The second pass closes each finding by the first retest it meets: the closed form
\* is what the two loops compute.
LEMMA ReplayIs ==
  ASSUME NEW recs \in Seq(Record)
  PROVE  RestoreByReplay(recs) = RestoreFindings(recs)
<1> DEFINE N == Len(recs)
           F(r) == FailuresOf(recs, r)
           upTo(n, r) == {i \in RetestsOf(recs, r) : i <= n}
           form == [n \in 0..N |-> [r \in Roots |-> FindingOf(F(r), upTo(n, r))]]
           step(f, i) ==
             IF i = 0 THEN Linked(recs)[Len(recs)]
             ELSE IF RetestOf[recs[i].test] # NoRoot /\ recs[i].status = "PASS"
             THEN [f[i-1] EXCEPT ![RetestOf[recs[i].test]] = CloseByRetest(@, i)]
             ELSE f[i-1]
<1>1. N \in Nat
  BY LenProperties
<1>2. \A i \in 0..N : form[i] = step(form, i)
  <2> SUFFICES ASSUME NEW i \in 0..N
               PROVE  [r \in Roots |-> FindingOf(F(r), upTo(i, r))] = step(form, i)
    OBVIOUS
  <2>1. CASE i = 0
    <3>1. \A r \in Roots : upTo(0, r) = {}
      BY Positions
    <3>2. step(form, i) = [r \in Roots |-> FindingOf(F(r), {})]
      BY <2>1, LinkedIs
    <3> HIDE DEF upTo, F, step
    <3> QED BY <2>1, <3>1, <3>2
  <2>2. CASE i # 0
    <3> DEFINE before == [r \in Roots |-> FindingOf(F(r), upTo(i-1, r))]
               c == RetestOf[recs[i].test]
    <3>1. i \in 1..N /\ i - 1 \in 0..N /\ form[i-1] = before
      BY <1>1, <2>2
    <3>2. recs[i].test \in Tests /\ i \in DOMAIN recs /\ c \in Roots \union {NoRoot}
      <4>1. DOMAIN recs = 1..N /\ recs[i].test \in Tests
        BY <3>1, ChainFacts
      <4> QED BY <3>1, <4>1 DEF Tests
    <3>3. \A r \in Roots :
            upTo(i, r) = IF c = r /\ recs[i].status = "PASS"
                         THEN upTo(i-1, r) \union {i} ELSE upTo(i-1, r)
      BY <3>1, <3>2, Positions DEF RetestsOf
    <3>4. \A r \in Roots : /\ upTo(i-1, r) \in SUBSET Nat /\ F(r) \in SUBSET Nat
                           /\ \A j \in upTo(i-1, r) : j < i
      BY <3>1, Positions
    <3>5. step(form, i) = IF c # NoRoot /\ recs[i].status = "PASS"
                          THEN [before EXCEPT ![c] = CloseByRetest(@, i)] ELSE before
      BY <2>2, <3>1
    <3> HIDE DEF upTo, F, c, step
    <3>6. CASE c # NoRoot /\ recs[i].status = "PASS"
      <4>1. before[c] = FindingOf(F(c), upTo(i-1, c))
        BY <3>2, <3>6
      <4>2. CloseByRetest(before[c], i) = FindingOf(F(c), upTo(i-1, c) \union {i})
        <5>1. /\ upTo(i-1, c) \in SUBSET Nat /\ F(c) \in SUBSET Nat /\ i \in Nat
              /\ \A j \in upTo(i-1, c) : j < i
          BY <3>1, <3>2, <3>4, <3>6
        <5>2. CloseByRetest(FindingOf(F(c), upTo(i-1, c)), i)
                = FindingOf(F(c), upTo(i-1, c) \union {i})
          BY <5>1, CloseStep
        <5> QED BY <4>1, <5>2, Zenon
      <4> QED BY <3>2, <3>3, <3>5, <3>6, <4>2
    <3>7. CASE ~(c # NoRoot /\ recs[i].status = "PASS")
      <4>1. \A r \in Roots : upTo(i, r) = upTo(i-1, r)
        BY <3>3, <3>7
      <4> QED BY <3>5, <3>7, <4>1
    <3> QED BY <3>6, <3>7
  <2> QED BY <2>1, <2>2
<1>3. form = [i \in 0..N |-> step(form, i)]
  BY <1>2
<1>4. Closed(recs) = CHOOSE f : f = [i \in 0..N |-> step(f, i)]
  BY DEF Closed
<1> HIDE DEF form
<1>5. Closed(recs) = [i \in 0..N |-> step(Closed(recs), i)]
  BY <1>3, <1>4, Zenon
<1>6. \A i \in 1..N : Closed(recs)[i-1] = form[i-1] => Closed(recs)[i] = form[i]
  <2> SUFFICES ASSUME NEW i \in 1..N, Closed(recs)[i-1] = form[i-1]
               PROVE  Closed(recs)[i] = form[i]
    OBVIOUS
  <2>1. i \in 0..N /\ i # 0
    BY <1>1
  <2>2. Closed(recs)[i] = step(Closed(recs), i) /\ form[i] = step(form, i)
    BY <1>2, <1>5, <2>1
  <2> QED BY <2>1, <2>2
<1>7. Closed(recs)[0] = form[0]
  BY <1>1, <1>3, <1>5
<1>8. Closed(recs)[N] = form[N]
  <2>1. Follows(N, Closed(recs), form)
    BY <1>6, <1>7 DEF Follows
  <2> HIDE DEF N
  <2>2. AgreeUpTo(N, Closed(recs), form)
    BY <1>1, <2>1, SameRecursion
  <2>3. N \in 0..N
    BY <1>1
  <2> QED BY <2>2, <2>3 DEF AgreeUpTo
<1>9. form[N] = [r \in Roots |-> FindingOf(F(r), RetestsOf(recs, r))]
  <2>1. \A r \in Roots : upTo(N, r) = RetestsOf(recs, r)
    BY <1>1, ChainFacts DEF RetestsOf
  <2>2. N \in 0..N
    BY <1>1
  <2>3. form[N] = [r \in Roots |-> FindingOf(F(r), upTo(N, r))]
    BY <2>2 DEF form
  <2> HIDE DEF upTo, F
  <2> QED BY <2>1, <2>3
<1> QED BY <1>8, <1>9 DEF RestoreByReplay, RestoreFindings

\* Whatever the evidence file holds, the closed form this module reasons with is the
\* registry the two loops of _restore_response_state rebuild from it.
THEOREM RestoreAlwaysReplays == Spec => []RestoreIsReplay
<1>1. TypeOK => RestoreIsReplay
  BY ReplayIs DEF TypeOK, RestoreIsReplay
<1> QED BY <1>1, TypeCorrect, PTL

-----------------------------------------------------------------------------
(***************************************************************************)
(* The registry of a running campaign and the one a restart rebuilds       *)
(***************************************************************************)
\* An empty chain has no findings.
LEMMA RestoreNothing == RestoreFindings(<<>>) = NoFindings
<1>1. \A r \in Roots : FailuresOf(<<>>, r) = {} /\ RetestsOf(<<>>, r) = {}
  BY DEF FailuresOf, RetestsOf
<1>2. FindingOf({}, {}) = NoFinding
  BY DEF FindingOf, NoFinding
<1> QED BY <1>1, <1>2 DEF RestoreFindings, NoFindings

\* One more record adds at most one failure and one retest.
LEMMA PositionsAppend ==
  ASSUME NEW recs \in Seq(Record), NEW x \in Record, NEW r
  PROVE  LET h == Len(recs) + 1 IN
         /\ FailuresOf(Append(recs, x), r) =
              IF RootCause[x.test] = r /\ x.status = "FAIL"
              THEN FailuresOf(recs, r) \union {h} ELSE FailuresOf(recs, r)
         /\ RetestsOf(Append(recs, x), r) =
              IF RetestOf[x.test] = r /\ x.status = "PASS"
              THEN RetestsOf(recs, r) \union {h} ELSE RetestsOf(recs, r)
<1> DEFINE more == Append(recs, x)
           h == Len(recs) + 1
<1>1. /\ DOMAIN more = DOMAIN recs \union {h} /\ more[h] = x
      /\ \A i \in DOMAIN recs : more[i] = recs[i]
  BY AppendFacts
<1> HIDE DEF more
<1>2. FailuresOf(more, r) = IF RootCause[x.test] = r /\ x.status = "FAIL"
                            THEN FailuresOf(recs, r) \union {h} ELSE FailuresOf(recs, r)
  BY <1>1 DEF FailuresOf
<1>3. RetestsOf(more, r) = IF RetestOf[x.test] = r /\ x.status = "PASS"
                           THEN RetestsOf(recs, r) \union {h} ELSE RetestsOf(recs, r)
  BY <1>1 DEF RetestsOf
<1> QED BY <1>2, <1>3 DEF more

\* Where retests come last, answering the next record of the campaign as it comes
\* gives the registry that a restart rebuilds with it: the order in which the two
\* passes see the records makes no difference.
LEMMA ResponseIsRestore ==
  ASSUME NEW recs \in Seq(Record), NEW x \in Record, RetestsLast,
         \A i \in DOMAIN recs : recs[i].test = i, x.test = Len(recs) + 1
  PROVE  ProcessResponse(RestoreFindings(recs), x.test, x.status, Len(recs) + 1)
           = RestoreFindings(Append(recs, x))
<1> DEFINE h == Len(recs) + 1
           fs == RestoreFindings(recs)
           F(r) == FailuresOf(recs, r)
           T(r) == RetestsOf(recs, r)
           more == Append(recs, x)
           c == RootCause[x.test]
           d == RetestOf[x.test]
<1>1. /\ x.test \in Tests /\ c \in Roots \union {NoRoot} /\ d \in Roots \union {NoRoot}
      /\ Len(recs) \in Nat /\ h \in Nat /\ DOMAIN recs = 1..Len(recs)
  BY ChainFacts DEF Record, Tests
<1>2. \A r \in Roots : /\ F(r) \in SUBSET Nat /\ T(r) \in SUBSET Nat
                       /\ \A j \in T(r) : j < h
  BY <1>1, Positions DEF RetestsOf
<1>3. \A r \in Roots : c = r => T(r) = {}
  <2> SUFFICES ASSUME NEW r \in Roots, c = r, NEW j \in T(r) PROVE FALSE
    OBVIOUS
  <2>1. j \in 1..Len(recs) /\ RetestOf[recs[j].test] = r /\ recs[j].test = j
    BY <1>1 DEF RetestsOf
  <2>2. j \in Tests
    BY <1>1, <2>1, ChainFacts
  <2>3. x.test <= j
    BY <1>1, <2>1, <2>2 DEF RetestsLast
  <2> QED BY <1>1, <2>1, <2>3
<1>4. fs = [r \in Roots |-> FindingOf(F(r), T(r))]
  BY DEF RestoreFindings
<1>5. /\ RestoreFindings(more) =
           [r \in Roots |-> FindingOf(FailuresOf(more, r), RetestsOf(more, r))]
      /\ \A r \in Roots :
           /\ FailuresOf(more, r) =
                IF c = r /\ x.status = "FAIL" THEN F(r) \union {h} ELSE F(r)
           /\ RetestsOf(more, r) =
                IF d = r /\ x.status = "PASS" THEN T(r) \union {h} ELSE T(r)
  BY PositionsAppend DEF RestoreFindings
<1> SUFFICES ProcessResponse(fs, x.test, x.status, h) = RestoreFindings(more)
  OBVIOUS
<1> HIDE DEF h, fs, F, T, more, c, d
<1>6. CASE c # NoRoot /\ x.status = "FAIL"
  <2>1. ProcessResponse(fs, x.test, x.status, h) = [fs EXCEPT ![c] = CreateOrLink(@, h)]
    BY <1>6 DEF ProcessResponse, c
  <2>2. fs[c] = FindingOf(F(c), {})
    BY <1>1, <1>3, <1>4, <1>6
  <2>3. CreateOrLink(fs[c], h) = FindingOf(F(c) \union {h}, {})
    <3>1. F(c) \in SUBSET Nat
      BY <1>1, <1>2, <1>6
    <3> QED BY <1>1, <2>2, <3>1, LinkStep
  <2>4. \A r \in Roots : RetestsOf(more, r) = T(r)
    BY <1>5, <1>6
  <2>5. \A r \in Roots : FindingOf(FailuresOf(more, r), RetestsOf(more, r))
                          = IF r = c THEN FindingOf(F(c) \union {h}, {}) ELSE fs[r]
    BY <1>3, <1>4, <1>5, <1>6, <2>4
  <2>6. RestoreFindings(more) =
          [r \in Roots |-> IF r = c THEN FindingOf(F(c) \union {h}, {}) ELSE fs[r]]
    BY <1>5, <2>5
  <2>7. [fs EXCEPT ![c] = CreateOrLink(@, h)]
          = [r \in Roots |-> IF r = c THEN CreateOrLink(fs[c], h) ELSE fs[r]]
    BY <1>4
  <2> QED BY <2>1, <2>3, <2>6, <2>7
<1>7. CASE d # NoRoot /\ x.status = "PASS"
  <2>1. ProcessResponse(fs, x.test, x.status, h) = [fs EXCEPT ![d] = CloseByRetest(@, h)]
    BY <1>7 DEF ProcessResponse, d
  <2>2. fs[d] = FindingOf(F(d), T(d))
    BY <1>1, <1>4, <1>7
  <2>3. CloseByRetest(fs[d], h) = FindingOf(F(d), T(d) \union {h})
    <3>1. /\ F(d) \in SUBSET Nat /\ T(d) \in SUBSET Nat
          /\ \A j \in T(d) : j < h
      BY <1>1, <1>2, <1>7
    <3> QED BY <1>1, <2>2, <3>1, CloseStep
  <2>4. \A r \in Roots : FailuresOf(more, r) = F(r)
    BY <1>5, <1>7
  <2>5. \A r \in Roots : FindingOf(FailuresOf(more, r), RetestsOf(more, r))
                          = IF r = d THEN FindingOf(F(d), T(d) \union {h}) ELSE fs[r]
    BY <1>4, <1>5, <1>7, <2>4
  <2>6. RestoreFindings(more) =
          [r \in Roots |-> IF r = d THEN FindingOf(F(d), T(d) \union {h}) ELSE fs[r]]
    BY <1>5, <2>5
  <2>7. [fs EXCEPT ![d] = CloseByRetest(@, h)]
          = [r \in Roots |-> IF r = d THEN CloseByRetest(fs[d], h) ELSE fs[r]]
    BY <1>4
  <2> QED BY <2>1, <2>3, <2>6, <2>7
<1>8. CASE /\ ~(c # NoRoot /\ x.status = "FAIL")
           /\ ~(d # NoRoot /\ x.status = "PASS")
  <2>1. ProcessResponse(fs, x.test, x.status, h) = fs
    BY <1>8 DEF ProcessResponse, c, d
  <2>2. \A r \in Roots : FailuresOf(more, r) = F(r) /\ RetestsOf(more, r) = T(r)
    BY <1>5, <1>8
  <2> QED BY <1>4, <1>5, <2>1, <2>2
<1> QED BY <1>6, <1>7, <1>8

\* A registry rebuilt from a campaign whose retests come last closes a finding only
\* by a retest after every failure of it.
LEMMA RestoreClosesByNewer ==
  ASSUME NEW recs \in Seq(Record), RetestsLast, \A i \in DOMAIN recs : recs[i].test = i,
         NEW r \in Roots, RestoreFindings(recs)[r].status \in {"NONE", "CLOSED"}
  PROVE  /\ RestoreFindings(recs)[r].links = FailuresOf(recs, r)
         /\ FailuresOf(recs, r) # {} => RestoreFindings(recs)[r].retest \in RetestsOf(recs, r)
         /\ \A i \in FailuresOf(recs, r), j \in RetestsOf(recs, r) : i < j
<1> DEFINE F == FailuresOf(recs, r)
           T == RetestsOf(recs, r)
           first == CHOOSE i \in T : \A j \in T : i <= j
<1>1. RestoreFindings(recs)[r] =
        [status |-> IF F = {} THEN "NONE" ELSE IF T = {} THEN "OPEN" ELSE "CLOSED",
         links  |-> F,
         retest |-> IF F = {} \/ T = {} THEN 0 ELSE first]
  BY DEF RestoreFindings, FindingOf
<1>2. \A i \in F, j \in T : i < j
  <2> SUFFICES ASSUME NEW i \in F, NEW j \in T PROVE i < j
    OBVIOUS
  <2>1. /\ recs[i].test = i /\ recs[j].test = j /\ i \in Tests /\ j \in Tests
        /\ recs[i].status = "FAIL" /\ recs[j].status = "PASS"
    BY ChainFacts DEF FailuresOf, RetestsOf
  <2>2. RootCause[i] = r /\ RetestOf[j] = r /\ r # NoRoot
    BY <2>1 DEF FailuresOf, RetestsOf
  <2>3. i <= j /\ i # j
    BY <2>1, <2>2 DEF RetestsLast
  <2> QED BY <2>1, <2>3 DEF Tests
<1>3. T # {} => first \in T
  BY Positions, LeastChosen
<1> HIDE DEF F, T, first
<1>4. F # {} => T # {}
  BY <1>1
<1> QED BY <1>1, <1>2, <1>3, <1>4 DEF F, T

\* The empty registry, and one just rebuilt, close nothing too early.
LEMMA ClosedByNewer ==
  ASSUME TypeOK, CampaignInv, RetestsLast,
         findings' = NoFindings \/ findings' = RestoreFindings(evidence)
  PROVE  ClosedOnlyByNewerRetest'
<1> SUFFICES ASSUME NEW r \in Roots, findings'[r].status = "CLOSED",
                    NEW h \in findings'[r].links
             PROVE  h < findings'[r].retest
  BY DEF ClosedOnlyByNewerRetest
<1>1. findings' = RestoreFindings(evidence)
  BY DEF NoFindings, NoFinding
<1>2. evidence \in Seq(Record) /\ \A i \in DOMAIN evidence : evidence[i].test = i
  BY DEF TypeOK, CampaignInv, EvidenceInv
<1> QED BY <1>1, <1>2, RestoreClosesByNewer

\* Every step keeps the registry the one a restart would rebuild.
LEMMA FindingsStep ==
  ASSUME TypeOK, Active, CampaignInv, RetestsLast, FindingsInv, ClosedOnlyByNewerRetest,
         [Next]_vars
  PROVE  FindingsInv' /\ ClosedOnlyByNewerRetest'
<1> DEFINE Answering == {"mark", "markWrite", "respond"}
<1>1. ASSUME pc' \notin {"run", "append"} \union Answering, findings' = NoFindings
      PROVE  FindingsInv' /\ ClosedOnlyByNewerRetest'
  BY <1>1, ClosedByNewer DEF FindingsInv
<1>2. ASSUME UNCHANGED <<pc, findings, evidence, records, cursor>>
      PROVE  FindingsInv' /\ ClosedOnlyByNewerRetest'
  BY <1>2 DEF FindingsInv, ClosedOnlyByNewerRetest, LastRecord
<1>3. ASSUME NEW v \in Versions, StartRaises(v)
      PROVE  FindingsInv' /\ ClosedOnlyByNewerRetest'
  BY <1>2, <1>3 DEF StartRaises, disk, memory
<1>4. ASSUME NEW v \in Versions, NEW k \in Limits, StartStale(v, k) \/ StartMatching(v, k)
      PROVE  FindingsInv' /\ ClosedOnlyByNewerRetest'
  BY <1>1, <1>4 DEF StartStale, StartMatching, BeginProcess
<1>5. CASE UnlinkArchive \/ MoveEvidence
  BY <1>1, <1>5 DEF UnlinkArchive, MoveEvidence, FindingsInv, memory
<1>6. CASE UnlinkCheckpoint
  <2>1. /\ pc = "unlinkCheckpoint" /\ pc' = "run" /\ findings' = findings
        /\ evidence' = evidence
    BY <1>6 DEF UnlinkCheckpoint, memory
  <2>2. findings = NoFindings /\ evidence = <<>>
    BY <2>1 DEF FindingsInv, CampaignInv, ArchiveInv
  <2> QED BY <2>1, <2>2, RestoreNothing, ClosedByNewer DEF FindingsInv
<1>7. ASSUME NEW i \in DOMAIN records, ReconcileMark(i)
      PROVE  FindingsInv' /\ ClosedOnlyByNewerRetest'
  BY <1>1, <1>7 DEF ReconcileMark, FindingsInv
<1>8. CASE ReconcileWrite
  BY <1>1, <1>8 DEF ReconcileWrite, FindingsInv, memory
<1>9. CASE Restore
  <2>1. pc = "reconcile" /\ pc' = "run" /\ evidence' = evidence
        /\ findings' = RestoreFindings(records)
    BY <1>9 DEF Restore, disk
  <2>2. records = evidence
    BY <2>1 DEF CampaignInv, MemoryInv, Matching
  <2> QED BY <2>1, <2>2, ClosedByNewer DEF FindingsInv
<1>10. CASE Resume \/ \E s \in Status : Execute(s)
  <2>1. /\ pc = "run" /\ pc' \in {"run", "append"}
        /\ findings' = findings /\ evidence' = evidence
    BY <1>10 DEF Resume, Execute, InLoop, disk
  <2> QED BY <2>1 DEF FindingsInv, ClosedOnlyByNewerRetest
<1>11. CASE AppendToFile
  <2>1. /\ pc = "append" /\ pc' = "mark" /\ evidence' = Append(evidence, LastRecord)
        /\ UNCHANGED <<findings, records, cursor>>
    BY <1>11 DEF AppendToFile, memory
  <2>2. /\ LastRecord = PendingRecord /\ PendingRecord \in Record
        /\ Len(records) = Len(evidence) + 1
    BY <2>1, PendingFacts
  <2>3. /\ PendingRecord.test = Len(evidence) + 1 /\ PendingRecord.test = cursor
        /\ \A i \in DOMAIN evidence : evidence[i].test = i
    BY <2>1 DEF PendingRecord, CampaignInv, LoopInv, EvidenceInv
  <2>4. findings = RestoreFindings(evidence)
    BY <2>1 DEF FindingsInv
  <2>5. evidence \in Seq(Record)
    BY DEF TypeOK
  <2> HIDE DEF PendingRecord
  <2>6. ProcessResponse(findings, cursor, PendingRecord.status, Len(records))
          = RestoreFindings(Append(evidence, PendingRecord))
    BY <2>2, <2>3, <2>4, <2>5, ResponseIsRestore
  <2>7. LastRecord' = LastRecord
    BY <2>1 DEF LastRecord
  <2> QED BY <2>1, <2>2, <2>6, <2>7 DEF FindingsInv, ClosedOnlyByNewerRetest
<1>12. CASE Mark \/ MarkWrite
  <2>1. /\ pc \in Answering /\ pc' \in Answering
        /\ UNCHANGED <<findings, evidence, records, cursor>>
    BY <1>12 DEF Mark, MarkWrite, memory
  <2> QED BY <2>1 DEF FindingsInv, ClosedOnlyByNewerRetest, LastRecord
<1>13. CASE Respond
  <2>1. /\ pc = "respond" /\ pc' = "run" /\ evidence' = evidence
        /\ findings' = ProcessResponse(findings, cursor, LastRecord.status, Len(records))
    BY <1>13 DEF Respond, disk
  <2>2. findings' = RestoreFindings(evidence)
    BY <2>1 DEF FindingsInv
  <2> QED BY <2>1, <2>2, ClosedByNewer DEF FindingsInv
<1>14. CASE Finish \/ Crash
  BY <1>1, <1>14 DEF Finish, Crash, ForgetMemory
<1>15. CASE FreshClone \/ UNCHANGED vars
  BY <1>2, <1>15 DEF FreshClone, vars, disk, memory
<1> QED BY <1>3, <1>4, <1>5, <1>6, <1>7, <1>8, <1>9, <1>10, <1>11, <1>12, <1>13, <1>14, <1>15
        DEF Next, Start, Process, Archive, Reconcile, Run

\* Every step keeps the loop's count of unexpected results honest, and a process says
\* that its campaign is clean only when the evidence file bears it out.
LEMMA ExitStep ==
  ASSUME TypeOK, Active, CampaignInv, RetestsLast, FindingsInv, ExitInv,
         CleanExitIsEvidenced, [Next]_vars
  PROVE  ExitInv' /\ CleanExitIsEvidenced'
<1> DEFINE Counted == unexpected = 0 =>
                        \A t \in Tests : t < cursor => completed[t] = Expected[t]
<1>1. ASSUME cursor' = 1, exit' # "zero" PROVE ExitInv' /\ CleanExitIsEvidenced'
  BY <1>1 DEF ExitInv, CleanExitIsEvidenced, Tests
<1>2. ASSUME Counted', pc # "down", exit' = exit PROVE ExitInv' /\ CleanExitIsEvidenced'
  BY <1>2 DEF ExitInv, CleanExitIsEvidenced
<1>3. Counted
  BY DEF ExitInv
<1>4. ASSUME NEW v \in Versions, StartRaises(v) PROVE ExitInv' /\ CleanExitIsEvidenced'
  BY <1>3, <1>4 DEF StartRaises, memory, ExitInv, CleanExitIsEvidenced
<1>5. ASSUME NEW v \in Versions, NEW k \in Limits, StartStale(v, k) \/ StartMatching(v, k)
      PROVE  ExitInv' /\ CleanExitIsEvidenced'
  BY <1>1, <1>5 DEF StartStale, StartMatching, BeginProcess
<1>6. CASE Archive
  BY <1>2, <1>3, <1>6 DEF Archive, UnlinkArchive, MoveEvidence, UnlinkCheckpoint, memory
<1>7. CASE Reconcile
  <2>1. /\ pc \in {"reconcile", "reconcileWrite"} /\ cursor' = cursor /\ exit' = exit
    BY <1>7 DEF Reconcile, ReconcileMark, ReconcileWrite, Restore, memory
  <2>2. cursor' = 1
    BY <2>1 DEF CampaignInv, LoopInv
  <2> QED BY <1>2, <2>1, <2>2 DEF Tests
<1>8. CASE Resume
  <2>1. /\ pc = "run" /\ exit' = exit /\ cursor' = cursor + 1 /\ UNCHANGED completed
        /\ unexpected' = unexpected + IF completed[cursor] = Expected[cursor] THEN 0 ELSE 1
    BY <1>8 DEF Resume, InLoop
  <2>2. unexpected' = 0 => unexpected = 0 /\ completed[cursor] = Expected[cursor]
    BY <2>1 DEF TypeOK
  <2> QED BY <1>2, <1>3, <2>1, <2>2 DEF TypeOK, Tests
<1>9. CASE (\E s \in Status : Execute(s)) \/ AppendToFile \/ MarkWrite
  BY <1>2, <1>3, <1>9 DEF Execute, AppendToFile, MarkWrite, InLoop, memory
<1>10. CASE Mark
  <2>1. /\ pc = "mark" /\ exit' = exit /\ UNCHANGED <<cursor, unexpected>>
        /\ completed' = [completed EXCEPT ![cursor] = LastRecord.status]
    BY <1>10 DEF Mark, MarkInMemory
  <2>2. \A t \in Tests : t < cursor => completed'[t] = completed[t]
    BY <2>1 DEF TypeOK, Tests
  <2> QED BY <1>2, <1>3, <2>1, <2>2
<1>11. CASE Respond
  <2>1. /\ pc = "respond" /\ exit' = exit /\ cursor' = cursor + 1 /\ UNCHANGED completed
        /\ unexpected' = unexpected + IF LastRecord.status = Expected[cursor] THEN 0 ELSE 1
    BY <1>11 DEF Respond
  <2>2. unexpected' = 0 => unexpected = 0 /\ LastRecord.status = Expected[cursor]
    BY <2>1 DEF TypeOK
  <2>3. completed[cursor] = LastRecord.status
    <3>1. records = evidence /\ cursor = Len(evidence) /\ cursor \in Tests
      BY <2>1 DEF CampaignInv, MemoryInv, LoopInv, Matching, Active
    <3>2. cursor \in DOMAIN evidence
      BY <3>1, ChainFacts DEF TypeOK, Tests
    <3>3. completed[cursor] # Missing
      BY <2>1, <3>2 DEF CampaignInv, LoopInv
    <3> QED BY <2>1, <3>1, <3>3 DEF CampaignInv, MemoryInv, Matching, LastRecord
  <2> QED BY <1>2, <1>3, <2>1, <2>2, <2>3 DEF TypeOK, Tests
<1>12. CASE Finish
  <2>1. /\ pc = "run" /\ LoopEnded /\ exit' = (IF Clean THEN "zero" ELSE "one")
        /\ pc' = "down" /\ cursor' = 1 /\ UNCHANGED <<evidence, version>>
    BY <1>12 DEF Finish, LoopEnded, ForgetMemory, disk
  <2>2. CASE ~Clean
    BY <1>1, <2>1, <2>2
  <2>3. CASE Clean
    <3>1. cursor = CaseCount + 1
      BY <2>1, <2>3 DEF LoopEnded, Clean, TypeOK, Tests
    <3>2. Len(evidence) = CaseCount /\ DOMAIN evidence = Tests
      BY <2>1, <3>1, ChainFacts DEF CampaignInv, LoopInv, EvidenceInv, TypeOK, Tests
    <3>3. \A i \in DOMAIN evidence : /\ evidence[i].status = Expected[i]
                                     /\ evidence[i].sig = version
      <4> SUFFICES ASSUME NEW i \in Tests
                   PROVE  evidence[i].status = Expected[i] /\ evidence[i].sig = version
        BY <3>2
      <4>1. completed[i] = Expected[i] /\ completed[i] # Missing
        BY <1>3, <2>3, <3>1 DEF Clean, Tests
      <4> QED BY <2>1, <3>2, <4>1 DEF CampaignInv, MemoryInv, Matching
    <3>4. ASSUME NEW r \in Roots, NEW i \in FailuresOf(evidence, r)
          PROVE  \E j \in RetestsOf(evidence, r) : i < j
      <4>1. findings = RestoreFindings(evidence) /\ findings[r].status \in {"NONE", "CLOSED"}
        BY <2>1, <2>3 DEF FindingsInv, Clean
      <4>2. evidence \in Seq(Record) /\ \A k \in DOMAIN evidence : evidence[k].test = k
        BY DEF TypeOK, CampaignInv, EvidenceInv
      <4>3. /\ RestoreFindings(evidence)[r].retest \in RetestsOf(evidence, r)
            /\ \A j \in RetestsOf(evidence, r) : i < j
        BY <3>4, <4>1, <4>2, RestoreClosesByNewer
      <4> QED BY <4>3
    <3>5. CleanExitIsEvidenced'
      BY <2>1, <3>2, <3>3, <3>4 DEF CleanExitIsEvidenced, FailuresOf, RetestsOf
    <3> QED BY <2>1, <3>5 DEF ExitInv, Tests
  <2> QED BY <2>2, <2>3
<1>13. CASE Crash
  BY <1>1, <1>13 DEF Crash, ForgetMemory
<1>14. CASE FreshClone \/ UNCHANGED vars
  BY <1>14 DEF FreshClone, vars, disk, memory, ExitInv, CleanExitIsEvidenced,
               FailuresOf, RetestsOf
<1> QED BY <1>4, <1>5, <1>6, <1>7, <1>8, <1>9, <1>10, <1>11, <1>12, <1>13, <1>14
        DEF Next, Start, Process, Run

\* The registry of a running campaign, its findings and its exit status, for every
\* campaign whose retests come last.
THEOREM RegistryInvariant ==
  ASSUME ~AllowRevert, RetestsLast
  PROVE  Spec => []RegistryInv
<1>1. Init => RegistryInv
  BY DEF Init, RegistryInv, FindingsInv, ClosedOnlyByNewerRetest, ExitInv,
         CleanExitIsEvidenced, NoFindings, NoFinding, Tests
<1>2. TypeOK /\ Active /\ CampaignInv /\ RegistryInv /\ [Next]_vars => RegistryInv'
  BY FindingsStep, ExitStep DEF RegistryInv
<1> QED BY <1>1, <1>2, CampaignInvariant, PTL DEF Spec

\* No kill loses a finding and none closes one: what the running process answered is
\* what the next one will rebuild from the file.
THEOREM RestartAlwaysPreserves ==
  ASSUME ~AllowRevert, RetestsLast
  PROVE  Spec => []RestartPreservesFindings
<1>1. RegistryInv => RestartPreservesFindings
  BY DEF RegistryInv, FindingsInv, RestartPreservesFindings, BetweenCases
<1> QED BY <1>1, RegistryInvariant, PTL

\* A finding is closed only by a retest recorded after every failure linked to it, in
\* the process that ran the retest and in every one that restores it.
THEOREM ClosedAlwaysByNewer ==
  ASSUME ~AllowRevert, RetestsLast
  PROVE  Spec => []ClosedOnlyByNewerRetest
<1>1. RegistryInv => ClosedOnlyByNewerRetest
  BY DEF RegistryInv
<1> QED BY <1>1, RegistryInvariant, PTL

\* Exit status 0 means that the disk holds the whole campaign of that version, as
\* expected, with a later passing retest for every failure that revealed a root cause.
THEOREM CleanExitAlwaysEvidenced ==
  ASSUME ~AllowRevert, RetestsLast
  PROVE  Spec => []CleanExitIsEvidenced
<1>1. RegistryInv => CleanExitIsEvidenced
  BY DEF RegistryInv
<1> QED BY <1>1, RegistryInvariant, PTL

-----------------------------------------------------------------------------
(***************************************************************************)
(* The campaign implements the ledger of EvidenceLedger                    *)
(***************************************************************************)
\* The only steps that touch the evidence file or the version.
LEMMA DiskSteps ==
  ASSUME [Next]_vars
  PROVE  \/ UNCHANGED <<evidence, version>>
         \/ AppendToFile
         \/ MoveEvidence
         \/ Start
  BY DEF Next, Process, Archive, Reconcile, Run, UnlinkArchive, UnlinkCheckpoint,
         ReconcileMark, ReconcileWrite, Restore, Resume, Execute, Mark, MarkWrite, Respond,
         Finish, Crash, FreshClone, vars, disk

\* Appending to the file records the next case of the campaign.
LEMMA AppendRecordsNext ==
  ASSUME TypeOK, Active, CampaignInv, AppendToFile
  PROVE  Ledger!RecordNext
<1>1. pc = "append" /\ evidence' = Append(evidence, LastRecord) /\ UNCHANGED version
  BY DEF AppendToFile
<1>2. LastRecord = PendingRecord /\ LastRecord.status \in Status
  BY <1>1, PendingFacts DEF CampaignInv, MemoryInv, Matching
<1>3. cursor = Len(evidence) + 1 /\ cursor <= CaseCount /\ Len(evidence) \in Nat
  BY <1>1, ChainFacts DEF CampaignInv, LoopInv, TypeOK
<1>4. version \in 1..MaxVersion /\ \A i \in DOMAIN evidence : evidence[i].sig = version
  BY <1>1 DEF CampaignInv, MemoryInv, Matching, Versions
<1>5. PendingRecord = Ledger!Entry(LastRecord.status)
  BY <1>3 DEF PendingRecord, Ledger!Entry
<1>6. evidence' = Append(evidence, Ledger!Entry(LastRecord.status))
  BY <1>1, <1>2, <1>5
<1>7. Len(evidence) < CaseCount
  BY <1>3
<1> QED BY <1>1, <1>2, <1>4, <1>6, <1>7 DEF Ledger!RecordNext, Ledger!HoldsOnly, Status

\* What is archived is the evidence of another version, whole.
LEMMA MoveSetsAside ==
  ASSUME TypeOK, CampaignInv, MoveEvidence
  PROVE  Ledger!SetAside
<1>1. evidence' = <<>> /\ UNCHANGED version /\ pc = "moveEvidence"
  BY DEF MoveEvidence
<1>2. evidence # <<>> /\ evidence[1].sig # version
  BY <1>1 DEF CampaignInv, ArchiveInv
<1>3. \A i \in DOMAIN evidence : evidence[i].sig # version
  BY <1>2 DEF CampaignInv, EvidenceInv
<1> QED BY <1>1, <1>2, <1>3 DEF Ledger!SetAside

\* Every start, archiving, append, kill and restart is a step of the ledger or leaves
\* it alone.
THEOREM CampaignImplementsLedger ==
  ASSUME ~AllowRevert
  PROVE  Spec => ImplementsLedger
<1>1. Init => Ledger!Init
  BY DEF Init, Ledger!Init
<1>2. TypeOK /\ Active /\ CampaignInv /\ [Next]_vars => [Ledger!Next]_<<evidence, version>>
  <2> SUFFICES ASSUME TypeOK, Active, CampaignInv, [Next]_vars
               PROVE  [Ledger!Next]_<<evidence, version>>
    OBVIOUS
  <2>1. CASE UNCHANGED <<evidence, version>>
    BY <2>1
  <2>2. CASE AppendToFile
    BY <2>2, AppendRecordsNext DEF Ledger!Next
  <2>3. CASE MoveEvidence
    BY <2>3, MoveSetsAside DEF Ledger!Next
  <2>4. CASE Start
    <3>1. version' \in 1..MaxVersion /\ version' >= version /\ UNCHANGED evidence
      BY <2>4 DEF Start, StartRaises, StartStale, StartMatching, BeginProcess, MayStart,
                  disk, Versions, TypeOK
    <3> QED BY <3>1 DEF Ledger!Next, Ledger!Release
  <2> QED BY <2>1, <2>2, <2>3, <2>4, DiskSteps
<1> QED BY <1>1, <1>2, CampaignInvariant, PTL DEF Spec, ImplementsLedger, Ledger!Spec

\* The evidence file only grows, or is archived whole by a version none of it is of.
THEOREM OnlyForeignArchived ==
  ASSUME ~AllowRevert
  PROVE  Spec => OnlyForeignEvidenceIsArchived
<1> DEFINE Kept == /\ Len(evidence) <= Len(evidence')
                   /\ \A i \in DOMAIN evidence : evidence'[i] = evidence[i]
           SetAside == /\ evidence' = <<>> /\ archive' = evidence
                       /\ \A i \in DOMAIN evidence : evidence[i].sig # version
<1>1. TypeOK /\ Active /\ CampaignInv /\ [Next]_vars => Kept \/ SetAside
  <2> SUFFICES ASSUME TypeOK, Active, CampaignInv, [Next]_vars PROVE Kept \/ SetAside
    OBVIOUS
  <2>0. Len(evidence) \in Nat /\ DOMAIN evidence = 1..Len(evidence)
    BY ChainFacts DEF TypeOK
  <2>1. CASE UNCHANGED evidence
    BY <2>0, <2>1
  <2>2. CASE AppendToFile
    <3>1. pc = "append" /\ evidence' = records
      BY <2>2, PendingFacts DEF AppendToFile
    <3> QED BY <2>0, <3>1, PendingFacts
  <2>3. CASE MoveEvidence
    BY <2>3, MoveSetsAside DEF MoveEvidence, Ledger!SetAside
  <2>4. CASE Start
    <3>1. UNCHANGED evidence
      BY <2>4 DEF Start, StartRaises, StartStale, StartMatching, BeginProcess, disk
    <3> QED BY <3>1, <2>1
  <2> QED BY <2>1, <2>2, <2>3, <2>4, DiskSteps
<1> QED BY <1>1, CampaignInvariant, PTL DEF Spec, OnlyForeignEvidenceIsArchived
=============================================================================
