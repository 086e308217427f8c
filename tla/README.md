# A verification project for the BMS security validation lab

`bms_security_lab` is a Python model of the security functions of a battery management
system (BMS), with a campaign runner that executes its security cases and keeps evidence.
This directory holds TLA+ modules for the parts of it that keep state, TLC configurations
that check them on small instances, and TLAPS proofs of the results that matter for every
instance. Paths like `campaign_builder.py` are relative to `src/bms_security_lab/`.

Contents: 1. the system · 2. modules and code · 3. runs and bounds · 4. known divergences ·
5. fairness · 6. proofs · 7. only model-checked, not modelled · 8. plan · 9. running it.

## 1. The system

The repository is a library of independent classes, one per concern; there are no threads,
no sockets and no scheduler. Everything hard comes from elsewhere: the campaign runner
persists its progress and can be killed between two writes; the validators are called by
code that is not in the repository, which may keep a decision and act on it later, may
interleave the requests of several sources, and may hand over stamps in any order.

| Component | State | Operations | Interactions | Hard behaviour | What makes it correct |
|---|---|---|---|---|---|
| Campaign runner (`campaign_builder.py`, `main.py`) | checkpoint file, case loop, counters | construct (load, archive, reconcile, restore), `run`, exit status | evidence store, findings, cases | kill between any two file effects, resume, change of version, lost checkpoint | evidence is a prefix of the case list; nothing completed without evidence; the campaign completes |
| Evidence store (`evidence_report.py`) | JSON-lines file, hash chain in memory | `append`, `_load`, `verify_chain` | written by the runner | memory ahead of the file, reload after a kill | the chain always reloads |
| Findings (`finding.py`, `remediation.py`) | finding per root cause | create or link, remediate, retest | driven by the runner, rebuilt from the evidence | live order and restored order differ | closed only by a newer passing retest |
| Firmware update (`update_manager.py`, `secure_boot.py`, `trusted_key_store.py`, `firmware_manifest.py`) | staged package, token, state, accepted version; keys | verify, install, activate, recover, rotate, revoke | manager calls verifier, verifier reads the key store, callers carry decisions | time between verification and activation, storage changed in between, revocation, stale context | what is active was verified, is still trusted, and is no rollback |
| Diagnostic service (`diagnostic_validator.py`, `diagnostic_model.py`) | session, unlock, attempts, lockout, programming step, transfer flag | one request at a time | none | long sequences over several sessions and lockouts, late stamps | rate-limited guesses, authorized services, ordered programming |
| Event pipeline (`event_store.py`, `anomaly_detector.py`) | bounded store, alert keys | `add`, `process` | detector reads the store and stores its alerts in it | eviction while correlating, events out of time order | severe events survive; visible bursts are alerted |
| Command gate (`command_validator.py`, `command_model.py`) | last executed counter of each source | `validate`, `record_executed` | callers execute in between | validation and recording are two calls | out of order only where two commands of a source overlap; no command in a state that forbids it |
| Timing monitor (`timing_monitor.py`) | monitoring start, last stamp of each id | `start`, `record_message`, `check_missing` | none | delayed, reordered and fast stamps | losses are reported, present messages are not |
| Traffic monitor (`traffic_monitor.py`) | stamps in a sliding window, two bounded queues | `observe_frame`, record, enqueue, dequeue | none | out-of-order stamps, full queues | exact window, flagged floods, oldest-first drops |
| Sensor trust (`validator.py`, `source_validator.py`, `authorization_policy.py`, `replay_validator.py`, `sensor_history.py`, `plausibility_validator.py`, `cross_signal_validator.py`) | revoked sources, last counter and stamp, one shared history | check, record, revoke, restore | validators share the history | check and record are two calls, revocation in between, lost readings, wraparound | each recorded reading fresh against what it was checked against, the stream broken only by overlapping readings of one source; plausible; after a revocation at most the reading each caller had checked |
| Trusted state, demo (`trusted_state.py`, `spoofing_demo.py`) | trusted SOC | `update_soc`, `apply_reading_if_valid` | validator, then update | - | only valid values are trusted |
| Network access (`network_validator.py`, `modbus_model.py`) | denial times of each client, audit list | `validate` | none | sliding window over stamps in any order, ends of register ranges | denials past the limit are flagged, no register outside the ranges |
| Configuration (`configuration_validator.py`, `configuration_model.py`) | audit list | `validate`, `apply_authorized_upgrade` | caller keeps the current configuration | stale previous configuration | the audit exposes every rollback |
| Safe state and recovery (`safe_state.py`, `recovery_manager.py`) | log of requests | `decide`, `request_recovery` | called on failures | mode and failure combined | required actions; no contactor opening while driving |
| CAN codec, frame, fuzzer (`can_codec.py`, `can_frame.py`, `frame_fuzzer.py`) | none (fuzzer: its generator) | encode, decode | fuzzer calls the decoder | widths, signs, rounding, flipped bits | what is decoded is what was sent |
| Older test runner (`test_runner.py`, `checkpoint_store.py`, `test_case.py`) | checkpoint file | `run_all` | - | kill while writing, no version | as the campaign runner |

`PROJECT.json` lists the hazards of each component at the line where they bite. Hazards
outside the model by assumption are in section 7.

## 2. Modules and their code

| Module | Models | State and actions against the code |
|---|---|---|
| `FindingOps` | `finding.py`, `remediation.py` | a finding as a record; each method is a function from finding to finding |
| `CampaignRunner` | `campaign_builder.py`, `evidence_report.py`, `main.py` | the three files (`evidence`, `archive`, `checkpoint`), the process's memory, and `pc` at every point between two effects on the disk; `Crash` may come at each of them; `RestoreFindings` is the restored registry in closed form, `RestoreByReplay` the two loops that rebuild it |
| `EvidenceLedger` | what the campaign promises of its evidence | abstract: an append-only ledger that another version may set aside whole; `CampaignRunner` implements it with `ledger <- evidence, release <- version` |
| `SecureUpdate` | the update path | one action per way out of each method; `issued` is the set of allowed decisions callers hold, any of which may be used at any later time; `Activate` takes any package for what the storage holds by then |
| `DiagnosticSession` | `diagnostic_validator.py` | one action per service that changes `DiagnosticState`; every request carries any stamp |
| `EventPipeline` | `event_store.py`, `anomaly_detector.py` | `Process` is the whole of `process()`: store, correlate, raise, store the alerts |
| `CommandGate` | `command_validator.py` | `Validate`, `Execute` (= `record_executed`) and `Abandon` are separate: whatever is between them in a caller may happen, another controller's command of the same source too |
| `TimingMonitor` | `timing_monitor.py` | `Start` and `RecordMessage` are actions; `check_missing` changes nothing and is the predicate `Missing` |
| `TrafficMonitor` | `traffic_monitor.py` | `ObserveFrame`, `Put` (both queues), `Take` |
| `SensorTrust` | `validator.py`, `source_validator.py`, `authorization_policy.py`, `replay_validator.py`, `sensor_history.py`, `plausibility_validator.py`, `cross_signal_validator.py`, `trusted_state.py`, `spoofing_demo.py` | `Check` lets the validators a caller requires look at a reading and changes nothing; `Record` is every state change that follows (freshness, history, trusted SOC) and compares nothing; `Drop` gives a reading up; several callers may have readings of one source in hand; `RevokeSource` and `RestoreSource` come at any time |
| `FreshStream` | what `ReplayValidator` promises of the readings it records | abstract: each entry follows those it was compared with, by the next counter modulo the wraparound and a later stamp; for a source with one caller these are all before it; `SensorTrust` implements it |
| `NetworkAccess` | `network_validator.py`, `modbus_model.py` | `AllowRequest` and `DenyRequest` are the two ways out of `validate()`; requests come with any stamp |
| `ConfigurationAudit` | `configuration_validator.py`, `configuration_model.py` | `ApplyAuthorizedUpgrade` with any previous configuration a caller may hold |
| `CANCodec` | `can_codec.py`, `can_frame.py`, `evaluate_case` of `frame_fuzzer.py` | `EncodeSensorReading`, `FlipBit` (the channel), `Inject` (another sender, the fuzzer), `DecodeSensorFrame`; a byte is the set of its bits; two's complement and CRC at full width |
| `MC*` | | the values the runs give to the constants; `MCAccessGates` and `MCCANMonitors` explore components side by side |
| `ProofLemmas`, `*_proofs` | | section 6 |

Compositions: `CampaignRunner` composes the runner with the evidence store, the checkpoint
and the findings of `FindingOps`; `SecureUpdate` composes manager, verifier and key store;
`EventPipeline` composes detector and store; `SensorTrust` composes the validators, the policy,
the history they share and the trusted state. The remaining classes do not call each other in
`src/`.

Two MC modules explore such classes *side by side*: `MCAccessGates` the command gate, the
network and the configuration (whose docstring says "Validate configuration independently from
firmware authorization."), `MCCANMonitors` the two monitors and the codec. A step moves one
component while the others are in their initial states. That loses nothing: they share no
variable, and every property there is about the variables of one component, so what the
others do changes neither its behaviours nor its verdict. It is no claim about a composed system;
it only saves a run per component.

Variables a module's header calls history (what was executed, seen, guessed) exist in the
model only, to state properties over several steps; no action's guard reads them, apart
from the named bounds.

What is abstracted, beyond what each header says:

- *Cryptography is ideal.* A digest is the value, a signature names its signer and the
  message. Evidence hashes are positions in the writer's chain.
- *A kill of the process, not a loss of power.* An evidence line fits the stream's buffer
  and reaches the file with one call, which a kill does not split. `checkpoint.json` is
  written with `write_text`, which truncates in one call and writes in another: a kill in
  between is modelled (`"torn"`). Torn lines after a power loss are not.
- *One process per output directory*, which is how the README has it run.
- Reasons, wording, reports and audit lists that nothing reads back are left out.

## 3. Runs, bounds and what they show

| Run | Expect | Question |
|---|---|---|
| `campaign` | pass | evidence, checkpoint and findings under kills, limits, version changes; completion |
| `campaign_version_returns` | violation | an older version runs again after an interrupted upgrade |
| `campaign_torn_checkpoint` | violation | a kill between truncating and writing the checkpoint |
| `campaign_retest_first` | violation | a retest recorded before the failure, and a restart |
| `secure_update` | pass | verification, installation, activation and recovery with decisions of any age |
| `diagnostic_session` | pass | lockout, authorization and procedure over all request sequences |
| `diagnostic_interrupted` | violation | a session change in the middle of a transfer |
| `event_pipeline` | pass | losses, accounting, alerts |
| `access_gates` | pass | commands of two controllers in every interleaving; denials and ranges of Modbus requests; the audit of configurations |
| `command_gate_precharge` | violation | charge enabled before precharge |
| `can_monitors` | pass | losses and false alarms with late, reordered messages; the window, the rate, the queues; a frame and its flipped bits |
| `sensor_trust` | pass | the recorded stream of each source under interleaved callers, replays and revocations |

**campaign** (215,102 states). Three cases shaped like the default campaign: two failures
that reveal one root cause, then its retest; every case may pass, fail or raise. Two code
versions, `--max-cases` 1 or unlimited, two kills at any point, the checkpoint lost any
number of times. It shows that the evidence file is always a prefix of the case list by one
version (`EvidenceIsCampaignPrefix`), that what counts as completed is recorded with that
status (`CompletedIsRecorded`), that the chain reloads (`EvidenceReloads`), that a restart
rebuilds the registry the killed process had (`RestartPreservesFindings`), that a finding is
closed only by a retest after every failure linked to it (`ClosedOnlyByNewerRetest`), that
exit status 0 has all its evidence on disk (`CleanExitIsEvidenced`), that evidence is archived
only by a version that recorded none of it (`OnlyForeignEvidenceIsArchived`), that the closed
form used for the restored registry is what the two loops compute (`RestoreIsReplay`), that
the ledger is implemented (`ImplementsLedger`), and that an operator who keeps running the
command gets the campaign completed unless a torn checkpoint is left lying
(`CompletesUnlessTorn`). Bounds: three cases are enough for a case before, at and after any
kill and for both findings passes; two versions for one to find what another left; two kills
for a kill during the recovery from a kill.

**secure_update**. Three packages (an old release that expires, a new one, the new manifest
over the old image), two signers whose keys have every combination of interval, presence and
revocation initially; clock 0..2. `NoUnauthorizedRollback` and `ActivatedAsVerified` look
back over the history of activations; `NoUntrustedActivation` and `RevokedStaysRevoked`
constrain steps. One older and one newer version are enough for a rollback, one foreign
image for a replaced storage.

**diagnostic_session**. Lockout after two wrong keys for two units, stamps 0..6, wrong keys
stamped up to 4: enough for two lockouts in a row and for a request stamped before the
last one. `MaxTime` bounds the stamps of wrong keys, so that a later request always exists.

**event_pipeline** (418,966 states). Two interchangeable sources (symmetry), five kinds of
report over four severities, a store of three events, threshold two, window one, times
0..2 in any order, four observations. A store of three lets a burst fill, overflow and be
evicted within four observations.

**access_gates** (723,566 states). *Commands*: two controllers that share the sources, so that two
commands of one source may be validated before either is executed; sources with all, one and no
permission; stamps, counters and states that exercise every rule; three executions, so that a
third command can be compared with a counter that went back. `DisorderNeedsOverlap` says that
this is the only cause of disorder. *Requests*: a client of each
role and sessions refused for each reason; requests at the ends of the ranges, past them, and
across two that touch (`AccessStaysInRange`); three denials of each client, stamped 0..3 in any
order over a window of one, with limit two, so that a stamp ahead prunes what an earlier one
would count. `DenialsAreCounted` says what is left of the rule then: nobody is limited without
enough denials in the window of the last, and the latest stamp a client ever carried counts all
of its window. *Configurations*: two approved versions that fit and one approved one that does not,
copies with changed values and old or new hash, three applications from any previous
configuration. `RollbackBreaksTheChain` is what the audit can still promise when callers hold a
stale previous configuration: three are enough for a rollback over an upgrade in between.

**can_monitors** (139,787 states). *Timing*: two ids with different timeouts, messages stamped up
to one unit in the past, so that arrivals may be reordered, monitor restarts at any time.
*Traffic*: one id, because ids share no state but the queues, which carry no id; mean gap two
over a window of three; four frames with any stamps up to 7, so that the window empties and
refills; queues of two with four entries each. *Codec*: readings at both ends of every range, one
half way between two units and one out of range; any two of the 64 payload bits flipped;
frames of other senders with wrong identifiers, lengths and flags. `DecodedIsSent` relates what
is decoded with what was encoded at the other end, through the rounding, the two's complement
and the CRC.

**sensor_trust** (301,139 states). A main sensor, a redundant one that starts revoked and a
stranger; counters 0..2 and three recorded readings of the main sensor, so that the counter
returns to 0 after any start but 0; stamps 0..2 or none; readings that rise by the rate limit
and by twice the limit, and one that fails each other check. Six setups: all checks, and all but plausibility (the only
way a reading without a stamp passes), by two callers that both handle the main sensor, and by
one for it and one for the other sources; all checks by one caller; and the demo, one caller that
requires the range only. Two callers of one source reach every overlap of two readings, the same
counter recorded twice among them. The run shows that each recorded reading is fresh against what
was recorded when it was checked, which is all of it for a source with one caller
(`ImplementsFreshStream`); that a counter within a cycle, or a stamp, comes back only where readings
of the source overlapped (`RepeatNeedsOverlap`); that the SOC one caller records obeys the rate limit over
any period although sources share the history (`DriftIsBounded`); and that each caller records of a
revoked source at most the reading it had checked before (`RevocationStops`).

The type invariants of the other modules are theorems (section 6) and are not checked again
in every run.

## 4. Known divergences

Shown by a violation run, and listed under `findings`:

1. *Version returns* (`campaign_builder.py:166`). Archiving moves the evidence before it
   unlinks the checkpoint. Killed in between, and run again by the old version, the runner
   resumes from the checkpoint with no evidence behind it.
2. *Torn checkpoint* (`campaign_builder.py:118`). A kill between truncation and write leaves
   a file that `json.loads` refuses in every later constructor.
3. *Retest first* (`campaign_builder.py:395`). Restoring links all failures and then applies
   all retests, so a restart closes a finding the live run left open.
4. *Interrupted transfer* (`diagnostic_validator.py:56`). A session change leaves
   `update_transfer_active` on.
5. *Precharge* (`command_validator.py:118`). Charge and discharge are enabled without it.

Not given a run of their own, and seen by changing one constant or by reading one line:

- A failure recorded after the retest is linked to a CLOSED finding and does not open it
  again (`finding.py:60`): append a case that fails with the root cause again to the
  `campaign` instance and `ClosedOnlyByNewerRetest` fails. The run therefore checks it for
  campaigns that retest last, as the default one does.
- With `CallerReadsManager = FALSE` a caller's old context rolls back
  (`update_manager.py:121`: the manager's own accepted version is never read).
- The queues of the traffic monitor are bounded and the stamps of a window are not: its docstring
  (`traffic_monitor.py:21`) says "Detect flooding while keeping internal storage bounded."; frames
  over the rate are appended at line 65 all the same. This is plain from the line.
- After one lost reading a source is refused until its counter comes round, because any jump
  fails and nothing that fails is recorded (`replay_validator.py:97`). That is the price of
  `ImplementsFreshStream`; the code has no resynchronisation.
- With several callers at once the bound of `DriftIsBounded` does not hold (`sensor_history.py:47`): two
  readings checked against the same previous one are recorded one after the other.
- BMS-SEC-SEN-002 names the rate of change of the current too; `plausibility_validator.py` limits
  those of SOC, voltage and temperature and looks at the current's direction only.
- With `MaxFlips = 3` `DecodedIsSent` fails: three flipped bits can pass a CRC of eight bits. It is
  the code's own remark (`can_codec.py:131`) that the CRC detects errors and authenticates nothing.
- With `SenderOrder # ReceiverOrder` it fails too: the frame carries no byte order and the CRC
  does not depend on it.
- Two commands of a source that are both validated before either is executed may be executed in
  the wrong order, or both with one counter; the recorded counter then goes back, and a counter
  already executed passes again (`command_validator.py:95` compares nothing). `access_gates` has these
  steps: `DisorderNeedsOverlap` without its `Overlap` is violated there.
- Two callers that check the same counter of a source both record it
  (`replay_validator.py:123-146` compares nothing), and one that records late takes the last counter
  and the last stamp back, so that readings already recorded pass again. `sensor_trust` has these steps:
  `RepeatNeedsOverlap` without its `Overlaps` is violated there.
- With `MaxAhead > 0` one message stamped ahead of the clock hides a loss
  (`timing_monitor.py:72`).
- A store full of events of one severity neither stores nor correlates further events of it
  (`event_store.py:25`): the guard of `BurstsAreDetected` says exactly when.

## 5. Fairness

Only `campaign` and `campaign_torn_checkpoint` use fairness: `FairSpec` is `Spec` with weak
fairness of `Process` and of `Start`. The first says that a running process takes its next
step, which the operating system's scheduling gives and a single-threaded loop without
waiting needs nothing more for. The second says that the operator runs the command again
when no process runs, as the resume procedure of the repository's README has it. There is
no fairness for kills, for a lost checkpoint or for a release. Kills are bounded by
`MaxCrashes`: a campaign killed for ever does not complete. Versions only rise there, so one
of them is the last. The limit of `--max-cases` is at least 1: with 0 no run executes
anything. The other modules claim no liveness: the code acts only when called, and nothing
in the repository promises that it is.

## 6. Proofs

Checked by `tlapm` for every value of the constants that the named assumptions allow:

| Module | Theorems |
|---|---|
| `ProofLemmas` | every non-empty set of naturals has a least element; two functions that obey the same recursion agree; what `Append` does to a sequence |
| `CampaignRunner_proofs` | `TypeOK`; `CampaignInv`; `EvidenceIsCampaignPrefix`, `EvidenceReloads`, `CompletedIsRecorded`; the refinement of `EvidenceLedger`; `OnlyForeignEvidenceIsArchived`; `RestoreIsReplay`; through `RegistryInv`, `RestartPreservesFindings`, `ClosedOnlyByNewerRetest`, `CleanExitIsEvidenced` |
| `SecureUpdate_proofs` | types, `PendingIsVerified` and `ActivatedAsVerified`, `NoUnauthorizedRollback`, `NoUntrustedActivation`, `RevokedStaysRevoked` |
| `DiagnosticSession_proofs` | types, `DiagnosticInv`, `GuessesAreRateLimited`, `LockoutNeverShortens`, `ProtectedIsAuthorized`, `ProcedureIsOrdered` |
| `EventPipeline_proofs` | types and capacity, `EverythingIsAccounted`, `SevereSurvives`, through `PipelineInv`; `BurstsAreDetected`, `AlertsAreJustified`, through `HistoryInv` |
| `AccessGates_proofs` | types, `DisorderNeedsOverlap` through `CounterInv`; `RollbackBreaksTheChain`; `AccessStaysInRange`, `DenialsAreCounted` |
| `CANMonitors_proofs` | types; `LossIsDetected`, `PresentIsNotMissing`, `SilenceIsReportedOnArrival`; `WindowIsExact`, `FloodIsLimited`, `SteadyIsNotLimited`, `QueueHoldsNewest`; `DecodedIsSent` through `CodecInv` |
| `SensorTrust_proofs` | `TypeOK`; the refinement of `FreshStream`; `RepeatNeedsOverlap`, `RevocationStops`, `DriftIsBounded` |

Besides the assumptions on the constants' types (`CampaignAssumption` and so on):

- the campaign results from `CampaignInv` on assume `~AllowRevert`. Without it they are
  false (divergence 1). Torn checkpoints are allowed: safety does not depend on them;
- the three properties of the findings assume `RetestsLast` too: no case that can reveal a root
  cause comes after one that retests it, as `build_default_campaign` orders its cases. In
  `campaign_retest_first`, which does not, `ClosedOnlyByNewerRetest` is false (divergence 3).
  `RestoreIsReplay` assumes nothing;
- `NoUnauthorizedRollback` assumes `CallerReadsManager`;
- `LossIsDetected` and `SilenceIsReportedOnArrival` assume `MaxAhead = 0`: a stamp ahead of the
  clock hides a silence (section 4). `PresentIsNotMissing` needs no such assumption;
- `DecodedIsSent` assumes `SenderOrder = ReceiverOrder` and `MaxFlips <= 2`; without either it is
  false (section 4). The readings are any records of four integers.

*The campaign.* That the evidence is a prefix is not inductive: the next record is right
only if the cursor, the memory and the checkpoint agree with the file at every point between
two effects. `CampaignInv` says how: the file is a chained prefix by one version; a whole
checkpoint lists nothing beyond it, or is of an older version when the file is empty (left
by an interrupted archiving); memory equals the file except for the record in flight; the
loop is where the file ends. That an older version does not come back is needed where
an empty evidence file meets a whole checkpoint: it must be of an older version. Reconciliation picks the
least unmarked record and restoration the first retest: both need `NatMinimum`, since the
library's induction over naturals takes an operator the provers cannot instantiate. The
refinement maps the append to `RecordNext`, moving the evidence to `SetAside`, a start to
`Release` or a stutter, and everything else to a stutter; `CampaignInv` gives the guards.

*The findings.* The registry in memory is the one the evidence file restores, but for the response
to the record that was just appended: `FindingsInv` says which of the two holds at each `pc`.
Responding to one more record changes the registry as restoring one more record does only when
no failure follows a retest, which is `RetestsLast`; a kill then loses nothing, because the next
process restores the same registry. `ExitInv` adds that the loop has left no unexpected result
behind. What is restored is written in closed form; that the two loops compute it, for a file of
any length, is `RestoreIsReplay`. The loops are recursive functions, that is, choices of a function
that obeys an equation: the closed form is shown to obey it, and two that do agree, by the
least index where they would differ (`SameRecursion`).

*The update.* A staged package is bound to a token only at activation, so what is inductive
relates `token`, `issued`, `accepted` and the history: `accepted` is the highest version
ever activated, and whoever reads it at the call compares with that.

*The lockout.* `LockoutInv` ties the counter to the number of wrong keys since the last
valid one and the lockout's end to the stamp of the last: only then does a served request
say that the gap was kept. `ProcedureInv` ties the step to the services accepted.

*The event store.* `SevereSurvives` needs `KeepsWhileRoom`: an event appended while there
is room might be less severe than something lost before, so nothing may have been lost while
there is room. The store never shrinks, which is what makes that inductive. Bursts and alerts
compare what the store holds with what was observed: `HistoryInv` embeds each in the other, the
observed events more severe than the worst loss into the store, and the stored events that are no
alerts into the observed ones, occurrence by occurrence, since two events may be equal. An embedding
carries the failures of a window over with their number, so that what makes a burst among the
observed events makes one in the store, and what raises an alert was observed.

*The command gate.* Nothing is assumed of the controllers, so the recorded counter need not be the
highest one executed. `CounterInv` says when it is: every executed command has a counter up to the
recorded one unless commands of its source have overlapped since, and a validated command is above
the recorded one if none of its source was executed since it was validated. Executing a command
keeps both or adds an overlap, which what is executed later does not undo (`OverlapStays`).

*The configuration audit.* `AuditInv` adds that every event upgrades by itself. A version that
comes back after a chain of linked events would contradict that its versions rise along the
chain: the new event either extends a chain without a break or shows one.

*The denials.* `ListInv` says what pruning with stamps in any order leaves: a denial that is
no longer listed lies more than a window before some later-stamped one, so that none is
missing in the window of the latest stamp; and what is listed lies in the window of the last.
`Cardinality` is compared by inclusion of finite sets.

*The monitors.* `SeenInv` bounds what is remembered of a message by when it arrived,
`MaxDelay` below and `MaxAhead` above; the three timing properties are arithmetic from there.
The window rests on `Fits`: the stamps kept are a suffix of the accepted ones, in order, and
everything before it is older than a window. Pruning looks at the front only, and is right
because the accepted stamps are sorted: one that moves backward is refused. `Answered` carries
the decision over to it. The queues rest on `Holds`, the closed form of their contents.
For `SteadyIsNotLimited`, gaps of the mean or more add up over a window (`GapsAdd`), so that the
window is too long to hold more frames than its limit.

*The codec.* One step of the checksum register is linear and loses no bit (`ShiftFacts`, bit by
bit), so the difference of two registers evolves by the difference of the payloads alone. An error
in one byte stays in the register and reaches the checksum (`OneByteShows`). An error of one bit has
spread over several by every later byte: over seven bytes the register never returns to a single
bit (`BitSpreads`), so no second flipped bit cancels the first (`TwoBitsShow`). Two payloads with a
right checksum that differ in two bits at most are therefore equal, and what is left is that
`from_bytes` undoes `to_bytes`, of negative numbers too, and that rounding stays in its range.
`CodecInv` keeps the payload on the channel within as many bits of the encoded one as were flipped.

*The sensors.* A counter is recorded without being compared again, and another caller may have
recorded readings of the source since. What survives between check and record is that the reading
follows the entries it was compared with (`FollowsSeen`), since a stream only grows, and that it is
still fresh if there are no more (`WaitsFresh`). With that and `Remembers` (the last counter and the
stamp of the last entry that has one are what the validator holds) every recording is a step of
`FreshStream`; for a source with one caller `Alone` makes the entries compared with all there are.
`OrderInv` says that over a stretch of entries that were each compared with all before them
counters go on by steps and stamps rise; a repetition therefore needs an entry that was not, which is
`RepeatNeedsOverlap`. `TrailInv` ties the shared history to the newest point of the trail, so that
a limit kept between neighbours adds up (`DriftAdds`). `LateInv` is why one late reading is the
most of each caller: after it nothing of the source waits with the caller, and nothing passes while
it is revoked.

## 7. Only model-checked, and not modelled

Model-checked only: `CompletesUnlessTorn`. Liveness under fairness, with ENABLED, is out of TLAPS's
reach. Every other property the passing runs check is a theorem. That the properties of the violation runs
fail is shown by TLC's counterexamples.

Not modelled: `safe_state.py` and `recovery_manager.py` (a table from failure and mode to actions
that keeps nothing, and one conjunction whose log nobody reads: only their test calls them, and a
model of either would restate its guards); the older test runner (unused by `main.py`, and its one
hard behaviour, the kill while the checkpoint is written, is the campaign's); the fuzzer's
seeded generator, reports and logs (written, never read back); the crypto provider (a wrapper
around a library, taken as ideal); the firmware manifest's JSON syntax (a manifest parses or does
not); the latency verdict of the timing monitor (a pure comparison); the tests and documents.

Outside the model by assumption: two processes over one output directory, whose in-memory
chains would fork the evidence file (nothing locks it); a caller that catches a failed write
of a record and runs on with the same runner; what becomes of the first archive at a second
change of version (the code keeps one); how often a source is alerted (its key is never
cleared) and whose an incident of two sources is; a change of the operating state between
the validation and the execution of a command, which `CommandGate` lets happen and the
code leaves to its caller; stamps below zero, which every check refuses; the growth of the traffic monitor with the number of ids.

## 8. Plan

Done: the campaign with its ledger and findings; the update path; diagnostics; the event
pipeline; the command gate; the two availability monitors; sensor trust with its stream; network
access; configurations; the codec.

Left, most important first:

1. Each traffic queue as the implementation of a lossy first-in first-out queue, and the update
   path as that of a sequence of trusted activations, with the refinements proved.
2. Sensor trust with a caller that resynchronises a source after a loss, once the code has one.

Runs are kept few: a component without interaction gets one passing run, bounded to a few
hundred thousand states; a violation run is kept only for a divergence from what the
repository says of itself.

## 9. Running it

```
tlc -workers 2 -config Campaign.cfg MCCampaignRunner
tlapm CampaignRunner_proofs.tla
```

`PROJECT.json` names the module and configuration of every run, the mutation of the code
that each property detects, and the source lines each definition translates.
