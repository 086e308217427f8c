---------------------------- MODULE SecureUpdate ----------------------------
(***************************************************************************)
(* The firmware update path: UpdateManager, the SecureBootVerifier it      *)
(* calls at activation, and the TrustedKeyStore both depend on, with the   *)
(* operator who verifies packages, keeps the decisions, and installs,      *)
(* activates and recovers with any of them at any later time.              *)
(*                                                                         *)
(* Abstractions.                                                           *)
(*  - SHA-256 is collision free: a digest is the value it was taken of. A  *)
(*    signature is the pair of who made it and what it was made over.      *)
(*  - A public key is named by its signer: rotation brings a new signer.   *)
(*  - The audit logs and the wording of reasons are left out: a decision   *)
(*    is allowed or not.                                                   *)
(***************************************************************************)
EXTENDS Naturals

CONSTANTS
  Packages,            \* the packages in circulation: FirmwarePackage
  Signers,
  KeyIntervals,        \* possible <<valid_from_s, valid_until_s>> of a key
  EcuTarget, HardwareProfile,
  InitialVersion,      \* UpdateManager(accepted_security_version)
  ContextVersions,     \* security versions a caller may put in a context
  CallerReadsManager,  \* does the caller take it from the manager at each call?
  MaxTime              \* bound on the clock (model bound)

ASSUME UpdateAssumption ==
  /\ \A p \in Packages : /\ p.manifest.version \in Nat /\ p.manifest.signer \in Signers
                         /\ p.manifest.issued \in Nat /\ p.manifest.expires \in Nat
                         /\ p.manifest.parses \in BOOLEAN
  /\ KeyIntervals \subseteq {i \in Nat \X Nat : i[1] < i[2]}
  /\ InitialVersion \in Nat /\ ContextVersions \subseteq Nat /\ MaxTime \in Nat
  /\ CallerReadsManager \in BOOLEAN

VARIABLES
  keys,       \* TrustedKeyStore._keys: signer -> entry
  now,        \* the clock every context takes now_s from
  issued,     \* the allowed decisions handed out, by their token
  state,      \* UpdateManager.state between calls
  accepted,   \* UpdateManager.accepted_security_version
  staged,     \* {_staged_package}, {} for None
  token,      \* {_verification_token}, {} for None
  active,     \* how the last activation went through; {} before the first
  highest     \* history: the highest version ever activated, or the initial one

vars == <<keys, now, issued, state, accepted, staged, token, active, highest>>

UpdateState == {"IDLE", "PENDING_HEALTH", "ACTIVE", "RECOVERY", "ROLLED_BACK", "SAFE"}
KeyEntry    == [known : BOOLEAN, interval : KeyIntervals, revoked : BOOLEAN]
NewKey      == {k \in KeyEntry : k.known}
Token       == [image : {p.image : p \in Packages},
                manifest : {p.manifest : p \in Packages}]

\* What an activation went through with: the package, the highest version activated
\* until then, and whether the context authorized a recovery.
Activation  == [package : Packages, above : Nat, recovery : BOOLEAN]

TypeOK ==
  /\ keys \in [Signers -> KeyEntry]
  /\ now \in 0..MaxTime
  /\ issued \subseteq Token
  /\ state \in UpdateState
  /\ accepted \in Nat
  /\ staged \in SUBSET Packages
  /\ token \in SUBSET Token
  /\ active \in SUBSET Activation
  /\ highest \in Nat

(***************************************************************************)
(* TrustedKeyStore                                                         *)
(***************************************************************************)
KnownSigner(s)   == keys[s].known
RevokedSigner(s) == keys[s].known /\ keys[s].revoked

\* get_current_key returns a key; both ends of the interval are inside it.
HasCurrentKey(s) == /\ KnownSigner(s) /\ ~RevokedSigner(s)
                    /\ keys[s].interval[1] <= now /\ now <= keys[s].interval[2]

Revoke(s) ==
  /\ KnownSigner(s)
  /\ keys' = [keys EXCEPT ![s].revoked = TRUE]
  /\ UNCHANGED <<now, issued, state, accepted, staged, token, active, highest>>

\* mutant: rotation replaces the key of a signer that is there
RotateInPlace(s, k) ==
  /\ keys' = [keys EXCEPT ![s] = k]
  /\ UNCHANGED <<now, issued, state, accepted, staged, token, active, highest>>

\* By an authenticated actor; the signer must be new.
Rotate(s, k) ==
  /\ ~KnownSigner(s)
  /\ keys' = [keys EXCEPT ![s] = k]
  /\ UNCHANGED <<now, issued, state, accepted, staged, token, active, highest>>

(***************************************************************************)
(* SecureBootVerifier                                                      *)
(***************************************************************************)
TokenOf(p) == [image |-> p.image, manifest |-> p.manifest]

\* mutant: the revocation of the signer's key is not looked up
AcceptsRevoked(p, floor, recovery) ==
  LET m == p.manifest
  IN  /\ m.parses /\ m.issued <= now /\ now <= m.expires
      /\ KnownSigner(m.signer)
      /\ p.signature = [by |-> m.signer, over |-> m]
      /\ p.image = m.image /\ m.target = EcuTarget /\ HardwareProfile \in m.profiles
      /\ m.version < floor => recovery

\* verify_package finds no reason to reject p, in a context with anti-rollback value
\* floor: within its dates, signed over its exact bytes by a signer whose key is
\* current, with the image it names, for this controller, and not a rollback unless
\* recovery is authorized.
Accepts(p, floor, recovery) ==
  LET m == p.manifest
  IN  /\ m.parses /\ m.issued <= now /\ now <= m.expires
      /\ HasCurrentKey(m.signer)
      /\ p.signature = [by |-> m.signer, over |-> m]
      /\ p.image = m.image /\ m.target = EcuTarget /\ HardwareProfile \in m.profiles
      /\ m.version < floor => recovery

\* mutant: the stored bytes are not compared with the verified ones
AcceptsWithoutToken(p, floor, recovery, t) == Accepts(p, floor, recovery)

\* verify_for_activation: verified again, and what was verified before.
AcceptsForActivation(p, floor, recovery, t) ==
  Accepts(p, floor, recovery) /\ TokenOf(p) = t

Context == [floor : ContextVersions \union {accepted}, recovery : BOOLEAN]

\* Contexts callers build: accepted_security_version is the manager's, or theirs.
MayBuild(c) == CallerReadsManager => c.floor = accepted

\* A rejected package, or a crypto provider that raises, gives a decision without a
\* token and changes nothing here.
Verify(p, c) ==
  /\ MayBuild(c) /\ Accepts(p, c.floor, c.recovery)
  /\ issued' = issued \union {TokenOf(p)}
  /\ UNCHANGED <<keys, now, state, accepted, staged, token, active, highest>>

(***************************************************************************)
(* UpdateManager                                                           *)
(***************************************************************************)
\* install() or start_verified_recovery() with a decision that allows nothing.
InstallRejected ==
  /\ state' = "SAFE"
  /\ UNCHANGED <<keys, now, issued, accepted, staged, token, active, highest>>

\* install() in whatever state, with any package and any decision handed out: the two
\* are compared only at activation. VERIFIED and INSTALLING are passed within the call.
Install(p, t, interrupt) ==
  /\ t \in issued
  /\ staged' = {p} /\ token' = {t}
  /\ state' = IF interrupt THEN "RECOVERY" ELSE "PENDING_HEALTH"
  /\ UNCHANGED <<keys, now, issued, accepted, active, highest>>

\* In any other state activate() answers FAIL and changes nothing.
ActivationPending == state = "PENDING_HEALTH"

\* Nothing is staged, the bytes in storage do not verify as what was verified before,
\* or the crypto provider raises.
ActivateRejected ==
  /\ ActivationPending
  /\ state' = "SAFE"
  /\ UNCHANGED <<keys, now, issued, accepted, staged, token, active, highest>>

\* p is what the storage holds now: the staged package, or what replaced it.
ActivateUnhealthy(p, t, c) ==
  /\ ActivationPending /\ t \in token /\ staged # {} /\ MayBuild(c)
  /\ AcceptsForActivation(p, c.floor, c.recovery, t)
  /\ state' = "ROLLED_BACK"
  /\ UNCHANGED <<keys, now, issued, accepted, staged, token, active, highest>>

\* mutant: the anti-rollback value is the version activated last
AcceptLast(v) == v
AcceptedAfter(v) == IF v > accepted THEN v ELSE accepted

Activate(p, t, c) ==
  /\ ActivationPending /\ t \in token /\ staged # {} /\ MayBuild(c)
  /\ AcceptsForActivation(p, c.floor, c.recovery, t)
  /\ state' = "ACTIVE"
  /\ accepted' = AcceptedAfter(p.manifest.version)
  /\ active' = {[package |-> p, above |-> highest, recovery |-> c.recovery]}
  /\ highest' = IF p.manifest.version > highest THEN p.manifest.version ELSE highest
  /\ UNCHANGED <<keys, now, issued, staged, token>>

\* start_verified_recovery() with an allowed decision, from whatever state.
StartRecovery ==
  /\ issued # {}
  /\ state' = "RECOVERY"
  /\ UNCHANGED <<keys, now, issued, accepted, staged, token, active, highest>>

Tick ==
  /\ now < MaxTime
  /\ now' = now + 1
  /\ UNCHANGED <<keys, issued, state, accepted, staged, token, active, highest>>

Init ==
  /\ keys \in [Signers -> KeyEntry]
  /\ now = 0 /\ issued = {} /\ state = "IDLE" /\ accepted = InitialVersion
  /\ staged = {} /\ token = {} /\ active = {}
  /\ highest = InitialVersion

KeyStep    == \E s \in Signers : Revoke(s) \/ \E k \in NewKey : Rotate(s, k)
VerifyStep == \E p \in Packages, c \in Context : Verify(p, c)
ManagerStep ==
  \/ InstallRejected \/ StartRecovery \/ ActivateRejected
  \/ \E p \in Packages, t \in issued, interrupt \in BOOLEAN : Install(p, t, interrupt)
  \/ \E p \in Packages, t \in token, c \in Context :
       ActivateUnhealthy(p, t, c) \/ Activate(p, t, c)

Next == KeyStep \/ VerifyStep \/ ManagerStep \/ Tick
Spec == Init /\ [][Next]_vars

(***************************************************************************)
(* Properties                                                              *)
(***************************************************************************)
\* What waits for activation was verified before it was installed: the branch of
\* activate() for an incomplete verification state is never taken.
PendingIsVerified ==
  state = "PENDING_HEALTH" => staged # {} /\ token # {} /\ token \subseteq issued

\* Firmware older than any that was activated before, or than the initial
\* anti-rollback value, is activated only in an authorized recovery, however long
\* before it was verified and installed, and whatever was activated or recovered to in
\* between (BMS-SEC-FW-002).
NoUnauthorizedRollback ==
  \A a \in active : a.package.manifest.version < a.above => a.recovery

\* The image and manifest activated are, byte for byte, ones that an earlier decision
\* verified: bytes replaced in storage after the verification never become active
\* (BMS-SEC-FW-006).
ActivatedAsVerified ==
  \A a \in active : TokenOf(a.package) \in issued /\ a.package.image = a.package.manifest.image

\* The signer of what is activated is trusted when it is activated: a revocation, or
\* the end of the key's interval, between verification and activation stops it.
NoUntrustedActivation ==
  [][ state # "ACTIVE" /\ state' = "ACTIVE" =>
        \A a \in active' : HasCurrentKey(a.package.manifest.signer) ]_vars

\* No later trust update brings a revoked signer back.
RevokedStaysRevoked ==
  [][ \A s \in Signers : RevokedSigner(s) => keys'[s].revoked ]_vars
=============================================================================
