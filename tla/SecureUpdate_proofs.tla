------------------------- MODULE SecureUpdate_proofs -------------------------
(***************************************************************************)
(* SecureUpdate: types, what is staged, what is activated, and the trust   *)
(* behind it, for every set of packages, signers and key intervals.        *)
(***************************************************************************)
EXTENDS SecureUpdate, TLAPS

USE UpdateAssumption

\* Each variable keeps its type, the manager's state between two calls among them: no
\* call leaves it in VERIFIED or INSTALLING.
THEOREM UpdateTypeCorrect == Spec => []TypeOK
<1>1. Init => TypeOK
  BY DEF Init, TypeOK, UpdateState
<1>2. TypeOK /\ [Next]_vars => TypeOK'
  <2> SUFFICES ASSUME TypeOK, [Next]_vars PROVE TypeOK'
    OBVIOUS
  <2> USE DEF TypeOK
  <2>1. ASSUME NEW s \in Signers, Revoke(s) PROVE TypeOK'
    BY <2>1 DEF Revoke, KeyEntry
  <2>2. ASSUME NEW s \in Signers, NEW k \in NewKey, Rotate(s, k) PROVE TypeOK'
    BY <2>2 DEF Rotate, NewKey
  <2>3. ASSUME NEW p \in Packages, NEW c \in Context, Verify(p, c) PROVE TypeOK'
    BY <2>3 DEF Verify, TokenOf, Token
  <2>4. CASE InstallRejected \/ StartRecovery \/ ActivateRejected
    BY <2>4 DEF InstallRejected, StartRecovery, ActivateRejected, UpdateState
  <2>5. ASSUME NEW p \in Packages, NEW t \in issued, NEW interrupt \in BOOLEAN,
               Install(p, t, interrupt)
        PROVE  TypeOK'
    BY <2>5 DEF Install, UpdateState
  <2>6. ASSUME NEW p \in Packages, NEW t \in token, NEW c \in Context,
               ActivateUnhealthy(p, t, c)
        PROVE  TypeOK'
    BY <2>6 DEF ActivateUnhealthy, UpdateState
  <2>7. ASSUME NEW p \in Packages, NEW t \in token, NEW c \in Context, Activate(p, t, c)
        PROVE  TypeOK'
    <3>1. p.manifest.version \in Nat /\ c.recovery \in BOOLEAN
      BY DEF Context
    <3>2. accepted' \in Nat /\ highest' \in Nat /\ state' \in UpdateState
      BY <2>7, <3>1 DEF Activate, AcceptedAfter, UpdateState
    <3>3. active' \in SUBSET Activation
      BY <2>7, <3>1 DEF Activate, Activation
    <3> QED BY <2>7, <3>2, <3>3 DEF Activate
  <2>8. CASE Tick
    BY <2>8 DEF Tick
  <2>9. CASE UNCHANGED vars
    BY <2>9 DEF vars
  <2> QED BY <2>1, <2>2, <2>3, <2>4, <2>5, <2>6, <2>7, <2>8, <2>9
          DEF Next, KeyStep, VerifyStep, ManagerStep
<1> QED BY <1>1, <1>2, PTL DEF Spec

-----------------------------------------------------------------------------
\* Decisions are never withdrawn, so what is staged and what was activated stay verified.
LEMMA VerifiedStep ==
  /\ PendingIsVerified /\ token \subseteq issued /\ ActivatedAsVerified /\ [Next]_vars
  => PendingIsVerified' /\ (token \subseteq issued)' /\ ActivatedAsVerified'
<1> SUFFICES ASSUME PendingIsVerified, token \subseteq issued, ActivatedAsVerified, [Next]_vars
             PROVE  PendingIsVerified' /\ (token \subseteq issued)' /\ ActivatedAsVerified'
  OBVIOUS
<1> USE DEF PendingIsVerified, ActivatedAsVerified
<1>1. ASSUME NEW p \in Packages, NEW c \in Context, Verify(p, c)
      PROVE  PendingIsVerified' /\ (token \subseteq issued)' /\ ActivatedAsVerified'
  BY <1>1 DEF Verify
<1>2. CASE InstallRejected \/ StartRecovery \/ ActivateRejected
  BY <1>2 DEF InstallRejected, StartRecovery, ActivateRejected
<1>3. ASSUME NEW p \in Packages, NEW t \in issued, NEW interrupt \in BOOLEAN,
             Install(p, t, interrupt)
      PROVE  PendingIsVerified' /\ (token \subseteq issued)' /\ ActivatedAsVerified'
  BY <1>3 DEF Install
<1>4. ASSUME NEW p \in Packages, NEW t \in token, NEW c \in Context,
             ActivateUnhealthy(p, t, c)
      PROVE  PendingIsVerified' /\ (token \subseteq issued)' /\ ActivatedAsVerified'
  BY <1>4 DEF ActivateUnhealthy
<1>5. ASSUME NEW p \in Packages, NEW t \in token, NEW c \in Context, Activate(p, t, c)
      PROVE  PendingIsVerified' /\ (token \subseteq issued)' /\ ActivatedAsVerified'
  <2>1. TokenOf(p) \in issued /\ p.image = p.manifest.image
    BY <1>5 DEF Activate, AcceptsForActivation, Accepts
  <2>2. \A a \in active' : a.package = p
    BY <1>5 DEF Activate
  <2>3. state' # "PENDING_HEALTH" /\ UNCHANGED <<issued, token>>
    BY <1>5 DEF Activate
  <2> QED BY <2>1, <2>2, <2>3
<1>6. CASE UNCHANGED <<issued, state, staged, token, active>>
  BY <1>6
<1> QED BY <1>1, <1>2, <1>3, <1>4, <1>5, <1>6
        DEF Next, KeyStep, VerifyStep, ManagerStep, Revoke, Rotate, Tick, vars

\* Whatever waits for activation, and whatever was activated, was verified before.
THEOREM StagedAndActiveVerified == Spec => [](PendingIsVerified /\ ActivatedAsVerified)
<1>1. Init => PendingIsVerified /\ token \subseteq issued /\ ActivatedAsVerified
  BY DEF Init, PendingIsVerified, ActivatedAsVerified
<1> QED BY <1>1, VerifiedStep, PTL DEF Spec

\* A caller that always takes the anti-rollback value from the manager is told the
\* highest version ever activated, so nothing older is activated without recovery.
LEMMA RollbackStep ==
  ASSUME CallerReadsManager
  PROVE  /\ TypeOK /\ accepted = highest /\ NoUnauthorizedRollback /\ [Next]_vars
         => accepted' = highest' /\ NoUnauthorizedRollback'
<1> SUFFICES ASSUME TypeOK, accepted = highest, NoUnauthorizedRollback, [Next]_vars
             PROVE  accepted' = highest' /\ NoUnauthorizedRollback'
  OBVIOUS
<1>1. ASSUME NEW p \in Packages, NEW t \in token, NEW c \in Context, Activate(p, t, c)
      PROVE  accepted' = highest' /\ NoUnauthorizedRollback'
  <2>1. c.floor = highest
    BY <1>1 DEF Activate, MayBuild
  <2>2. p.manifest.version < highest => c.recovery
    BY <1>1, <2>1 DEF Activate, AcceptsForActivation, Accepts
  <2>3. \A a \in active' : a.package = p /\ a.above = highest /\ a.recovery = c.recovery
    BY <1>1 DEF Activate
  <2>4. accepted' = highest'
    BY <1>1 DEF Activate, AcceptedAfter
  <2> QED BY <2>2, <2>3, <2>4 DEF NoUnauthorizedRollback
<1>2. CASE UNCHANGED <<accepted, active, highest>>
  BY <1>2 DEF NoUnauthorizedRollback
<1> QED BY <1>1, <1>2
        DEF Next, KeyStep, VerifyStep, ManagerStep, Revoke, Rotate, Verify, InstallRejected,
            StartRecovery, ActivateRejected, Install, ActivateUnhealthy, Tick, vars

\* No rollback without authorization, when callers read the manager's value for each
\* context; SecureUpdateStaleContext.cfg shows that the condition is needed.
THEOREM NoRollback ==
  ASSUME CallerReadsManager
  PROVE  Spec => []NoUnauthorizedRollback
<1>1. Init => accepted = highest /\ NoUnauthorizedRollback
  BY DEF Init, NoUnauthorizedRollback
<1>2. TypeOK /\ accepted = highest /\ NoUnauthorizedRollback /\ [Next]_vars
      => (accepted = highest)' /\ NoUnauthorizedRollback'
  BY RollbackStep
<1> QED BY <1>1, <1>2, UpdateTypeCorrect, PTL DEF Spec

-----------------------------------------------------------------------------
\* Whatever becomes active does so while its signer's key is current: later than its
\* verification, a revocation or the end of the key's interval still stops it.
THEOREM ActivationIsTrusted == Spec => NoUntrustedActivation
<1>1. [Next]_vars => [state # "ACTIVE" /\ state' = "ACTIVE" =>
                        \A a \in active' : HasCurrentKey(a.package.manifest.signer)]_vars
  <2> SUFFICES ASSUME [Next]_vars, state # "ACTIVE", state' = "ACTIVE"
               PROVE  \A a \in active' : HasCurrentKey(a.package.manifest.signer)
    OBVIOUS
  <2>1. PICK p \in Packages, t \in token, c \in Context : Activate(p, t, c)
    BY DEF Next, KeyStep, VerifyStep, ManagerStep, Revoke, Rotate, Verify, InstallRejected,
           StartRecovery, ActivateRejected, Install, ActivateUnhealthy, Tick, vars
  <2>2. HasCurrentKey(p.manifest.signer)
    BY <2>1 DEF Activate, AcceptsForActivation, Accepts
  <2>3. \A a \in active' : a.package = p
    BY <2>1 DEF Activate
  <2> QED BY <2>2, <2>3
<1> QED BY <1>1, PTL DEF Spec, NoUntrustedActivation

\* No rotation, and nothing else, makes a revoked signer trusted again.
THEOREM RevocationIsFinal == Spec => RevokedStaysRevoked
<1>1. TypeOK /\ [Next]_vars => [\A s \in Signers : RevokedSigner(s) => keys'[s].revoked]_vars
  <2> SUFFICES ASSUME TypeOK, [Next]_vars, NEW s \in Signers, RevokedSigner(s)
               PROVE  keys'[s].revoked
    OBVIOUS
  <2>1. keys \in [Signers -> KeyEntry] /\ keys[s].known /\ keys[s].revoked
    BY DEF TypeOK, RevokedSigner
  <2>2. ASSUME NEW r \in Signers, Revoke(r) PROVE keys'[s].revoked
    BY <2>1, <2>2 DEF Revoke, KeyEntry
  <2>3. ASSUME NEW r \in Signers, NEW k \in NewKey, Rotate(r, k) PROVE keys'[s].revoked
    <3>1. r # s
      BY <2>1, <2>3 DEF Rotate, KnownSigner
    <3> QED BY <2>1, <2>3, <3>1 DEF Rotate
  <2>4. CASE UNCHANGED keys
    BY <2>1, <2>4
  <2> QED BY <2>2, <2>3, <2>4
          DEF Next, KeyStep, VerifyStep, ManagerStep, Verify, InstallRejected,
              StartRecovery, ActivateRejected, Install, ActivateUnhealthy, Activate, Tick, vars
<1> QED BY <1>1, UpdateTypeCorrect, PTL DEF Spec, RevokedStaysRevoked
=============================================================================
