----------------------- MODULE DiagnosticSession_proofs -----------------------
(***************************************************************************)
(* DiagnosticSession: its type invariant, its inductive invariant, and the *)
(* properties that follow, for every limit, lockout duration and time.     *)
(***************************************************************************)
EXTENDS DiagnosticSession, TLAPS

USE DiagnosticAssumption DEF Stamps

\* What the provers need to know of the programming procedure as a sequence.
LEMMA ProcedureFacts ==
  /\ Procedure \in Seq(Services) /\ Len(Procedure) = 5 /\ DOMAIN Procedure = 1..5
  /\ Procedure[1] = "REQUEST_DOWNLOAD" /\ Procedure[2] = "TRANSFER_DATA"
  /\ Procedure[3] = "TRANSFER_EXIT" /\ Procedure[4] = "VERIFY_IMAGE"
  /\ Procedure[5] = "ECU_RESET"
BY DEF Procedure, Services

\* Each variable keeps its type: in particular the step never leaves the procedure, and a
\* lockout never ends before time 0.
THEOREM TypeCorrect == Spec => []TypeOK
<1>1. Init => TypeOK
  <2> SUFFICES ASSUME Init PROVE TypeOK
    OBVIOUS
  <2>1. guesses \in Seq(Nat) /\ trail \in Seq(Services)
    BY DEF Init
  <2>2. last \in SUBSET Accepted
    BY DEF Init
  <2>3. session \in Sessions /\ attempts \in Nat /\ lockoutUntil \in Nat /\ step \in 0..5
    BY DEF Init, Sessions
  <2>4. unlocked \in BOOLEAN /\ transferActive \in BOOLEAN /\ keyed \in BOOLEAN
    BY Zenon DEF Init
  <2> QED BY <2>1, <2>2, <2>3, <2>4, Zenon DEF TypeOK
<1>2. TypeOK /\ [Next]_vars => TypeOK'
  <2> SUFFICES ASSUME TypeOK, [Next]_vars PROVE TypeOK'
    OBVIOUS
  <2> USE DEF TypeOK
  <2>1. ASSUME NEW t \in Stamps, NEW target \in Sessions, SessionControl(target, t) PROVE TypeOK'
    <3>1. trail' \in Seq(Services)
      BY <2>1 DEF SessionControl
    <3>2. session' \in Sessions /\ unlocked' \in BOOLEAN /\ keyed' \in BOOLEAN
      BY <2>1, Zenon DEF SessionControl
    <3>3. step' \in 0..5
      BY <2>1 DEF SessionControl
    <3>4. UNCHANGED <<attempts, lockoutUntil, transferActive, guesses, last>>
      BY <2>1 DEF SessionControl
    <3> QED BY <3>1, <3>2, <3>3, <3>4
  <2>2. ASSUME NEW t \in Stamps, ValidKey(t) PROVE TypeOK'
    BY <2>2 DEF ValidKey
  <2>3. ASSUME NEW t \in Stamps, WrongKey(t) PROVE TypeOK'
    BY <2>3 DEF WrongKey
  <2>4. ASSUME NEW t \in Stamps, NEW r \in Roles, WriteConfiguration(r, t) PROVE TypeOK'
    BY <2>4 DEF WriteConfiguration, Accept, Accepted, Services
  <2>5. ASSUME NEW t \in Stamps, NEW r \in Roles, ClearFault(r, t) PROVE TypeOK'
    BY <2>5 DEF ClearFault, Accept, Accepted, Services
  <2>6. ASSUME NEW t \in Stamps, NEW r \in Roles, NEW s \in Services, Program(s, r, t) PROVE TypeOK'
    <3>1. step' \in 0..5 /\ transferActive' \in BOOLEAN
      BY <2>6, ProcedureFacts DEF Program
    <3>2. trail' \in Seq(Services)
      BY <2>6 DEF Program
    <3>3. last' \in SUBSET Accepted
      BY <2>6 DEF Program, Accept, Accepted
    <3> QED BY <2>6, <3>1, <3>2, <3>3 DEF Program
  <2>7. CASE UNCHANGED vars
    BY <2>7 DEF vars
  <2> QED BY <2>1, <2>2, <2>3, <2>4, <2>5, <2>6, <2>7 DEF Next
<1> QED BY <1>1, <1>2, PTL DEF Spec

-----------------------------------------------------------------------------
(***************************************************************************)
(* The inductive invariant, part by part                                   *)
(***************************************************************************)
\* A wrong key is the only step that adds a guess, and it comes after the lockout.
LEMMA LockoutStep == TypeOK /\ LockoutInv /\ [Next]_vars => LockoutInv'
<1> SUFFICES ASSUME TypeOK, LockoutInv, [Next]_vars PROVE LockoutInv'
  OBVIOUS
<1> USE DEF TypeOK, LockoutInv, GuessesAreRateLimited
<1>1. ASSUME NEW t \in Stamps, WrongKey(t) PROVE LockoutInv'
  <2>1. /\ guesses' \in Seq(Nat) /\ Len(guesses') = Len(guesses) + 1
        /\ guesses'[Len(guesses) + 1] = t
        /\ \A i \in DOMAIN guesses : guesses'[i] = guesses[i]
        /\ DOMAIN guesses = 1..Len(guesses) /\ DOMAIN guesses' = 1..(Len(guesses) + 1)
    BY <1>1 DEF WrongKey
  <2>2. attempts' = Len(guesses') /\ attempts' = attempts + 1
    BY <1>1, <2>1 DEF WrongKey
  <2>3. attempts' >= MaxFailedAttempts =>
          lockoutUntil' = guesses'[attempts'] + LockoutDuration
    BY <1>1, <2>1, <2>2 DEF WrongKey
  <2>4. ASSUME NEW j \in DOMAIN guesses', j > MaxFailedAttempts
        PROVE  guesses'[j] >= guesses'[j - 1] + LockoutDuration
    <3>1. CASE j \in DOMAIN guesses
      <4>1. j \in 1..Len(guesses) /\ j > 1
        BY <2>1, <2>4, <3>1
      <4>2. j - 1 \in DOMAIN guesses
        <5>1. Len(guesses) \in Nat
          OBVIOUS
        <5>2. j - 1 \in 1..Len(guesses)
          BY <4>1, <5>1
        <5> QED BY <2>1, <5>2
      <4> QED BY <2>1, <2>4, <3>1, <4>2
    <3>2. CASE j = Len(guesses) + 1
      <4>1. attempts >= MaxFailedAttempts /\ attempts = j - 1 /\ attempts \in DOMAIN guesses
        BY <2>1, <2>4, <3>2
      <4>2. t >= guesses[attempts] + LockoutDuration
        BY <1>1, <4>1 DEF WrongKey, Served
      <4> QED BY <2>1, <3>2, <4>1, <4>2
    <3> QED BY <2>1, <2>4, <3>1, <3>2
  <2> QED BY <2>2, <2>3, <2>4
<1>2. ASSUME NEW t \in Stamps, ValidKey(t) PROVE LockoutInv'
  <2>1. guesses' = <<>> /\ attempts' = 0
    BY <1>2 DEF ValidKey
  <2> QED BY <2>1
<1>3. CASE UNCHANGED <<attempts, lockoutUntil, guesses>>
  BY <1>3
<1> QED BY <1>1, <1>2, <1>3
        DEF Next, SessionControl, WriteConfiguration, ClearFault, Program, vars

\* A session starts the procedure over, and only its next service moves it on.
LEMMA ProcedureStep == TypeOK /\ ProcedureInv /\ [Next]_vars => ProcedureInv'
<1> SUFFICES ASSUME TypeOK, ProcedureInv, [Next]_vars PROVE ProcedureInv'
  OBVIOUS
<1> USE DEF TypeOK, ProcedureInv
<1>1. ASSUME NEW t \in Stamps, NEW target \in Sessions, SessionControl(target, t) PROVE ProcedureInv'
  <2>1. trail' = <<>> /\ step' = 0
    BY <1>1 DEF SessionControl
  <2> QED BY <2>1
<1>2. ASSUME NEW t \in Stamps, NEW r \in Roles, NEW s \in Services, Program(s, r, t) PROVE ProcedureInv'
  <2>1. /\ Len(trail') = step + 1 /\ step' = step + 1 /\ step \in 0..4
        /\ DOMAIN trail = 1..step /\ DOMAIN trail' = 1..(step + 1)
        /\ \A i \in DOMAIN trail : trail'[i] = trail[i]
        /\ trail'[step + 1] = s /\ s = Procedure[step + 1]
    BY <1>2, ProcedureFacts DEF Program
  <2>2. step' > 0 => (transferActive' <=> step' \in {1, 2})
    <3>0. transferActive' = (s = "REQUEST_DOWNLOAD" \/ (transferActive /\ s # "TRANSFER_EXIT"))
      BY <1>2, Zenon DEF Program
    <3>1. CASE step = 0
      <4>1. s = "REQUEST_DOWNLOAD"
        BY <2>1, <3>1, ProcedureFacts
      <4>2. transferActive' = TRUE
        BY <3>0, <4>1, Zenon
      <4> QED BY <2>1, <3>1, <4>2
    <3>2. CASE step = 1
      <4>1. s = "TRANSFER_DATA" /\ s # "REQUEST_DOWNLOAD" /\ s # "TRANSFER_EXIT"
        BY <2>1, <3>2, ProcedureFacts
      <4>2. transferActive' = transferActive
        BY <3>0, <4>1, Zenon
      <4> QED BY <2>1, <3>2, <4>2
    <3>3. CASE step = 2
      <4>1. s = "TRANSFER_EXIT" /\ s # "REQUEST_DOWNLOAD"
        BY <2>1, <3>3, ProcedureFacts
      <4>2. transferActive' = FALSE
        BY <3>0, <4>1, Zenon
      <4> QED BY <2>1, <3>3, <4>2
    <3>4. CASE step \in {3, 4}
      <4>1. s # "REQUEST_DOWNLOAD" /\ s # "TRANSFER_EXIT"
        BY <2>1, <3>4, ProcedureFacts
      <4>2. transferActive' = transferActive
        BY <3>0, <4>1, Zenon
      <4> QED BY <2>1, <3>4, <4>2
    <3> QED BY <2>1, <3>1, <3>2, <3>3, <3>4
  <2>3. \A i \in DOMAIN trail' : trail'[i] = Procedure[i]
    BY <2>1
  <2> QED BY <2>1, <2>2, <2>3
<1>3. CASE UNCHANGED <<step, transferActive, trail>>
  BY <1>3
<1> QED BY <1>1, <1>2, <1>3
        DEF Next, ValidKey, WrongKey, WriteConfiguration, ClearFault, vars

\* Unlocked means unlocked in this session, and so a valid key in this session.
LEMMA AuthorizedStep ==
  /\ TypeOK /\ (unlocked => keyed) /\ ProtectedIsAuthorized /\ [Next]_vars
  => (unlocked => keyed)' /\ ProtectedIsAuthorized'
<1> SUFFICES ASSUME TypeOK, unlocked => keyed, ProtectedIsAuthorized, [Next]_vars
             PROVE  (unlocked => keyed)' /\ ProtectedIsAuthorized'
  OBVIOUS
<1> USE DEF TypeOK, ProtectedIsAuthorized
<1>1. ASSUME NEW t \in Stamps, NEW target \in Sessions, SessionControl(target, t)
      PROVE  (unlocked => keyed)' /\ ProtectedIsAuthorized'
  BY <1>1 DEF SessionControl
<1>2. ASSUME NEW t \in Stamps, ValidKey(t)
      PROVE  (unlocked => keyed)' /\ ProtectedIsAuthorized'
  BY <1>2 DEF ValidKey
<1>3. ASSUME NEW t \in Stamps, NEW r \in Roles, WriteConfiguration(r, t)
      PROVE  (unlocked => keyed)' /\ ProtectedIsAuthorized'
  BY <1>3 DEF WriteConfiguration, Accept, Served
<1>4. ASSUME NEW t \in Stamps, NEW r \in Roles, ClearFault(r, t)
      PROVE  (unlocked => keyed)' /\ ProtectedIsAuthorized'
  BY <1>4 DEF ClearFault, Accept, Served
<1>5. ASSUME NEW t \in Stamps, NEW r \in Roles, NEW s \in Services, Program(s, r, t)
      PROVE  (unlocked => keyed)' /\ ProtectedIsAuthorized'
  <2>1. s \notin {"CLEAR_FAULT", "WRITE_CONFIGURATION"}
    BY <1>5, ProcedureFacts DEF Program
  <2> QED BY <1>5, <2>1 DEF Program, Accept, Served
<1>6. CASE UNCHANGED <<unlocked, keyed, last>>
  BY <1>6
<1> QED BY <1>1, <1>2, <1>3, <1>4, <1>5, <1>6 DEF Next, WrongKey, vars

\* The invariant is inductive.
THEOREM DiagnosticInvariant == Spec => [](TypeOK /\ DiagnosticInv)
<1>1. Init => DiagnosticInv
  BY DEF Init, DiagnosticInv, LockoutInv, GuessesAreRateLimited, ProcedureInv, ProtectedIsAuthorized
<1>2. TypeOK /\ DiagnosticInv /\ [Next]_vars => DiagnosticInv'
  BY LockoutStep, ProcedureStep, AuthorizedStep DEF DiagnosticInv
<1> QED BY <1>1, <1>2, TypeCorrect, PTL DEF Spec

-----------------------------------------------------------------------------
\* From the limit on, every wrong key waits out the lockout of the one before it.
THEOREM GuessesRateLimited == Spec => []GuessesAreRateLimited
<1>1. DiagnosticInv => GuessesAreRateLimited
  BY DEF DiagnosticInv, LockoutInv
<1> QED BY <1>1, DiagnosticInvariant, PTL

\* Only a wrong key served after the lockout sets it, and sets it to a later end.
THEOREM LockoutStands == Spec => LockoutNeverShortens
<1>1. TypeOK /\ [Next]_vars => [lockoutUntil' >= lockoutUntil]_vars
  <2> SUFFICES ASSUME TypeOK, [Next]_vars PROVE lockoutUntil' >= lockoutUntil
    OBVIOUS
  <2>1. lockoutUntil \in Nat
    BY DEF TypeOK
  <2>2. ASSUME NEW t \in Stamps, WrongKey(t) PROVE lockoutUntil' >= lockoutUntil
    BY <2>1, <2>2 DEF WrongKey, Served
  <2>3. CASE UNCHANGED lockoutUntil
    BY <2>1, <2>3
  <2> QED BY <2>2, <2>3
          DEF Next, SessionControl, ValidKey, WriteConfiguration, ClearFault, Program, vars
<1> QED BY <1>1, TypeCorrect, PTL DEF Spec, LockoutNeverShortens

\* No protected service without its role, its session and a key given in that session.
THEOREM ProtectedAuthorized == Spec => []ProtectedIsAuthorized
<1>1. DiagnosticInv => ProtectedIsAuthorized
  BY DEF DiagnosticInv
<1> QED BY <1>1, DiagnosticInvariant, PTL

\* What a session programmed is a beginning of the procedure, transfer bracketed.
THEOREM ProcedureOrdered == Spec => []ProcedureIsOrdered
<1>1. TypeOK /\ DiagnosticInv => ProcedureIsOrdered
  <2> SUFFICES ASSUME TypeOK, ProcedureInv PROVE ProcedureIsOrdered
    BY DEF DiagnosticInv
  <2>1. /\ Len(trail) = step /\ step \in 0..5 /\ DOMAIN trail = 1..step
        /\ trail \in Seq(Services) /\ Len(trail) <= Len(Procedure)
    BY ProcedureFacts DEF TypeOK, ProcedureInv
  <2>2. SubSeq(Procedure, 1, step) \in Seq(Services) /\ Len(SubSeq(Procedure, 1, step)) = step
    BY <2>1, ProcedureFacts
  <2>3. \A i \in 1..step : SubSeq(Procedure, 1, step)[i] = Procedure[i]
    BY <2>1, ProcedureFacts
  <2>4. trail = SubSeq(Procedure, 1, Len(trail))
    BY <2>1, <2>2, <2>3 DEF ProcedureInv
  <2> QED BY <2>1, <2>4 DEF ProcedureIsOrdered, ProcedureInv
<1> QED BY <1>1, DiagnosticInvariant, PTL
=============================================================================
