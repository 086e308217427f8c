-------------------------- MODULE DiagnosticSession --------------------------
(***************************************************************************)
(* DiagnosticValidator over one DiagnosticState: sessions, security        *)
(* access with its lockout, and the programming procedure, for any number  *)
(* of clients. The validator reads no clock: its only time is the stamp    *)
(* each request carries, and requests may arrive out of their order.       *)
(*                                                                         *)
(* A request that is refused changes nothing and is no action, except the  *)
(* wrong key. READ_DATA changes nothing either. Response codes and wording *)
(* are left out.                                                           *)
(***************************************************************************)
EXTENDS Naturals, Sequences

CONSTANTS
  MaxFailedAttempts, LockoutDuration,
  MaxTime                  \* latest stamp of a wrong key (model bound)

ASSUME DiagnosticAssumption ==
  /\ MaxFailedAttempts \in Nat \ {0} /\ LockoutDuration \in Nat
  /\ MaxTime \in Nat

Sessions  == {"DEFAULT", "EXTENDED", "PROGRAMMING", "SUPPLIER"}
Procedure == <<"REQUEST_DOWNLOAD", "TRANSFER_DATA", "TRANSFER_EXIT", "VERIFY_IMAGE",
               "ECU_RESET">>
Services  == {"WRITE_CONFIGURATION", "CLEAR_FAULT", "REQUEST_DOWNLOAD", "TRANSFER_DATA",
              "TRANSFER_EXIT", "VERIFY_IMAGE", "ECU_RESET"}
Roles     == {"service", "supplier", "monitor"}

\* A stamp after every lockout exists, so that a lockout can always be waited out.
Stamps == 0..(MaxTime + LockoutDuration)

VARIABLES
  session, unlocked,     \* security_unlocked
  attempts,              \* failed_unlock_attempts
  lockoutUntil,          \* lockout_until_s
  step,                  \* programming_step
  transferActive,        \* update_transfer_active
  \* history, which the code does not keep
  keyed,                 \* a valid key was given since the session began
  guesses,               \* stamps of the wrong keys since the last valid one
  trail,                 \* programming services accepted since the session began
  last                   \* the protected service accepted last, and by whom; {} at first

vars == <<session, unlocked, attempts, lockoutUntil, step, transferActive,
          keyed, guesses, trail, last>>

Accepted == [service : Services, role : Roles, session : Sessions, keyed : BOOLEAN,
             at : Nat, lockout : Nat]

TypeOK ==
  /\ session \in Sessions /\ unlocked \in BOOLEAN
  /\ attempts \in Nat /\ lockoutUntil \in Nat
  /\ step \in 0..5 /\ transferActive \in BOOLEAN
  /\ keyed \in BOOLEAN /\ guesses \in Seq(Nat) /\ trail \in Seq(Services)
  /\ last \in SUBSET Accepted

\* mutant: a lockout refuses nothing
ServedAlways(t) == TRUE

\* The client is authenticated and no lockout is on; everything else is refused.
Served(t) == t >= lockoutUntil

\* mutant: a new session starts with a clean count of wrong keys
SessionControlForgets(target, t) ==
  /\ Served(t)
  /\ session' = target /\ unlocked' = FALSE /\ step' = 0 /\ attempts' = 0
  /\ keyed' = FALSE /\ trail' = <<>>
  /\ UNCHANGED <<lockoutUntil, transferActive, guesses, last>>

\* mutant: a new session continues the programming procedure
SessionControlContinues(target, t) ==
  /\ Served(t)
  /\ session' = target /\ unlocked' = FALSE
  /\ keyed' = FALSE /\ trail' = <<>>
  /\ UNCHANGED <<attempts, lockoutUntil, step, transferActive, guesses, last>>

\* mutant: a new session stays unlocked
SessionControlUnlocked(target, t) ==
  /\ Served(t)
  /\ session' = target /\ step' = 0
  /\ keyed' = FALSE /\ trail' = <<>>
  /\ UNCHANGED <<unlocked, attempts, lockoutUntil, transferActive, guesses, last>>

SessionControl(target, t) ==
  /\ Served(t)
  /\ session' = target /\ unlocked' = FALSE /\ step' = 0
  /\ keyed' = FALSE /\ trail' = <<>>
  /\ UNCHANGED <<attempts, lockoutUntil, transferActive, guesses, last>>

ValidKey(t) ==
  /\ Served(t)
  /\ unlocked' = TRUE /\ attempts' = 0
  /\ keyed' = TRUE /\ guesses' = <<>>
  /\ UNCHANGED <<session, lockoutUntil, step, transferActive, trail, last>>

\* The counter stays at its limit after a lockout: the next wrong key locks again. The
\* session stays unlocked if it was.
WrongKey(t) ==
  /\ Served(t) /\ t <= MaxTime
  /\ attempts' = attempts + 1
  /\ lockoutUntil' = IF attempts' >= MaxFailedAttempts
                     THEN t + LockoutDuration ELSE lockoutUntil
  /\ guesses' = Append(guesses, t)
  /\ UNCHANGED <<session, unlocked, step, transferActive, keyed, trail, last>>

Accept(s, r, t) ==
  last' = {[service |-> s, role |-> r, session |-> session, keyed |-> keyed,
            at |-> t, lockout |-> lockoutUntil]}

WriteConfiguration(r, t) ==
  /\ Served(t) /\ unlocked /\ session \in {"EXTENDED", "SUPPLIER"}
  /\ r \in {"service", "supplier"}
  /\ Accept("WRITE_CONFIGURATION", r, t)
  /\ UNCHANGED <<session, unlocked, attempts, lockoutUntil, step, transferActive,
                 keyed, guesses, trail>>

ClearFault(r, t) ==
  /\ Served(t) /\ unlocked /\ r = "service"
  /\ Accept("CLEAR_FAULT", r, t)
  /\ UNCHANGED <<session, unlocked, attempts, lockoutUntil, step, transferActive,
                 keyed, guesses, trail>>

ResetIsBlocked(s) == s = "ECU_RESET" /\ transferActive

\* The service of the current step of the procedure, in an unlocked programming session.
Program(s, r, t) ==
  /\ Served(t) /\ session = "PROGRAMMING" /\ unlocked /\ r \in {"service", "supplier"}
  /\ ~ResetIsBlocked(s)
  /\ step < Len(Procedure) /\ s = Procedure[step + 1]
  /\ transferActive' = (s = "REQUEST_DOWNLOAD" \/ (transferActive /\ s # "TRANSFER_EXIT"))
  /\ step' = step + 1
  /\ trail' = Append(trail, s)
  /\ Accept(s, r, t)
  /\ UNCHANGED <<session, unlocked, attempts, lockoutUntil, keyed, guesses>>

Init ==
  /\ session = "DEFAULT" /\ unlocked = FALSE /\ attempts = 0
  /\ lockoutUntil = 0 /\ step = 0 /\ transferActive = FALSE
  /\ keyed = FALSE /\ guesses = <<>> /\ trail = <<>> /\ last = {}

Next ==
  \E t \in Stamps :
    \/ \E target \in Sessions : SessionControl(target, t)
    \/ ValidKey(t) \/ WrongKey(t)
    \/ \E r \in Roles :
         \/ WriteConfiguration(r, t) \/ ClearFault(r, t)
         \/ \E s \in Services : Program(s, r, t)

Spec == Init /\ [][Next]_vars

(***************************************************************************)
(* Properties                                                              *)
(***************************************************************************)
\* Between two valid keys, and from the limit on, each wrong key is stamped a lockout
\* duration after the one before it, whatever sessions were opened in between and in
\* whatever order the requests arrived (BMS-SEC-DIA-002).
GuessesAreRateLimited ==
  \A j \in DOMAIN guesses :
    j > MaxFailedAttempts => guesses[j] >= guesses[j - 1] + LockoutDuration

\* No request brings the end of a lockout forward, one stamped in the past included.
LockoutNeverShortens == [][lockoutUntil' >= lockoutUntil]_vars

\* A protected service is accepted only of an authorized role, outside every lockout,
\* in a session it is meant for, and after a valid key in that very session.
ProtectedIsAuthorized ==
  \A a \in last :
    /\ a.keyed /\ a.lockout <= a.at
    /\ a.service = "CLEAR_FAULT" => a.role = "service"
    /\ a.service = "WRITE_CONFIGURATION" =>
         a.session \in {"EXTENDED", "SUPPLIER"} /\ a.role \in {"service", "supplier"}
    /\ a.service \notin {"CLEAR_FAULT", "WRITE_CONFIGURATION"} =>
         a.session = "PROGRAMMING" /\ a.role \in {"service", "supplier"}

\* The programming services accepted in a session are the procedure from its start, each
\* once and in order, and a transfer is on exactly between its download and its exit: a
\* reset ends a whole procedure run in one session, never one pieced together from two
\* (BMS-SEC-DIA-003a and 003b).
ProcedureIsOrdered ==
  /\ trail = SubSeq(Procedure, 1, Len(trail))
  /\ Len(trail) > 0 => (transferActive <=> Len(trail) \in {1, 2})

\* A transfer does not outlive the programming session it was started in: an
\* interrupted procedure leaves a defined condition behind (BMS-SEC-DIA-003c).
TransferEndsWithSession == transferActive => session = "PROGRAMMING"

(***************************************************************************)
(* The inductive invariant                                                 *)
(***************************************************************************)
\* The count is the number of wrong keys since the last valid one; from the limit on,
\* each of them set the lockout, and was stamped no earlier than the end of the last one.
LockoutInv ==
  /\ attempts = Len(guesses)
  /\ attempts >= MaxFailedAttempts =>
       lockoutUntil = guesses[attempts] + LockoutDuration
  /\ GuessesAreRateLimited

ProcedureInv ==
  /\ Len(trail) = step
  /\ step > 0 => (transferActive <=> step \in {1, 2})
  /\ \A i \in DOMAIN trail : trail[i] = Procedure[i]

DiagnosticInv == LockoutInv /\ ProcedureInv /\ (unlocked => keyed) /\ ProtectedIsAuthorized
=============================================================================
