---------------------------- MODULE NetworkAccess ----------------------------
(***************************************************************************)
(* NetworkValidator: which Modbus requests of which sessions are allowed,  *)
(* and when the denied requests of a client are too many. The only state   *)
(* it decides by is the list of denial times of each client. A request     *)
(* carries its own stamp, and requests arrive in any order of their        *)
(* stamps: delayed, repeated, or from a clock that is ahead. The order of  *)
(* the list never matters: an entry of it is the number of the denial it   *)
(* is of, and its time the stamp that denial carried.                      *)
(*                                                                         *)
(* The audit lines and the values written are left out. Requests that      *)
(* their class refuses to build (no register, a negative stamp) do not     *)
(* arrive.                                                                 *)
(***************************************************************************)
EXTENDS Integers, Sequences, FiniteSets

CONSTANTS
  Clients,
  RolePolicies,             \* role_policies: role -> allowed functions and zones
  ReadableRanges, WritableRanges,   \* sets of <<first, last>>
  DeniedLimit, DeniedWindow,
  Sessions, ModbusRequests, \* what arrives
  LastRequestTime, MaxDenials       \* model bounds: latest stamp, denials of each client

ReadFunction   == "READ_HOLDING_REGISTERS"
WriteFunctions == {"WRITE_SINGLE_REGISTER", "WRITE_MULTIPLE_REGISTERS"}
ModbusFunction == WriteFunctions \cup {ReadFunction}
NetworkZone    == {"MONITORING", "CONTROL", "SERVICE", "UNTRUSTED"}

ModbusRequest == [function : ModbusFunction, start : Nat, quantity : Nat \ {0}]

ASSUME NetworkAssumption ==
  /\ \A role \in DOMAIN RolePolicies :
       /\ RolePolicies[role].functions \subseteq ModbusFunction
       /\ RolePolicies[role].zones \subseteq NetworkZone
  /\ ReadableRanges \subseteq Nat \X Nat /\ WritableRanges \subseteq Nat \X Nat
  /\ DeniedLimit \in Nat \ {0} /\ DeniedWindow \in Nat \ {0}
  /\ \A s \in Sessions : s.client \in Clients
  /\ ModbusRequests \subseteq ModbusRequest
  /\ LastRequestTime \in Nat /\ MaxDenials \in Nat

RequestTimes == 0..LastRequestTime

VARIABLES
  deniedTimes,    \* _denied_times_by_client
  limited,        \* rate_limited and alert of the last denial of each client
  \* history, which the code does not keep
  denials,        \* the stamps of all denials of each client, in order of arrival
  granted         \* the registers of allowed requests, with the function used on them

networkVars == <<deniedTimes, limited, denials, granted>>

NetworkTypeOK ==
  /\ denials \in [Clients -> Seq(Nat)]
  /\ deniedTimes \in [Clients -> SUBSET Nat]
  /\ \A c \in Clients : deniedTimes[c] \subseteq DOMAIN denials[c]
  /\ limited \in [Clients -> BOOLEAN]
  /\ granted \subseteq ModbusFunction \X Nat

SelectedRanges(f) == IF f \in WriteFunctions THEN WritableRanges ELSE ReadableRanges

\* mutant: one register more than the range
RangePastTheEnd(r) ==
  \E range \in SelectedRanges(r.function) :
    range[1] <= r.start /\ r.start + r.quantity - 1 <= range[2] + 1

\* All registers of the request lie in one of the ranges of its kind.
RangeIsAllowed(r) ==
  \E range \in SelectedRanges(r.function) :
    range[1] <= r.start /\ r.start + r.quantity - 1 <= range[2]

Allows(s, r) ==
  /\ s.authenticated /\ ~s.revoked
  /\ s.role \in DOMAIN RolePolicies
  /\ s.zone \in RolePolicies[s.role].zones
  /\ r.function \in RolePolicies[s.role].functions
  /\ RangeIsAllowed(r)

AllowRequest(s, r) ==
  /\ Allows(s, r)
  /\ granted' = granted \cup {<<r.function, a>> : a \in r.start..(r.start + r.quantity - 1)}
  /\ UNCHANGED <<deniedTimes, limited, denials>>

\* mutant: a time exactly one window old is forgotten
RecentWithoutEdge(c, t) == {i \in deniedTimes[c] : denials[c][i] > t - DeniedWindow}

\* The entries in the window of t, in whatever order they came.
Recent(c, t) == {i \in deniedTimes[c] : denials[c][i] >= t - DeniedWindow}

\* A denial is counted whatever its stamp; the times before its window are forgotten.
DenyRequest(s, r, t) ==
  LET c      == s.client
      recent == Recent(c, t) \cup {Len(denials[c]) + 1}
  IN  /\ ~Allows(s, r)
      /\ Len(denials[c]) < MaxDenials
      /\ deniedTimes' = [deniedTimes EXCEPT ![c] = recent]
      /\ limited' = [limited EXCEPT ![c] = Cardinality(recent) >= DeniedLimit]
      /\ denials' = [denials EXCEPT ![c] = Append(@, t)]
      /\ UNCHANGED granted

NetworkInit ==
  /\ deniedTimes = [c \in Clients |-> {}] /\ denials = [c \in Clients |-> <<>>]
  /\ limited = [c \in Clients |-> FALSE] /\ granted = {}

NetworkNext ==
  \E s \in Sessions, r \in ModbusRequests :
    AllowRequest(s, r) \/ \E t \in RequestTimes : DenyRequest(s, r, t)

NetworkSpec == NetworkInit /\ [][NetworkNext]_networkVars

(***************************************************************************)
(* Properties                                                              *)
(***************************************************************************)
\* The denials of a client that are stamped at t or later.
DeniedSince(c, t) == {i \in DOMAIN denials[c] : denials[c][i] >= t}

\* Out of order too, a client is limited only for that many denials in the window of its
\* last one, and always for that many in the window of the latest stamp it ever carried:
\* for a client whose requests arrive in order the two are the same.
DenialsAreCounted ==
  \A c \in Clients : denials[c] # <<>> =>
    LET last == denials[c][Len(denials[c])]
    IN  /\ limited[c] => Cardinality(DeniedSince(c, last - DeniedWindow)) >= DeniedLimit
        /\ \A i \in DeniedSince(c, last) :
             /\ \A j \in DOMAIN denials[c] : denials[c][j] <= denials[c][i]
             /\ Cardinality(DeniedSince(c, denials[c][i] - DeniedWindow)) >= DeniedLimit
             => limited[c]

\* No register outside the ranges of its kind is ever read or written, at the edge of a
\* range or across two of them (BMS-SEC-OT-001).
AccessStaysInRange ==
  \A g \in granted : \E range \in SelectedRanges(g[1]) : range[1] <= g[2] /\ g[2] <= range[2]
=============================================================================
