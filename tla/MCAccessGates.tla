---------------------------- MODULE MCAccessGates ----------------------------
(***************************************************************************)
(* The three gates for TLC: commands, Modbus requests and configurations.  *)
(* They share no state, and every property is about one of them: they are  *)
(* explored side by side, one moving while the others are in their initial *)
(* states, which is all that each of them can be seen to do.               *)
(***************************************************************************)
EXTENDS MCCommandGate, NetworkAccess, ConfigurationAudit

MCRolePolicies ==
  [role \in {"monitor", "operator"} |->
     IF role = "monitor" THEN [functions |-> {ReadFunction}, zones |-> {"MONITORING"}]
     ELSE [functions |-> {ReadFunction, "WRITE_SINGLE_REGISTER"}, zones |-> {"CONTROL"}]]

Session(client, role, zone) ==
  [client |-> client, role |-> role, zone |-> zone, authenticated |-> TRUE, revoked |-> FALSE]

\* One client of each role, and the operator's sessions that are refused for each reason.
MCSessions ==
  {Session("monitor-1", "monitor", "MONITORING"), Session("operator-1", "operator", "CONTROL"),
   Session("operator-1", "operator", "UNTRUSTED"), Session("operator-1", "guest", "CONTROL"),
   [Session("operator-1", "operator", "CONTROL") EXCEPT !.revoked = TRUE],
   [Session("operator-1", "operator", "CONTROL") EXCEPT !.authenticated = FALSE]}

\* At the edges of the ranges, over their ends, and across two ranges that touch.
MCReadable == {<<0, 1>>, <<2, 3>>}
MCWritable == {<<2, 2>>}
MCModbusRequests ==
  {[function |-> ReadFunction, start |-> a, quantity |-> 2] : a \in {0, 1, 3}}
  \cup {[function |-> "WRITE_SINGLE_REGISTER", start |-> a, quantity |-> 1] : a \in {2, 3}}

Configuration(version, values, hash) == [version |-> version, values |-> values, hash |-> hash]

\* Two approved versions and one that does not fit, each genuine; a copy of the second
\* with changed values, with its old hash and with a new one; and a version not approved.
MCHashes == [v \in 1..4 |-> <<v, IF v = 4 THEN "other cells" ELSE "approved">>]
MCCompatible == {"approved", "changed"}
MCConfigurations ==
  {Configuration(v, MCHashes[v][2], MCHashes[v]) : v \in 1..4}
  \cup {Configuration(2, "changed", MCHashes[2]), Configuration(2, "changed", <<2, "changed">>),
        Configuration(5, "approved", <<5, "approved">>)}

GatesInit == Init /\ NetworkInit /\ ConfigurationInit

\* The bound on the audit is the model's, not the program's.
AuditFull == Len(auditEvents) = MaxAudited /\ UNCHANGED <<vars, networkVars, auditEvents>>

GatesNext ==
  \/ NetworkInit /\ ConfigurationInit /\ Next /\ UNCHANGED <<networkVars, auditEvents>>
  \/ Init /\ ConfigurationInit /\ NetworkNext /\ UNCHANGED <<vars, auditEvents>>
  \/ Init /\ NetworkInit /\ ConfigurationNext /\ UNCHANGED <<vars, networkVars>>
  \/ AuditFull

GatesSpec == GatesInit /\ [][GatesNext]_<<vars, networkVars, auditEvents>>
=============================================================================
