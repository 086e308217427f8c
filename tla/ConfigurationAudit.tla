------------------------- MODULE ConfigurationAudit -------------------------
(***************************************************************************)
(* ConfigurationValidator: a configuration is applied if it is the one     *)
(* approved for its version and newer than the previous one, and each      *)
(* application is audited with both. The previous configuration is what    *)
(* the caller passes: the one it read before others upgraded, or any other *)
(* it has. Nothing here keeps the configuration in use.                    *)
(*                                                                         *)
(* A hash is the version and the values it was taken of (SHA-256 is        *)
(* collision free); which values fit the hardware is a constant. A call    *)
(* without an actor or with a negative stamp fails and changes nothing.    *)
(***************************************************************************)
EXTENDS Integers, Sequences

CONSTANTS
  Configurations,     \* in circulation, each with version, values and the hash it states
  ApprovedHashes,     \* approved_hashes_by_version: version -> hash
  CompatibleValues,   \* hardware profile, cell count, scale, capacity and thresholds fit
  MaxAudited          \* model bound: configurations applied

ASSUME ConfigurationAssumption ==
  /\ \A c \in Configurations :
       /\ c.version \in Nat \ {0}
       /\ c = [version |-> c.version, values |-> c.values, hash |-> c.hash]
  /\ MaxAudited \in Nat

VARIABLE auditEvents    \* audit_events: the previous and the new configuration of each

ComputedHash(c) == <<c.version, c.values>>

ValidConfiguration(c) ==
  /\ c.hash = ComputedHash(c)
  /\ c.version \in DOMAIN ApprovedHashes /\ ApprovedHashes[c.version] = c.hash
  /\ c.values \in CompatibleValues

\* mutant: a configuration of the same version is an upgrade
UpgradesOrRepeats(previous, proposed) == proposed.version >= previous.version
Upgrades(previous, proposed) == proposed.version > previous.version

ApplyAuthorizedUpgrade(previous, proposed) ==
  /\ Len(auditEvents) < MaxAudited
  /\ Upgrades(previous, proposed) /\ ValidConfiguration(proposed)
  /\ auditEvents' = Append(auditEvents, [previous |-> previous, new |-> proposed])

ConfigurationInit == auditEvents = <<>>
ConfigurationNext ==
  \E previous, proposed \in Configurations : ApplyAuthorizedUpgrade(previous, proposed)
ConfigurationSpec == ConfigurationInit /\ [][ConfigurationNext]_auditEvents

(***************************************************************************)
(* Properties                                                              *)
(***************************************************************************)
\* Event k begins where the one before it ended.
Linked(k) == auditEvents[k].previous = auditEvents[k - 1].new

\* A version that comes back, or an older one after a newer, however many upgrades lie
\* between them, leaves a broken link between the two in the audit trail (BMS-SEC-CFG-002).
RollbackBreaksTheChain ==
  \A i, j \in DOMAIN auditEvents :
    i < j /\ auditEvents[j].new.version <= auditEvents[i].new.version
      => \E k \in (i + 1)..j : ~Linked(k)
=============================================================================
