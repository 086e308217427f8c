--------------------------- MODULE MCSecureUpdate ---------------------------
(***************************************************************************)
(* Instances of SecureUpdate for TLC.                                      *)
(***************************************************************************)
EXTENDS SecureUpdate

\* An old release and a new one, by two signers; the old one expires.
OldManifest == [parses |-> TRUE, image |-> "old", target |-> "BMS-A",
                profiles |-> {"PACK-192S"}, version |-> 1, signer |-> "primary",
                issued |-> 0, expires |-> 1]
NewManifest == [parses |-> TRUE, image |-> "new", target |-> "BMS-A",
                profiles |-> {"PACK-192S"}, version |-> 2, signer |-> "second",
                issued |-> 0, expires |-> 2]
SignedPackage(i, m) ==
  [image |-> i, manifest |-> m, signature |-> [by |-> m.signer, over |-> m]]

\* Both releases, and the new one's manifest over the old image.
MCPackages == {SignedPackage("old", OldManifest), SignedPackage("new", NewManifest),
               SignedPackage("old", NewManifest)}

\* Overlapping and disjoint with the clock's range 0..2.
MCIntervals == {<<0, 1>>, <<1, 2>>}
=============================================================================
