------------------------ MODULE MCCatalogActivation ------------------------
(***************************************************************************)
(* Small instances of CatalogActivation for TLC.                            *)
(***************************************************************************)
EXTENDS CatalogActivation

CONSTANT d1

\* A CR without a retry annotation that follows the release images, or the
\* ImageStream of the catalog image.
FollowsRelease == {[sel |-> [t \in Targets |-> ""], retry |-> 0]}
FollowsStream ==
    {[sel |-> [t \in Targets |-> IF t = "catalog" THEN "stable" ELSE ""],
      retry |-> 0]}

\* Both selections stay with the release image; only the annotation changes.
ReleaseSelections == [t \in Targets |-> {""}]

\* The catalog selection moves between the release image and a pinned digest;
\* the benchmark selection stays with the release image.
PinSelections ==
    [t \in Targets |-> IF t = "catalog" THEN {"", d1} ELSE {""}]

\* The catalog selection always follows its ImageStream.
StableSelections ==
    [t \in Targets |-> IF t = "catalog" THEN {"stable"} ELSE {""}]
=============================================================================
