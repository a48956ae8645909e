---------------------------- MODULE CatalogImages ----------------------------
(***************************************************************************)
(* Data image selection of a Catalog: how each of the two selections       *)
(* (catalog, benchmark) is resolved to an image from the CR, the managed    *)
(* ImageStream and the images already applied, how the two outcomes are     *)
(* aggregated, and how the status conditions are reduced to readiness.      *)
(*                                                                          *)
(* Everything here is a pure operator: internal/controller/                 *)
(* catalog_data_images.go and catalog_image_status.go read with the         *)
(* messages left out. The state machine is CatalogActivation.               *)
(***************************************************************************)
EXTENDS Naturals

CONSTANTS
    Digests,            \* image digests a selection can pin or a stream import
    IsOpenShift,        \* cluster capability: ImageStreams exist
    StreamFromRelease   \* the managed catalog stream imports the release image

ASSUME DigestsAssumption ==
    Digests \cap {"", "stable", "invalid", "release", "none", "unusable"} = {}
ASSUME OpenShiftAssumption == IsOpenShift \in BOOLEAN
ASSUME StreamFromReleaseAssumption == StreamFromRelease \in BOOLEAN

Targets == {"catalog", "benchmark"}

\* spec.catalogDataImageStream / spec.benchmarkDataImageStream: empty (release
\* image), "stable" (follow the stream), a digest, or text that is neither.
Selection == {"", "stable", "invalid"} \cup Digests

Image == Digests \cup {"release"}

NoImages == [t \in Targets |-> "none"]

\* A metav1.Condition without its message: status, reason, observedGeneration.
\* "None" is a condition that is not in the list yet.
Cond(st, reason, gen) == [st |-> st, reason |-> reason, gen |-> gen]
NoCond == Cond("None", "", 0)
TruthValue == {"True", "False", "Unknown"}
Reason ==
    {"", "ReleaseDefault", "DigestPinned", "ImageStreamResolved",
     "IndependentSelections", "NoSuccessfulImport", "AwaitingSuccessfulImport",
     "InvalidDataImageSelection", "UnsupportedDataImageSelection",
     "ImageStreamUnavailable", "AppliedImageReadFailed", "ImportFailed",
     "InvalidImportedImage", "ImportPending", "ImportSucceeded",
     "NotTrackingImageStream", "UpdatesAllowed", "ImagesUpdating",
     "ResourcesUnavailable", "DeploymentUnavailable", "DeploymentAvailable",
     "CatalogContainmentFailed", "WorkloadStatusUnknown",
     "ActivationStatusUnknown"}
Condition == [st : TruthValue \cup {"None"}, reason : Reason, gen : Nat]

(***************************************************************************)
(* The ImageStream, as OpenShift maintains its stable tag:                  *)
(*   gen      generation of the requested import (spec.tags[].generation)   *)
(*   item     newest import in the tag's history, itemGen its generation    *)
(*   good     newest usable digest in that history                          *)
(*   failed   generation of an ImportSuccess=False condition, 0 for none    *)
(***************************************************************************)
Stream ==
    [gen : Nat, item : Digests \cup {"none", "unusable"}, itemGen : Nat,
     good : Digests \cup {"none"}, failed : Nat]

\* catalogDataImageImportHealth: a failure of the requested or a later
\* generation wins over the successful history; an older history is pending.
ImportHealth(s) ==
    IF s.failed # 0 /\ s.failed >= s.gen
    THEN [st |-> "False", reason |-> "ImportFailed"]
    ELSE IF s.item = "none" \/ s.itemGen < s.gen
    THEN [st |-> "Unknown", reason |-> "ImportPending"]
    ELSE IF s.item = "unusable"
    THEN [st |-> "False", reason |-> "InvalidImportedImage"]
    ELSE [st |-> "True", reason |-> "ImportSucceeded"]

(***************************************************************************)
(* Resolution of one target. st is the status read (conds and act), s the   *)
(* target's stream, applied the image of the Deployment (or the release     *)
(* image), io how the API calls of this pass end: "ok", "streamErr" (the    *)
(* ImageStream cannot be reconciled) or "appliedErr" (the Deployment cannot *)
(* be read).                                                                *)
(***************************************************************************)
IOResult == {"ok", "streamErr", "appliedErr"}

Tracks(sel) == sel = "stable" /\ IsOpenShift

\* Bug: the wait is forgotten one pass after the import became pending.
AwaitingRecoveryByHealth(t, st) == st.conds.health[t].st = "False"

\* A confirmed import failure is only left behind by a later success.
AwaitingRecovery(t, st) ==
    \/ st.conds.health[t].st = "False"
    \/ st.conds.res[t].reason = "AwaitingSuccessfulImport"

\* A newly requested import is pending while its previous digest serves.
ServingPrevious(t, gen, st, s) ==
    /\ ImportHealth(s).st = "Unknown"
    /\ ~AwaitingRecovery(t, st)
    /\ st.conds.res[t].gen = gen
    /\ st.conds.res[t].reason = "ImageStreamResolved"
    /\ s.good # "none"
    /\ st.act.state = "Succeeded"
    /\ st.act.images[t] = s.good

NoEvidence == [st |-> "None", gen |-> 0]

\* Bug: every import is evidence of its own.
ImportEvidenceWithGeneration(t, gen, st, s) ==
    [st |-> ImportHealth(s).st, gen |-> s.gen]

\* catalogImageImportEvidence: a healthy import carries no generation, so that
\* importing the same digest again is not a new activation request.
ImportEvidence(t, gen, st, s) ==
    IF ImportHealth(s).st = "True" \/ ServingPrevious(t, gen, st, s)
    THEN [st |-> "True", gen |-> 0]
    ELSE [st |-> ImportHealth(s).st, gen |-> s.gen]

\* The outcome of one pass of the loop in resolveCatalogDataImages.
Outcome(image, res, reason, health, hreason, evidence, gen) ==
    [image |-> image, res |-> Cond(res, reason, gen),
     health |-> Cond(health, hreason, gen), evidence |-> evidence]

ResolveFollowed(t, gen, st, s, applied, io) ==
    LET h  == ImportHealth(s)
        ev == ImportEvidence(t, gen, st, s)
        Resolved(image, res, reason) ==
            Outcome(image, res, reason, h.st, h.reason, ev, gen)
    IN  IF io = "streamErr"
        THEN Outcome("release", "False", "ImageStreamUnavailable",
                     "False", "ImageStreamUnavailable", NoEvidence, gen)
        ELSE IF h.st = "False"
        THEN Resolved("release", "False", h.reason)
        ELSE IF h.st = "Unknown" /\ AwaitingRecovery(t, st)
        THEN Resolved("release", "Unknown", "AwaitingSuccessfulImport")
        ELSE IF s.good # "none" /\ (h.st = "True" \/ ServingPrevious(t, gen, st, s))
        THEN Resolved(s.good, "True", "ImageStreamResolved")
        ELSE IF io = "appliedErr"
        THEN Resolved("release", "False", "AppliedImageReadFailed")
        ELSE Resolved(applied, "False", "NoSuccessfulImport")

ResolveTarget(t, sel, gen, st, s, applied, io) ==
    LET Untracked(image, res, reason) ==
            Outcome(image, res, reason, "True", "NotTrackingImageStream",
                    NoEvidence, gen)
    IN  IF sel = "invalid"
        THEN Untracked("release", "False", "InvalidDataImageSelection")
        ELSE IF sel = ""
        THEN Untracked("release", "True", "ReleaseDefault")
        ELSE IF sel \in Digests
        THEN Untracked(sel, "True", "DigestPinned")
        ELSE IF ~IsOpenShift
        THEN Untracked("release", "False", "UnsupportedDataImageSelection")
        ELSE ResolveFollowed(t, gen, st, s, applied, io)

\* aggregateDataImageConditions: faults before pending before success, the
\* catalog target first.
Priority(c) ==
    IF c.st = "False" /\ c.reason # "NoSuccessfulImport" THEN 0
    ELSE IF c.st # "True" THEN 1
    ELSE 2

Aggregate(cs, gen) ==
    LET c == cs["catalog"]
        b == cs["benchmark"]
        worst == IF Priority(b) < Priority(c) THEN b ELSE c
    IN  Cond(worst.st,
             IF worst.st = "True" /\ c.reason # b.reason
             THEN "IndependentSelections" ELSE worst.reason,
             gen)

\* A target that requests containment. A pending first import is not a fault.
IsFault(c, h) ==
    \/ c.reason = "AwaitingSuccessfulImport"
    \/ c.st = "False" /\ (c.reason # "NoSuccessfulImport" \/ h.st # "Unknown")

\* Release content may lack the serving-runtime file: the release image itself,
\* a stream that imports it, or a stable selection that resolves to it.
AllowLegacyRuntimeFile(sel, image) ==
    \/ sel["catalog"] = ""
    \/ /\ sel["catalog"] = "stable"
       /\ \/ image["catalog"] = "release"
          \/ Tracks(sel["catalog"]) /\ StreamFromRelease

(***************************************************************************)
(* The reducer of catalog_image_status.go. act is the activation record,    *)
(* gen the generation of the CR in memory.                                  *)
(***************************************************************************)
SelectionStatus(conds, gen) ==
    IF conds.resolved.gen # gen THEN "Unknown"
    ELSE IF conds.resolved.reason = "NoSuccessfulImport" THEN "Unknown"
    ELSE conds.resolved.st

IsDegraded(conds, gen) ==
    \/ SelectionStatus(conds, gen) = "False"
    \/ /\ conds.blocked.st = "True" /\ conds.blocked.gen = gen
       /\ conds.degraded.st = "True"
    \/ conds.actFailed.st = "True"

\* Bug: an available workload is enough, whichever attempt it runs.
IsReadyByWorkload(conds, act, gen) ==
    /\ SelectionStatus(conds, gen) = "True"
    /\ conds.workload.st = "True" /\ conds.workload.gen = gen

IsReady(conds, act, gen) ==
    /\ SelectionStatus(conds, gen) = "True"
    /\ conds.workload.st = "True" /\ conds.workload.gen = gen
    /\ act.state = "Succeeded"
    /\ conds.actReady.st = "True" /\ conds.actReady.gen = gen
    /\ conds.actFailed.st # "True"

Truth(b) == IF b THEN "True" ELSE "False"

\* Bug: Ready is not taken back.
ReduceCondsSticky(conds, act, gen) ==
    [conds EXCEPT
        !.degraded = Cond(Truth(IsDegraded(conds, gen)), "", gen),
        !.ready    = Cond(Truth(IsReady(conds, act, gen) \/ @.st = "True"), "", gen)]

\* reduceCatalogImageReadiness: Degraded and Ready (Available is set with the
\* same value) and, in the status, observedGeneration.
ReduceConds(conds, act, gen) ==
    [conds EXCEPT
        !.degraded = Cond(Truth(IsDegraded(conds, gen)), "", gen),
        !.ready    = Cond(Truth(IsReady(conds, act, gen)), "", gen)]
=============================================================================
