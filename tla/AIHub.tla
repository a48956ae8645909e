-------------------------------- MODULE AIHub --------------------------------
(***************************************************************************)
(* The AIHub reconciler and what it drives: the two child operators'        *)
(* Deployments, the singleton Catalog CR and, when the AIHub is deleted,    *)
(* the ordered teardown, composed with the part of the catalog operator     *)
(* that shares state with it (its finalizer, the resources it creates       *)
(* outside the Catalog's ownership, its readiness report).                  *)
(*                                                                          *)
(* A reconcile is Begin (finalizer, legacy Deployments), Deploy, Assess     *)
(* (children, then the Catalog) and WriteStatus, or for a deleted AIHub     *)
(* Release, or DeleteCatalog, Check and TakeOver.                           *)
(* AIHub reads its own CR, the Catalog and the Deployments from informer    *)
(* caches (view); stale holds the informers whose copy is not the current   *)
(* version, so a write that carries a resource version conflicts exactly    *)
(* when its object is in stale. API errors may end a reconcile anywhere.    *)
(***************************************************************************)
EXTENDS Naturals, Sequences, FiniteSets

CONSTANTS
    IsOpenShift,    \* Capabilities.IsOpenShift
    DomainGens,     \* generations of the AIHub spec that have a gateway domain
    Lagging,        \* sets of informers that may be behind the API server together
    MaxEvents       \* bound: edits, operators going down, API errors, new verdicts

Child == {"registry", "catalog"}
Informer == {"hub", "cat"} \cup Child

ASSUME IsOpenShiftAssumption == IsOpenShift \in BOOLEAN
ASSUME DomainAssumption == DomainGens \subseteq Nat
ASSUME LaggingAssumption == Lagging \subseteq SUBSET Informer
ASSUME BoundsAssumption == MaxEvents \in Nat

VARIABLES
    hub,        \* the AIHub CR: [state, fin, gen, st]
    cat,        \* the Catalog CR: [state, fin, gen, sel, migrated, owned, rep]
    dep,        \* the child operators' Deployments
    ext,        \* resources of the catalog operator, see Resource
    view,       \* the informers' copies of hub, cat and dep
    stale,      \* informers whose copy is not the current version
    rec,        \* the AIHub reconciler: program counter and locals
    queue,      \* is a reconcile of the AIHub due?
    op,         \* the catalog operator's process
    count,      \* bounds used so far: [edits, flaps, faults]
    earned,     \* observation only: Catalog generations reported ready
    raced       \* observation only: a takeover began beside a live operator

vars == <<hub, cat, dep, ext, view, stale, rec, queue, op, count, earned, raced>>

-----------------------------------------------------------------------------
(***************************************************************************)
(* Values                                                                   *)
(***************************************************************************)
\* What the catalog operator creates outside the Catalog's ownership: the gateway
\* HTTPRoute, and the proxy's auth-delegator ClusterRoleBinding (with it goes the
\* proxy ConfigMap, always written and deleted next to it and owned besides).
Resource == {"route", "proxy"}

\* AIHub's conditions ProvisioningSucceeded, ModelRegistryReady, CatalogReady,
\* CatalogDataReady and Degraded (FALSE: not True), and observedGeneration.
\* dataGen is observation only: the Catalog generation data was read from.
HubStatus ==
    [prov : BOOLEAN, mr : BOOLEAN, co : BOOLEAN, data : BOOLEAN,
     degraded : BOOLEAN, obs : Nat, dataGen : Nat]

NoHubStatus ==
    [prov |-> FALSE, mr |-> FALSE, co |-> FALSE, data |-> FALSE,
     degraded |-> FALSE, obs |-> 0, dataGen |-> 0]

Hub ==
    [state : {"live", "deleting", "gone"}, fin : BOOLEAN, gen : Nat, st : HubStatus]

Gone(h) == [h EXCEPT !.state = "gone", !.fin = FALSE, !.st = NoHubStatus]

\* The Catalog. sel stands for both data image selections, rep for its Ready and
\* Degraded conditions and the generation they observed.
Report == [gen : Nat, ready : BOOLEAN, failed : BOOLEAN]
NoReport == [gen |-> 0, ready |-> FALSE, failed |-> FALSE]

Catalog ==
    [state : {"absent", "live", "deleting"}, fin : BOOLEAN, gen : Nat,
     sel : {"release", "stable", "pinned"}, migrated : BOOLEAN,
     owned : BOOLEAN, rep : Report]

NoCatalog ==
    [state |-> "absent", fin |-> FALSE, gen |-> 0, sel |-> "release",
     migrated |-> FALSE, owned |-> FALSE, rep |-> NoReport]

\* A Deployment. A legacy one has a selector that the rendered manifest does not
\* have; cfg is the AIHub generation stamped into a current one. Scaled to zero it
\* still reports Available=True. uid numbers the objects of that name, and stays
\* when one is removed.
ChildDeployment ==
    [phase : {"none", "legacy", "terminating", "current"}, cfg : Nat,
     avail : {"no", "zero", "yes"}, uid : Nat]

NoChild == [phase |-> "none", cfg |-> 0, avail |-> "no", uid |-> 0]
LegacyChild == [phase |-> "legacy", cfg |-> 0, avail |-> "yes", uid |-> 1]

Removed(d) == [NoChild EXCEPT !.uid = d.uid]
NewChild(d, g) == [phase |-> "current", cfg |-> g, avail |-> "no", uid |-> d.uid + 1]

\* todo: what is left of a takeover; again: is the reconcile to be repeated?
Reconciler ==
    [pc : {"idle", "deploy", "assess", "write", "check", "takeover"},
     gen : Nat, st : HubStatus, todo : Seq(Resource \cup {"release"}),
     again : BOOLEAN]

Idle ==
    [pc |-> "idle", gen |-> 0, st |-> NoHubStatus, todo |-> <<>>, again |-> FALSE]

\* The catalog operator: todo is the rest of its pass, gen the generation it
\* read, held whether the resource version it read is still current.
Operator ==
    [up : BOOLEAN, domain : BOOLEAN, pc : {"idle", "ensure", "finalize"},
     todo : Seq(Resource), gen : Nat, held : BOOLEAN]

Down ==
    [up |-> FALSE, domain |-> FALSE, pc |-> "idle", todo |-> <<>>, gen |-> 0,
     held |-> FALSE]

\* Actions other than Sync wait for the informers that may not lag.
Informed == \E together \in Lagging : stale \subseteq together

\* May anything but the controllers disturb the cluster once more?
Eventful == count.edits + count.flaps + count.faults < MaxEvents

\* Ready is the conjunction of the four dependent conditions.
IsHappy(st) == st.prov /\ st.mr /\ st.co /\ st.data

-----------------------------------------------------------------------------
(***************************************************************************)
(* Writes                                                                   *)
(***************************************************************************)
\* A write that changes nothing leaves the resource version alone.
WriteHub(h) ==
    /\ hub' = h
    /\ stale' = IF h = hub THEN stale ELSE stale \cup {"hub"}

WriteCat(c) ==
    /\ cat' = c
    /\ stale' = IF c = cat THEN stale ELSE stale \cup {"cat"}

WriteDep(d) ==
    /\ dep' = d
    /\ stale' = stale \cup {c \in Child : d[c] # dep[c]}

\* The operator's copy of the Catalog is outdated by anybody else's write.
Outdated(c) == [op EXCEPT !.held = @ /\ c = cat]

\* What a reconcile leaves to be done: it ends, perhaps to be repeated.
Finish(again) ==
    /\ rec' = Idle
    /\ queue' = (queue \/ again)

-----------------------------------------------------------------------------
(***************************************************************************)
(* AIHub: provisioning                                                      *)
(***************************************************************************)
\* reconcileIncompatibleSelectors reads the cache and, on a miss, the API server.
LiveDeployment(c) == IF view.dep[c].phase = "none" THEN dep[c] ELSE view.dep[c]

\* Bug: the Delete has no UID precondition.
SameObjectUnchecked(c) == dep[c].phase # "none"

\* The UID precondition: the object that was read is the one that is there.
SameObject(c) == dep[c].phase # "none" /\ dep[c].uid = LiveDeployment(c).uid

DeleteIncompatible(wrong) ==
    [c \in Child |-> IF c \in wrong /\ SameObject(c)
                     THEN [dep[c] EXCEPT !.phase = "terminating"] ELSE dep[c]]

\* A failed step of provisioning.
Degraded(r) ==
    [r EXCEPT !.pc = "write", !.st.prov = FALSE, !.st.degraded = TRUE, !.again = TRUE]

\* Bug: provisioning starts without the finalizer.
EnsureNoFinalizer(h) == h

\* The finalizer is there before anything is provisioned.
EnsureFinalizer(h) == [h EXCEPT !.fin = TRUE]

\* Reconcile on a live AIHub: read it, ensure the finalizer, and delete the child
\* Deployments whose selector is not the rendered one; wait while any is there.
\* (A finalizer added to an outdated copy conflicts and leaves all as it is.)
Begin ==
    LET wrong   == {c \in Child : LiveDeployment(c).phase = "legacy"}
        waiting == {c \in Child : LiveDeployment(c).phase = "terminating"}
        r == [Idle EXCEPT !.gen = view.hub.gen, !.st = view.hub.st]
    IN  /\ rec.pc = "idle" /\ queue
        /\ view.hub.state = "live"
        /\ view.hub.fin \/ "hub" \notin stale
        /\ hub' = IF view.hub.fin THEN hub ELSE EnsureFinalizer(hub)
        /\ dep' = DeleteIncompatible(wrong)
        /\ stale' = stale \cup (IF hub' # hub THEN {"hub"} ELSE {})
                         \cup {c \in Child : dep'[c] # dep[c]}
        /\ rec' = IF wrong \cup waiting = {}
                  THEN [r EXCEPT !.pc = "deploy"]
                  ELSE [r EXCEPT !.pc = "write", !.st.prov = FALSE, !.again = TRUE]
        /\ queue' = FALSE
        /\ UNCHANGED <<cat, ext, view, op, count, earned, raced>>

\* A Deployment could not be read or deleted: the status is written before the
\* error is returned.
BeginFails ==
    /\ rec.pc = "idle" /\ queue
    /\ view.hub.state = "live" /\ view.hub.fin
    /\ Eventful
    /\ count' = [count EXCEPT !.faults = @ + 1]
    /\ rec' = Degraded([Idle EXCEPT !.gen = view.hub.gen, !.st = view.hub.st])
    /\ queue' = FALSE
    /\ UNCHANGED <<hub, cat, dep, ext, view, stale, op, earned, raced>>

\* Nothing to do for an AIHub that is gone or has no finalizer left.
BeginNothing ==
    /\ rec.pc = "idle" /\ queue
    /\ view.hub.state = "gone" \/ (view.hub.state = "deleting" /\ ~view.hub.fin)
    /\ queue' = FALSE
    /\ UNCHANGED <<hub, cat, dep, ext, view, stale, rec, op, count, earned, raced>>

\* Server-side apply of the manifests stamped for generation g.
Stamped(d, g) ==
    IF d.phase = "none" THEN NewChild(d, g) ELSE [d EXCEPT !.cfg = g]

\* The API server refuses another selector; Begin has seen to it.
Applicable(c) == dep[c].phase \in {"none", "current"}

Deploy ==
    /\ rec.pc = "deploy"
    /\ \A c \in Child : Applicable(c)
    /\ WriteDep([c \in Child |-> Stamped(dep[c], rec.gen)])
    /\ rec' = [rec EXCEPT !.pc = "assess", !.st.prov = TRUE]
    /\ UNCHANGED <<hub, cat, ext, view, queue, op, count, earned, raced>>

\* The apply (or rendering the ServiceMonitor before it) fails part way.
DeployFails ==
    \E done \in SUBSET {c \in Child : Applicable(c)} :
        /\ rec.pc = "deploy"
        /\ done # Child
        /\ Eventful
        /\ count' = [count EXCEPT !.faults = @ + 1]
        /\ WriteDep([c \in Child |-> IF c \in done THEN Stamped(dep[c], rec.gen) ELSE dep[c]])
        /\ rec' = Degraded(rec)
        /\ UNCHANGED <<hub, cat, ext, view, queue, op, earned, raced>>

\* checkChildDeploymentReady, on the cached Deployments.
IsAvailable(d) == d.phase # "none" /\ d.avail # "no"

Mr == IsAvailable(view.dep["registry"])
Co == IsAvailable(view.dep["catalog"])

ChildrenDown ==
    /\ rec.pc = "assess" /\ ~(Mr /\ Co)
    /\ rec' = [rec EXCEPT !.pc = "write", !.st.mr = Mr,
                          !.st.co = IF Mr THEN FALSE ELSE @,
                          !.st.degraded = FALSE, !.again = TRUE]
    /\ UNCHANGED <<hub, cat, dep, ext, view, stale, queue, op, count, earned, raced>>

NewCatalog ==
    [NoCatalog EXCEPT !.state = "live", !.gen = 1, !.owned = TRUE,
                      !.sel = IF IsOpenShift THEN "stable" ELSE "release",
                      !.migrated = IsOpenShift]

\* The Create passes the webhook that the catalog operator serves.
WebhookServes == op.up /\ dep["catalog"].avail = "yes"

\* Bug: the generation of the report is not compared.
CatalogReadyOfAnyGeneration(c) == c.rep.ready /\ ~c.rep.failed

\* A generation counts only when the readiness report is about it.
CatalogReady(c) == c.rep.gen = c.gen /\ c.rep.ready /\ ~c.rep.failed
CatalogFailed(c) == c.rep.gen = c.gen /\ c.rep.failed

\* reconcileAIHubCatalogReadiness and the Degraded condition.
Judged(c) ==
    [rec EXCEPT !.pc = "write", !.again = ~CatalogReady(c),
                !.st.mr = TRUE, !.st.co = TRUE,
                !.st.data = CatalogReady(c), !.st.dataGen = c.gen,
                !.st.degraded = CatalogFailed(c) \/ rec.gen \notin DomainGens]

\* migrateCatalogImageStreams: selections and marker in one patch.
NeedsMigration(c) == IsOpenShift /\ ~c.migrated /\ c.state = "live"

Migrated(c) ==
    [c EXCEPT !.sel = "stable", !.migrated = TRUE,
              !.gen = IF c.sel = "stable" THEN @ ELSE @ + 1]

\* Bug: the patch carries no resource version.
MigrationAllowedUnlocked == TRUE

\* The patch carries the resource version that was read.
MigrationAllowed == "cat" \notin stale

CreateCatalog ==
    /\ rec.pc = "assess" /\ Mr /\ Co
    /\ view.cat.state = "absent" /\ cat.state = "absent"
    /\ WebhookServes
    /\ WriteCat(NewCatalog)
    /\ op' = Outdated(NewCatalog)
    /\ rec' = Judged(NewCatalog)
    /\ UNCHANGED <<hub, dep, ext, view, queue, count, earned, raced>>

MigrateCatalog ==
    /\ rec.pc = "assess" /\ Mr /\ Co
    /\ view.cat.state # "absent" /\ NeedsMigration(view.cat)
    /\ MigrationAllowed /\ cat.state # "absent"
    /\ WriteCat(Migrated(cat))
    /\ op' = Outdated(Migrated(cat))
    /\ rec' = Judged(Migrated(cat))
    /\ UNCHANGED <<hub, dep, ext, view, queue, count, earned, raced>>

KeepCatalog ==
    /\ rec.pc = "assess" /\ Mr /\ Co
    /\ view.cat.state # "absent" /\ ~NeedsMigration(view.cat)
    /\ rec' = Judged(view.cat)
    /\ UNCHANGED <<hub, cat, dep, ext, view, stale, queue, op, count, earned, raced>>

\* AlreadyExists, a webhook without endpoints or a conflict: the reconcile ends
\* without a status update and is repeated.
EnsureCatalogFails ==
    /\ rec.pc = "assess" /\ Mr /\ Co
    /\ IF view.cat.state = "absent"
       THEN cat.state # "absent" \/ ~WebhookServes
       ELSE NeedsMigration(view.cat) /\ ~(MigrationAllowed /\ cat.state # "absent")
    /\ Finish(TRUE)
    /\ UNCHANGED <<hub, cat, dep, ext, view, stale, op, count, earned, raced>>

EnsureCatalog == CreateCatalog \/ MigrateCatalog \/ KeepCatalog \/ EnsureCatalogFails

\* Bug: the retry stamps the generation it finds.
PublishedAsLatest == [rec.st EXCEPT !.obs = hub.gen]

\* updateStatus: the status of this reconcile, stamped with the generation it read.
\* A conflict is retried on the informer's next copy; CallFails is the retries'
\* end.
Published == [rec.st EXCEPT !.obs = rec.gen]

WriteStatus ==
    /\ rec.pc = "write"
    /\ view.hub.state = "gone" \/ "hub" \notin stale
    /\ WriteHub(IF view.hub.state = "gone" THEN hub ELSE [hub EXCEPT !.st = Published])
    /\ Finish(rec.again)
    /\ UNCHANGED <<cat, dep, ext, view, op, count, earned, raced>>

-----------------------------------------------------------------------------
(***************************************************************************)
(* AIHub: teardown                                                          *)
(***************************************************************************)
\* Reconcile on a deleted AIHub that still has its finalizer: cleanupOnDelete.
Cleanup ==
    /\ rec.pc = "idle" /\ queue
    /\ view.hub.state = "deleting" /\ view.hub.fin

\* The Catalog is gone, or not this AIHub's to delete.
NothingToDelete == view.cat.state = "absent" \/ ~view.cat.owned

\* The finalizer is removed from the copy that was read.
Release ==
    /\ Cleanup /\ NothingToDelete
    /\ "hub" \notin stale
    /\ WriteHub(Gone(hub))
    /\ queue' = FALSE
    /\ UNCHANGED <<cat, dep, ext, view, rec, op, count, earned, raced>>

\* The API server removes an object without finalizers at once. (The report of a
\* Catalog that is being deleted is left out: nobody reads it any more.)
Deleted(c) ==
    CASE c.state = "live" /\ c.fin  -> [c EXCEPT !.state = "deleting", !.rep = NoReport]
      [] c.state = "live" /\ ~c.fin -> NoCatalog
      [] OTHER -> c

DeleteCatalog ==
    LET c == IF view.cat.state = "live" THEN Deleted(cat) ELSE cat
    IN  /\ Cleanup /\ ~NothingToDelete
        /\ WriteCat(c)
        /\ op' = Outdated(c)
        /\ rec' = [Idle EXCEPT !.pc = "check"]
        /\ queue' = FALSE
        /\ UNCHANGED <<hub, dep, ext, view, count, earned, raced>>

\* Bug: the condition alone, without the replicas.
CanFinalizeWhenAvailable(d) == IsAvailable(d)

\* catalogOperatorCanFinalize: Available and not scaled to zero.
CanFinalize(d) == d.phase # "none" /\ d.avail = "yes"

\* Bug: the takeover forgets the ClusterRoleBinding.
TakeOverStepsNoBinding == <<"route", "release">>

\* takeOverCatalogFinalization: what finalizeCatalog deletes, then the finalizer.
TakeOverSteps == <<"route", "proxy", "release">>

Check ==
    /\ rec.pc = "check"
    /\ IF view.cat.state # "absent" /\ view.cat.fin /\ ~CanFinalize(view.dep["catalog"])
       THEN /\ rec' = [rec EXCEPT !.pc = "takeover", !.todo = TakeOverSteps]
            /\ UNCHANGED queue
       ELSE Finish(TRUE)
    /\ raced' = (raced \/ (rec'.pc = "takeover" /\ op.up))
    /\ UNCHANGED <<hub, cat, dep, ext, view, stale, op, count, earned>>

\* One call of the takeover at a time.
TakeOver ==
    /\ rec.pc = "takeover" /\ Head(rec.todo) \in Resource
    /\ ext' = ext \ {Head(rec.todo)}
    /\ rec' = [rec EXCEPT !.todo = Tail(@)]
    /\ UNCHANGED <<hub, cat, dep, view, stale, queue, op, count, earned, raced>>

\* Without its last finalizer a deleted object is removed.
Unfinalized(c) == IF c.state = "deleting" THEN NoCatalog ELSE [c EXCEPT !.fin = FALSE]

TakeOverRelease ==
    LET held == view.cat.state # "absent" /\ view.cat.fin
    IN  /\ rec.pc = "takeover" /\ Head(rec.todo) = "release"
        /\ \/ ~held /\ UNCHANGED <<cat, stale, op>>
           \/ held /\ "cat" \in stale /\ UNCHANGED <<cat, stale, op>>
           \/ /\ held /\ "cat" \notin stale
              /\ WriteCat(Unfinalized(cat))
              /\ op' = Outdated(Unfinalized(cat))
        /\ Finish(TRUE)
        /\ UNCHANGED <<hub, dep, ext, view, count, earned, raced>>

\* Any other API call of a reconcile fails, by a conflict perhaps; it is repeated after a backoff.
CallFails ==
    /\ rec.pc \notin {"idle", "deploy"}
    /\ Eventful
    /\ count' = [count EXCEPT !.faults = @ + 1]
    /\ Finish(TRUE)
    /\ UNCHANGED <<hub, cat, dep, ext, view, stale, op, earned, raced>>

Reconcile ==
    \/ Begin \/ BeginFails \/ BeginNothing
    \/ Deploy \/ DeployFails \/ ChildrenDown \/ EnsureCatalog
    \/ WriteStatus \/ Release \/ DeleteCatalog \/ Check
    \/ TakeOver \/ TakeOverRelease \/ CallFails

-----------------------------------------------------------------------------
(***************************************************************************)
(* The catalog operator                                                     *)
(***************************************************************************)
\* The resources a pass ensures, in order; no HTTPRoute without a domain.
Ensures == IF op.domain /\ IsOpenShift THEN <<"route", "proxy">> ELSE <<"proxy">>

\* finalizeCatalog deletes the HTTPRoute whatever the current domain is.
Finalizes == <<"proxy", "route">>

\* Is there something for the operator to do, or a report it may change?
Due(c) ==
    \/ c.state = "deleting" /\ c.fin
    \/ /\ c.state = "live"
       /\ \/ ~c.fin
          \/ \E i \in 1 .. Len(Ensures) : Ensures[i] \notin ext
          \/ c.rep.gen # c.gen
          \/ Eventful

\* A pass ends.
Rested == [Down EXCEPT !.up = TRUE, !.domain = op.domain]

OpBegin ==
    /\ op.up /\ op.pc = "idle" /\ Due(cat)
    /\ IF cat.state = "live"
       THEN /\ WriteCat([cat EXCEPT !.fin = TRUE])
            /\ op' = [op EXCEPT !.pc = "ensure", !.todo = Ensures, !.gen = cat.gen,
                                !.held = TRUE]
       ELSE /\ UNCHANGED <<cat, stale>>
            /\ op' = [op EXCEPT !.pc = "finalize", !.todo = Finalizes, !.held = TRUE]
    /\ UNCHANGED <<hub, dep, ext, view, rec, queue, count, earned, raced>>

OpStep ==
    /\ op.up /\ op.todo # <<>>
    /\ ext' = IF op.pc = "ensure" THEN ext \cup {Head(op.todo)} ELSE ext \ {Head(op.todo)}
    /\ op' = [op EXCEPT !.todo = Tail(@)]
    /\ UNCHANGED <<hub, cat, dep, view, stale, rec, queue, count, earned, raced>>

\* The status patch: what CatalogActivation decides, here any verdict.
OpReport ==
    \E ready \in BOOLEAN :
        LET r == [gen |-> op.gen, ready |-> ready, failed |-> ~ready]
        IN  /\ op.up /\ op.pc = "ensure" /\ op.todo = <<>>
            /\ IF op.held
               THEN /\ r = cat.rep \/ cat.rep.gen # op.gen \/ Eventful
                    /\ count' = IF cat.rep.gen = op.gen /\ r # cat.rep
                                THEN [count EXCEPT !.flaps = @ + 1] ELSE count
                    /\ WriteCat([cat EXCEPT !.rep = r])
                    /\ earned' = IF r.ready THEN earned \cup {op.gen} ELSE earned
               ELSE UNCHANGED <<cat, stale, count, earned>>
            /\ op' = Rested
            /\ UNCHANGED <<hub, dep, ext, view, rec, queue, raced>>

\* The finalizer is removed under the resource version that was read.
OpRelease ==
    /\ op.up /\ op.pc = "finalize" /\ op.todo = <<>>
    /\ IF op.held THEN WriteCat(Unfinalized(cat)) ELSE UNCHANGED <<cat, stale>>
    /\ op' = Rested
    /\ UNCHANGED <<hub, dep, ext, view, rec, queue, count, earned, raced>>

OperatorSteps == OpBegin \/ OpStep \/ OpReport \/ OpRelease

-----------------------------------------------------------------------------
(***************************************************************************)
(* The cluster                                                              *)
(***************************************************************************)
\* A pod of the operator starts (after the Deployment was scaled up again, perhaps)
\* and reconciles once it has the lease: it need not be ready for that.
OpStarts ==
    /\ ~op.up /\ dep["catalog"].phase = "current"
    /\ op' = [Down EXCEPT !.up = TRUE, !.domain = dep["catalog"].cfg \in DomainGens]
    /\ WriteDep([dep EXCEPT !["catalog"].avail = IF @ = "zero" THEN "no" ELSE @])
    /\ UNCHANGED <<hub, cat, ext, view, rec, queue, count, earned, raced>>

\* The readiness probe passes and the Deployment becomes Available.
OpReady ==
    /\ op.up /\ dep["catalog"].phase = "current" /\ dep["catalog"].avail = "no"
    /\ WriteDep([dep EXCEPT !["catalog"].avail = "yes"])
    /\ UNCHANGED <<hub, cat, ext, view, rec, queue, op, count, earned, raced>>

\* The readiness probe fails, or the Deployment is scaled to zero or deleted; the
\* process runs on, until its pod has terminated.
OpUnready ==
    \E d \in {[dep["catalog"] EXCEPT !.avail = "no"],
              [dep["catalog"] EXCEPT !.avail = "zero"], Removed(dep["catalog"])} :
        /\ op.up /\ dep["catalog"].avail = "yes" /\ Eventful
        /\ WriteDep([dep EXCEPT !["catalog"] = d])
        /\ count' = [count EXCEPT !.flaps = @ + 1]
        /\ UNCHANGED <<hub, cat, ext, view, rec, queue, op, earned, raced>>

\* The process ends: it crashes, or its pod was to go.
OpStops ==
    LET wanted == dep["catalog"].phase = "current" /\ dep["catalog"].avail # "zero"
    IN  /\ op.up /\ (wanted => Eventful)
        /\ op' = Down
        /\ count' = IF wanted THEN [count EXCEPT !.flaps = @ + 1] ELSE count
        /\ UNCHANGED <<hub, cat, dep, ext, view, stale, rec, queue, earned, raced>>

\* The Deployment's status follows the end of the process.
OpMissed ==
    /\ ~op.up /\ dep["catalog"].phase = "current" /\ dep["catalog"].avail = "yes"
    /\ WriteDep([dep EXCEPT !["catalog"].avail = "no"])
    /\ UNCHANGED <<hub, cat, ext, view, rec, queue, op, count, earned, raced>>

RegistryStarts ==
    /\ dep["registry"].phase = "current" /\ dep["registry"].avail # "yes"
    /\ WriteDep([dep EXCEPT !["registry"].avail = "yes"])
    /\ UNCHANGED <<hub, cat, ext, view, rec, queue, op, count, earned, raced>>

RegistryStops ==
    /\ dep["registry"].phase = "current" /\ dep["registry"].avail = "yes"
    /\ Eventful
    /\ WriteDep([dep EXCEPT !["registry"].avail = "no"])
    /\ count' = [count EXCEPT !.flaps = @ + 1]
    /\ UNCHANGED <<hub, cat, ext, view, rec, queue, op, earned, raced>>

\* A deleted legacy Deployment disappears.
LegacyRemoved ==
    \E c \in Child :
        /\ dep[c].phase = "terminating"
        /\ WriteDep([dep EXCEPT ![c] = Removed(@)])
        /\ UNCHANGED <<hub, cat, ext, view, rec, queue, op, count, earned, raced>>

Edited == Eventful /\ count' = [count EXCEPT !.edits = @ + 1]

\* Somebody else replaces the legacy Deployment by a compatible one.
LegacyReplaced ==
    \E c \in Child :
        /\ dep[c].phase = "legacy" /\ Edited
        /\ WriteDep([dep EXCEPT ![c] = NewChild(@, 0)])
        /\ UNCHANGED <<hub, cat, ext, view, rec, queue, op, earned, raced>>

EditHub ==
    /\ hub.state = "live" /\ Edited
    /\ WriteHub([hub EXCEPT !.gen = @ + 1])
    /\ UNCHANGED <<cat, dep, ext, view, rec, queue, op, earned, raced>>

EditSelection ==
    \E s \in {"release", "pinned"} :
        LET c == [cat EXCEPT !.sel = s, !.gen = @ + 1]
        IN  /\ cat.state = "live" /\ cat.sel # s /\ Edited
            /\ WriteCat(c)
            /\ op' = Outdated(c)
            /\ UNCHANGED <<hub, dep, ext, view, rec, queue, earned, raced>>

DeleteHub ==
    /\ hub.state = "live"
    /\ WriteHub(IF hub.fin THEN [hub EXCEPT !.state = "deleting"] ELSE Gone(hub))
    /\ UNCHANGED <<cat, dep, ext, view, rec, queue, op, count, earned, raced>>

\* Garbage collection of what a gone AIHub, then a gone Catalog, owned.
CollectCatalog ==
    /\ hub.state = "gone" /\ cat.owned /\ cat.state = "live"
    /\ WriteCat(Deleted(cat))
    /\ op' = Outdated(Deleted(cat))
    /\ UNCHANGED <<hub, dep, ext, view, rec, queue, count, earned, raced>>

CollectDeployment ==
    \E c \in Child :
        /\ hub.state = "gone" /\ dep[c].phase = "current" /\ dep[c].cfg > 0
        /\ WriteDep([dep EXCEPT ![c] = Removed(@)])
        /\ UNCHANGED <<hub, cat, ext, view, rec, queue, op, count, earned, raced>>

Environment ==
    \/ OpStarts \/ OpReady \/ OpUnready \/ OpStops \/ OpMissed \/ RegistryStarts \/ RegistryStops
    \/ LegacyRemoved \/ LegacyReplaced \/ EditHub \/ EditSelection \/ DeleteHub
    \/ CollectCatalog \/ CollectDeployment

\* Bug: the Catalog is not watched.
OwnedWithoutCatalog(k) == k # "cat"

\* An informer catches up. AIHub watches its own CR and what it owns.
Owned(k) ==
    CASE k = "hub" -> TRUE
      [] k = "cat" -> cat.owned \/ view.cat.owned
      [] OTHER -> dep[k].cfg > 0 \/ view.dep[k].cfg > 0

Sync ==
    \E k \in stale :
        /\ view' = CASE k = "hub" -> [view EXCEPT !.hub = hub]
                     [] k = "cat" -> [view EXCEPT !.cat = cat]
                     [] OTHER -> [view EXCEPT !.dep[k] = dep[k]]
        /\ stale' = stale \ {k}
        /\ queue' = (queue \/ Owned(k))
        /\ UNCHANGED <<hub, cat, dep, ext, rec, op, count, earned, raced>>

-----------------------------------------------------------------------------
(***************************************************************************)
(* Specification                                                            *)
(***************************************************************************)
\* A new AIHub on an empty cluster, next to a Catalog an administrator made, or
\* with the legacy operator and the unmigrated Catalog of an earlier release.
Init ==
    /\ hub = [state |-> "live", fin |-> FALSE, gen |-> 1, st |-> NoHubStatus]
    /\ \E left \in {"nothing", "foreign", "legacy"} :
        /\ cat = IF left = "nothing" THEN NoCatalog
                 ELSE [NoCatalog EXCEPT !.state = "live", !.gen = 1,
                                        !.owned = (left = "legacy")]
        /\ dep = [c \in Child |-> IF left = "legacy" /\ c = "registry"
                                  THEN LegacyChild ELSE NoChild]
    /\ ext = {}
    /\ view = [hub |-> hub, cat |-> cat, dep |-> dep]
    /\ stale = {}
    /\ rec = Idle
    /\ queue = TRUE
    /\ op = Down
    /\ count = [edits |-> 0, flaps |-> 0, faults |-> 0]
    /\ earned = {}
    /\ raced = FALSE

Next ==
    \/ Sync
    \/ Informed /\ (Reconcile \/ OperatorSteps \/ Environment)

Spec == Init /\ [][Next]_vars

\* Every informer catches up, reconciles of both operators run to their end, deleted
\* objects disappear and the status of a Deployment follows the end of its process.
\* Nothing is assumed of the children's processes: neither that they start nor that
\* they become ready.
FairSpec ==
    /\ Spec
    /\ WF_vars(Sync)
    /\ WF_vars(Informed /\ Reconcile)
    /\ WF_vars(Informed /\ OperatorSteps)
    /\ WF_vars(Informed /\ LegacyRemoved)
    /\ WF_vars(Informed /\ OpMissed)

-----------------------------------------------------------------------------
(***************************************************************************)
(* Properties                                                               *)
(***************************************************************************)
\* Every variable keeps its type, and an informer that is not stale shows the
\* current object.
TypeOK ==
    /\ hub \in Hub
    /\ cat \in Catalog
    /\ dep \in [Child -> ChildDeployment]
    /\ ext \subseteq Resource
    /\ view \in [hub : Hub, cat : Catalog, dep : [Child -> ChildDeployment]]
    /\ stale \subseteq Informer
    /\ rec \in Reconciler
    /\ queue \in BOOLEAN
    /\ op \in Operator
    /\ count \in [edits : 0 .. MaxEvents, flaps : 0 .. MaxEvents, faults : 0 .. MaxEvents]
    /\ earned \subseteq Nat
    /\ raced \in BOOLEAN
    /\ "hub" \notin stale => view.hub = hub
    /\ "cat" \notin stale => view.cat = cat
    /\ \A c \in Child : c \notin stale => view.dep[c] = dep[c]

Provisioning == {"deploy", "assess", "write"}
Finalizing == {"check", "takeover"}

\* No reconcile provisions for an AIHub without its finalizer, so none is gone
\* before the cleanup: an outdated copy of the AIHub can only hide the deletion.
HubGuards ==
    /\ view.hub.state = "live" /\ view.hub.fin => hub.fin /\ hub.state # "gone"
    /\ view.hub.state # "live" => hub.state # "live"
    /\ view.hub.state = "gone" => hub.state = "gone"
    /\ rec.pc \in Provisioning => hub.fin /\ hub.state # "gone"
    /\ rec.pc \in Finalizing => view.hub.state # "live"

\* What is left of the passes over the catalog operator's resources.
Passes ==
    /\ op.pc = "idle" => op.todo = <<>>
    /\ op.pc = "ensure" => op.todo \in {<<"route", "proxy">>, <<"proxy">>, <<>>}
    /\ op.pc = "finalize" => op.todo \in {<<"proxy", "route">>, <<"route">>, <<>>}
    /\ rec.pc = "takeover" =>
          rec.todo \in {<<"route", "proxy", "release">>, <<"proxy", "release">>, <<"release">>}

\* The ordered teardown leaks nothing: once the AIHub and its Catalog are gone and
\* the catalog operator is not in the middle of a pass, the HTTPRoute and the
\* ClusterRoleBinding that no owner reference covers are gone too, whoever
\* finalized the Catalog (finalizeCatalog or takeOverCatalogFinalization).
NoLeak ==
    hub.state = "gone" /\ cat.state = "absent" /\ op.pc = "idle"
        => ext = {}

\* What takeOverCatalogFinalization needs for that is what its comment says: if it
\* only ever began with no operator process alive, nothing leaks, although the
\* operator may come back, or stop in the middle of its own finalization, at any
\* step of the takeover.
NoLeakWithoutRace == ~raced => NoLeak

\* Behind NoLeakWithoutRace: the Catalog carries its finalizer while there is
\* anything to delete, a deleted one is never created again, and whoever finalizes
\* it works on resources that nobody adds to.
OrderedTeardown ==
    /\ ~cat.fin => ext = {} /\ op.pc # "ensure"
    /\ op.pc = "finalize" => /\ op.todo = <<"route">> => "proxy" \notin ext
                             /\ op.todo = <<>> => ext = {}
    /\ rec.pc = "takeover" => /\ op.pc # "ensure"
                              /\ rec.todo = <<"proxy", "release">> => "route" \notin ext
                              /\ rec.todo = <<"release">> => ext = {}

\* A Catalog is deleted for good: nobody provisions while one is, or is finalized.
Deletions ==
    /\ ~op.up => op.pc = "idle"
    /\ view.cat.state = "deleting" => cat.state # "live"
    /\ cat.state = "deleting" \/ op.pc = "finalize" =>
          /\ hub.state = "gone" \/ view.hub.state # "live"
          /\ rec.pc \notin Provisioning
    /\ op.pc = "finalize" => cat.state # "live"
    /\ rec.pc \in {"check", "takeover"} => cat.state # "live"

\* A status that reports provisioning for a generation was deployed for it: a
\* conflict retry in updateStatus never stamps an older status with a newer
\* generation.
DeployedSince(g) ==
    \A c \in Child : dep[c].phase = "current" /\ dep[c].cfg > 0 => dep[c].cfg >= g

ObservedIsDeployed == hub.st.prov => DeployedSince(hub.st.obs)

\* Behind ObservedIsDeployed: the generations that reconciles read only grow.
Generations ==
    /\ hub.st.obs <= view.hub.gen /\ view.hub.gen <= hub.gen
    /\ rec.pc \in Provisioning => hub.st.obs <= rec.gen /\ rec.gen <= view.hub.gen
    /\ rec.pc \in {"assess", "write"} /\ rec.st.prov => DeployedSince(rec.gen)
    /\ ObservedIsDeployed

\* CatalogDataReady is only published from a Catalog generation that its operator
\* reported ready (reconcileAIHubCatalogReadiness never trusts an old report).
DataReadyIsEarned == hub.st.data => hub.st.dataGen \in earned

\* Behind DataReadyIsEarned: no copy of a report or of a status tells of a verdict
\* that was never given.
Verdicts ==
    /\ \A c \in {cat, view.cat} : c.rep.ready => c.rep.gen \in earned
    /\ \A st \in {hub.st, view.hub.st, rec.st} : st.data => st.dataGen \in earned

\* Behind OnlyLegacyIsDeleted: a UID is never used again, and the selector of the
\* object that has it never changes.
Identities ==
    \A c \in Child :
        /\ view.dep[c].uid <= dep[c].uid
        /\ view.dep[c].uid = dep[c].uid /\ view.dep[c].phase = "legacy"
              => dep[c].phase # "current"

\* What the reconciles, their caches and the catalog operator agree on: no reconcile
\* provisions without the finalizer, no status outruns what was deployed or reported
\* ready, a Deployment's copy tells its selector as long as it tells its UID, and the
\* teardown is ordered unless a takeover began beside a live operator.
Consistent ==
    /\ TypeOK
    /\ HubGuards
    /\ Passes
    /\ Generations
    /\ Verdicts
    /\ cat.state = "absent" => ~cat.fin /\ ~cat.migrated
    /\ Deletions
    /\ Identities
    /\ ~raced => OrderedTeardown

\* Once a Catalog carries the migration marker only the administrator changes
\* its selections, however outdated AIHub's copy of the Catalog is.
MigratedSelectionIsKept ==
    [][cat.migrated /\ cat'.state # "absent" /\ cat'.sel # cat.sel
        => count'.edits = count.edits + 1]_vars

\* The selector migration deletes a legacy Deployment and never the compatible
\* one that took its place behind an outdated cache.
OnlyLegacyIsDeleted ==
    [][\A c \in Child : dep'[c].phase = "terminating"
        => dep[c].phase \in {"legacy", "terminating"}]_vars

\* Deleting the AIHub comes to an end, with the catalog operator running, down,
\* scaled to zero or removed.
TeardownEnds == []<>(hub.state # "deleting")

Healthy ==
    /\ hub.state = "live" /\ cat.owned /\ cat.state = "live" /\ CatalogReady(cat)
    /\ \A c \in Child : dep[c].phase = "current" /\ dep[c].avail = "yes"

Unhealthy ==
    /\ hub.state = "live" /\ cat.owned
    /\ \/ \E c \in Child : dep[c].avail = "no"
       \/ cat.state = "live" /\ ~CatalogReady(cat)

\* AIHub's Ready condition follows what the children and the Catalog stay at: it
\* cannot remain unready over healthy children, nor ready over unhealthy ones.
StatusFollows ==
    /\ []<>(Healthy => IsHappy(hub.st) /\ hub.st.obs = hub.gen)
    /\ []<>(Unhealthy => ~IsHappy(hub.st))
=============================================================================
