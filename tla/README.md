# A TLA+ verification of the model-registry operator

The repository builds one operator image with three controllers. **AIHub** installs the other
two and the `Catalog` resource. **Catalog** runs the model catalog, whose data comes from two
images that are selected, imported, validated and rolled out by a small activation protocol.
**ModelRegistry** runs registry instances. Beside them every process starts a one-shot
migration of stored objects. This directory keeps the TLA+ models of that code, the TLC runs
that check them and the TLAPS proofs about them.

## Inventory

| Component | State it keeps | Operations | What is hard | What makes it correct | Module |
|---|---|---|---|---|---|
| Catalog image selection and reducer (`catalog_data_images.go`, `catalog_image_status.go`) | conditions per target, resolved pair | resolve, aggregate, reduce | import events in any order, a pending import after a failed one, one target failing | a fault is left only by a success; readiness only for what is selected and running | `CatalogImages` |
| Catalog activation protocol (`catalog_activation_protocol.go`, `catalog_activation.go`, `catalog_controller.go`) | `status.activation`, template annotation, replicas | prepare, publish, apply, observe, record, contain | stale cache, conflicts, lost answers, crashes between two writes, two deadlines | attempts are persisted first, failures are terminal and contained, pending attempts are decided | `CatalogActivation`, `ActivationLifecycle` |
| Catalog workload resources (`catalog_controller.go`) | Deployments, services, routes, policies, secrets | create, update, delete and recreate | one of many steps failing, drifts | every pass converges to the rendered set | `CatalogActivation`, `CatalogSources` |
| Catalog source discovery (`catalog_controller.go`) | ConfigMaps, secrets, admin groups | discover, hash, strip, generate | administrators' edits during a pass, watches with predicates | passwords and users' sources kept; the Deployment follows | `CatalogSources` |
| Catalog finalization (`catalog_controller.go`, `aihub_controller.go`) | finalizer | finalize, take over | AIHub and the catalog operator both finalizing | nothing is leaked, deletion ends | `AIHub` |
| AIHub (`aihub_controller.go`) | AIHub status, child Deployments, migration marker | provision, migrate, aggregate, delete | administrator edits, operator upgrades, teardown order | selections are migrated once, readiness follows the children | `AIHub` |
| ModelRegistry (`modelregistry_*.go`) | finalizer, owned and cluster-scoped resources, conditions | reconcile, migrate proxy, finalize | cluster-scoped names, partial failure, ignored conflicts | what was created is deleted, Available reflects the workload | `ModelRegistry` |
| Resource manager, capabilities (`util.go`) | none; annotations for last-applied | create or update, detect | a cached copy that hides a drift; partial discovery | no update without a change | where it is used |
| Storage version migration (`internal/migration`) | CRD stored versions, annotations | monitor, two strategies | several processes at once, failures that are logged and skipped | users' writes survive, success means migrated | `StorageMigration` |
| Webhooks, defaults, conversion (`internal/webhook`, `api`) | none | default, validate, convert | check-then-create on names | round trip, idempotence | as an obstacle of creates |
| Content validator (`internal/catalogcontent`) | none | validate files | malformed input | verdict matches the documented rules | - |
| TLS profiles (`internal/tls`) | none | resolve, map | API errors, FIPS | fail closed where it must | - |
| Process setup (`cmd`, `internal/setup`, `config`) | none | start | - | one active reconciler | - |

Interaction. AIHub creates the Catalog and reads its conditions; it deletes it before itself,
and finalizes it when the catalog operator cannot. The Catalog controller is woken by the CR,
the objects it owns, pods, ImageStreams, labelled sources and secrets; it writes the CR's
status, the ImageStreams and the Deployment. The cluster answers through the Deployment's
status, pod statuses and import histories. Users write the same CRs and ConfigMaps.
The ModelRegistry controller and the Catalog operator meet in object names: a registry called
`model` once owned `model-catalog`. Everything shared goes through the API server: most
writes carry a resource version, most reads come from an informer cache.

## Modules

| Module | Models |
|---|---|
| `CatalogImages` | pure operators: selection, import health, resolution of one target, aggregation, fault, the readiness reducer |
| `CatalogActivation` | the activation protocol: one reconciler and everything around it, and the inductive invariants |
| `ActivationLifecycle` | the abstract life of the activation record, which `CatalogActivation` implements |
| `CatalogSources` | what the catalog operator reads from administrators, and the objects it generates and repairs |
| `AIHub` | the AIHub reconciler, composed with the part of the catalog operator that shares state with it |
| `ModelRegistry` | the reconciler of one registry, its objects and their informers |
| `StorageMigration` | several operator processes that migrate the same objects |
| `MC...` | the constants of the TLC runs |
| `CatalogActivationProofs` | TLAPS: types, memory, persisting and failures of the activation protocol |
| `ActivationRefinementProofs` | TLAPS: readiness is earned, the refinement of `ActivationLifecycle`, failures stay down |
| `ContainmentProofs` | TLAPS: import faults are left by a success, scale-downs are justified |
| `AIHubProofs`, `ModelRegistryProofs`, `CatalogSourcesProofs`, `StorageMigrationProofs` | TLAPS: one module per component |

All modules treat caches alike: the API server's objects are one variable, the informers'
copies another, and an action `Sync` delivers an event and queues a request if a watch selects
it. A resource version is a Boolean, "the copy this write was made from is current"; a write
by anybody else clears it.

In `ModelRegistry` and `CatalogSources` the constant `Lagging` names the informers that may be
behind when the operators take a step; the others catch up at once. In `AIHub` it is a set of such
sets: any one of them may be behind together. Which ones lag is chosen per run so that the
hazard of that run can happen and the run still ends. The theorems hold for every choice.

### CatalogActivation

`spec` and `status` are the Catalog at the API server, `cache` the informer's copy, `stream` the
two ImageStreams, `dep` and `pod` the workload. `rec` is the running pass: program counter, the
generation it read, `base` (the code's `statusBefore`), `st` (the status in memory). `lock` says
whether the resource versions the pass holds are still current. `queue` is the work queue: one
deduplicated entry (`now`) and a timer (`later`). `count` holds the named bounds; `ghost` records
which attempts had a ready pod, and since when readiness has been recorded without
interruption. No action reads `ghost`. The constant `Created` gives the selections the Catalog was
created with, `SelectionsOf` those an edit may choose for each target.

The *data* is abstract: an attempt identity (a random nonce) is a number in the order of
persisting; the request fingerprint is the record of its inputs; a condition keeps status,
reason and generation; a pod is one of five phases by how `catalogPodFailure` and
`validatedCatalogWorkload` classify its container statuses; timestamps are ages that saturate
one tick after the deadline; the Deployment's status counts, conditions and endpoints are one
Boolean, `up`.

| Action | Code |
|---|---|
| `Begin`, `BeginFails` | `Reconcile` and `ensureCatalogResources` to the first patch: read, resolve (creating streams), prepare; and its early error returns |
| `Publish`, `PublishConflict`, `PublishFails` | the first `patchCatalogStatus`; a failed one may have been applied |
| `Apply`, `ApplyDeletes`, `ApplyFails` | the rest of `ensureCatalogResources`; deletion for immutable fields; an error before or after the Deployment |
| `Observe`, `ObserveFails` | `updateStatus` to its patch, with `observeActivation` |
| `Record`, `RecordConflict`, `RecordFails` | the second patch, of `updateStatus`, `handleReconcileErrors` or the fault path |
| `Contain`, `ContainFails`, `ScaleDown`, `ScaleDownConflict` | `containCatalogImageFailure`: the checks past the cache, then the locked patch |
| `EditSelection`, `EditRetry` | other clients of the CR |
| `RequestImport`, `ImportSucceeds`, `ImportFails` | OpenShift imports: failure as a condition or as an unusable digest |
| `DeploymentReports`, `PodStarts`, `PodStops`, `PodReports` | Deployment controller and kubelet, `Recreate` strategy |
| `Sync`, `PollFires`, `Tick`, `Restart` | informer, `RequeueAfter`, time, operator restart |

A status patch is a JSON merge patch: `Merge` keeps the stored value of every field the two
copies agree on, and replaces lists (the conditions) as a whole. An unchanged status is not
sent at all. Both matter: `stale_containment` rests on the second.

The refinement. `Lifecycle` instantiates `ActivationLifecycle` with the stored record (attempt,
state, last success), the attempts that had a validated ready pod, and the attempt the
Deployment carries. Passes, caches, patches, conflicts and restarts map to stuttering; a
published new attempt is `Request`, every other change of the record must be `Decide`, and the
workload moves only to recorded attempts.

### CatalogSources

`world` holds the user sources ConfigMaps, one labelled source, the HuggingFace secrets, the
postgres secret, the Auth CR, and what the operator derives from them: the catalog Deployment
(API keys in force, mounted source, password hash), the postgres Deployment, the admin
RoleBinding, and a set of generated objects that have drifted. A pass is `Begin` (discovery),
`ReadSecret`, `ReadSecretAgain` and `WriteSecret`, `CreateMap`, `ReadMap` and `WriteMap` for each ConfigMap in order,
`ApplyDeployment`, `ApplyAdminRoleBinding`, `ApplyPostgres`, `ApplyRest`; `Fails` ends it at
any of them. `ReadMap` and `WriteMap` are two steps because the code reads the ConfigMap twice.
Secrets are read past the cache, as in the code. The postgres secret is completed under the
resource version of the first read if there was one; if not, `createOrUpdate` reads it again
(`ReadSecretAgain`) and writes a generated one under the version found then. Administrators edit,
delete and create it at any moment. Several HuggingFace secrets may claim one
variable: the first by name wins.

### AIHub

`hub`, `cat` and `dep` are the AIHub, the Catalog and the two child Deployments, `ext` what the
catalog operator creates outside the Catalog's ownership, `view` and `stale` the informers. A
reconcile is `Begin` (finalizer, selector migration), `Deploy`, one of `CreateCatalog`,
`MigrateCatalog`, `KeepCatalog`, then `WriteStatus`; for a deleted AIHub `Release`, or
`DeleteCatalog`, `Check` and `TakeOver` step by step. The catalog operator (`OpBegin`, `OpStep`,
`OpReport`, `OpRelease`) creates the same resources and removes them in its own finalizer.

Its process (`op`) and its Deployment's availability (`dep`) are two things, as in the cluster. The
process starts and reconciles (`OpStarts`) before the readiness probe passes (`OpReady`); the probe
fails, or the Deployment is scaled to zero or removed, while the process runs on (`OpUnready`); the
process ends (`OpStops`), and only then the Deployment's status follows (`OpMissed`). So AIHub,
which sees the Deployment through a cache, can find an operator unavailable that is in the
middle of a pass. `raced`, which no action reads, records that a takeover began so.

Deployments have an identity: `uid` counts the objects of a name, a copy carries the `uid` it was
read with, and the Delete of the selector migration has it as a precondition (`SameObject`).

A run starts on an empty
cluster, next to a Catalog an administrator made, or over the install of an earlier release.

### ModelRegistry

`mr` is the registry, `mrSeen` the informer's copy, `world` its objects and workload. A pass is
`Begin`, then one of `AddFinalizer`, `MigrateProxy`, the resources (`ProvisionPostgres`,
`ApplyDeployment`, `ApplyPlain`, `ApplyGroup`, `ApplyGateway`, `ApplyRoute`, `DeleteOldCatalog`)
with `ReadStatus` and `ReportStatus`, or the finalizer (`CleanGroup`, `CleanRoute`, `Refetch`,
`Release`). `Fails` is an API error at any of them and sets Available to False, as
`handleReconcileErrors` does. A restart may change the gateway configuration.

### StorageMigration

Every process is a record: program counter, the objects still to migrate, the copy that was
read and whether it is current. `Decide`, `GetSvm`, `CreateSvm` and `Monitor` are the monitor and
the SVM strategy, `List`, `Get`, `Put` and `Verify` the manual one, each with its failing variant.
Users, the cluster's migrator, crashes and the deletion of the SVM object interleave.

### Simplifications

- `CatalogActivation`: reads of the Deployment and of pods are current; the CR's own copy is
  what may be stale (`StaleCache`), because the protocol's decisions are made on it. The
  Catalog carries its finalizer from the start and is not deleted (deletion is in `AIHub`). The
  two targets have ImageStreams of their own; nobody edits a managed stream's source.
- Events, messages and the normalisation of messages of old failures are left out.
- The runs use the selections the CRD admits; text that is none of the three forms is
  rejected by the CRD's pattern. The proofs cover it too.
- `CatalogSources`: a drift and its repair are membership in a set; the contents of sources are
  what the code tells apart (parses, lists the default source, number of edits).
- `AIHub`: the instances namespace is fixed and exists. The catalog operator's own pass is
  reduced to its finalizer, the resources no owner covers, and its verdict.
- `ModelRegistry`: one registry on OpenShift with an auto-provisioned database. Owned objects
  that only follow the spec are one (`plain`), written after the Deployment; the plain REST
  route, the deletion of the registry's own Deployment for immutable fields, status hosts,
  `specDefaults` and the update that clears runtime defaults, and the proxy ConfigMap are left
  out. When a pass that has re-read the registry fails, recording the failure is guarded by the
  currency of the newer copy.
- One reconciler per controller: the controllers run one worker per resource and the
  deployments enable leader election. The storage migration does not wait for leadership, so
  there several processes run.

## Runs

| Run | Bounds | Distinct states | Properties |
|---|---|---|---|
| `stale_reads` | lagging cache, one edit (pinned digest or retry annotation), fairness | 425,974 | `MemoryIsConsistent`, `ReadyIsEarned`, `StatusIsEarned`, `ImplementsLifecycle`, `EditsAreHonoured`, `UpIsReported` |
| `failures` | every pod phase, passing time, one API error, lost answer or restart, fairness | 218,342 | `PersistedFirst`, `FailedIsTerminal`, `FailedStaysDown`, `ResolvedRecoveryWindow`, `FailedIsContained`, `PendingIsDecided` |
| `imports` | catalog follows its stream, two import generations | 458,048 | `TypeOK`, `FaultIsLeftBySuccess`, `HealthyReimportKeepsAttempt`, `ScaleDownIsJustified` |
| `aihub` | one edit, outage, unready operator, API error or new verdict besides deletion and starts; the Catalog's or the registry Deployment's informer lags; fairness | 935,888 | `Consistent`, `NoLeakWithoutRace`, `ObservedIsDeployed`, `DataReadyIsEarned`, `MigratedSelectionIsKept`, `OnlyLegacyIsDeleted`, `TeardownEnds`, `StatusFollows` |
| `registry` | two edits, drifts, API errors or restarts; registry and Deployment informers lag; fairness | 621,179 | `FinalizerGuards`, `GoneMeansClean`, `DeletionEnds`, `ObjectsFollow`, `StatusFollows` |
| `storage_migration` | two processes, two objects, one user write, one fault, any number of crashes, fairness | 134,285 | `SuccessIsEarned`, `Progress`, `UserWritesSurvive`, `RestartsMigrate` |
| `catalog_sources` | two user ConfigMaps, two secrets for one variable, two edits, drifts or API errors; four informers lag; fairness | 628,889 | `TypeOK`, `PasswordIsKept`, `DeploymentFollows`, `AdminsFollow`, `ObjectsReturn` |

Why these bounds. One digest suffices: resolution only compares images, and the release
image is a second value. `MaxEdits` 1 puts an edit between any two steps of a pass, which is
what two patches have to survive. `MaxImports` 2 gives every order of failed, pending and
successful import around a pass. `Deadline` 1 tells a window that was kept from one that was
reset, as ages count one tick beyond it. In `registry` and `catalog_sources` two events let an
edit meet a failed pass, and a second edit arrive while the first is served. In `aihub` deletion,
starting operators and garbage collection are not counted, so one event already puts an outage or
an edit into the middle of provisioning and of teardown; the gateway domain is set from the second
generation on (`DomainGens`), so the HTTPRoute comes with an edit. Two processes and two objects in
`storage_migration` make one process write what the other has read, with a list half done.

The activation protocol's runs divide the hazards: a stale cache with edits, failing calls and
restarts with deadlines, and import orders. TLC does not finish within minutes on their
combinations. Those are covered by the theorems, which hold for every value of the bounds: all
invariants of the three runs, the refinement, `FailedIsTerminal`, `FailedStaysDown`,
`FaultIsLeftBySuccess` and `ScaleDownIsJustified` are proved with edits, errors, imports and time
together (the second and the last of these action properties for a cache that does not lag).

Between the runs every action fires. Deadlock is checked where something always remains to
be done; in `imports`, `aihub`, `registry` and `catalog_sources` a settled cluster without further
events really stops.

### Findings

Five runs are expected to be violated; each shows the code doing what a document or a
comment of the repository rules out:

- `stale_containment` (`FailedStaysDown`): with a lagging cache a pass can read the CR from
  before its own `Failed` record. If it computes the status it read, it sends no patch, meets no
  conflict, and applies the failed attempt with one replica. The next pass scales it down.
- `lost_source_edit` (`UserEditsSurvive`): while the old default source is stripped from a user
  sources ConfigMap, the copy that is written back comes from a first read and its resource
  version from a second one inside `CreateOrUpdate`. An edit between the two is overwritten
  without a conflict, although `docs/adding-custom-mcp-catalog-sources.md` says these maps are
  never overwritten.
- `catalog_collision` (`CatalogObjectsSurvive`): `deleteOldCatalogResources` checks ownership on
  the cached copy and deletes by name. An object the Catalog operator has taken over behind
  the cache is deleted; the function's comment says that must never happen.
- `takeover_race` (`NoLeak`): the catalog operator reconciles before its Deployment is Available,
  and while it is no longer. `catalogOperatorCanFinalize` then says that it cannot finalize, AIHub
  takes over, and the operator's running pass creates the HTTPRoute and the ClusterRoleBinding
  after AIHub has deleted them: they outlive the Catalog. The comment of
  `takeOverCatalogFinalization` says that it "never races a live operator". A copy of the Deployment
  from before it became available leads to the same. `NoLeakWithoutRace` (run `aihub`, theorem
  `TeardownLeaksNothing`) shows that this is the only way to a leak: an operator that comes back
  during a takeover, or stops in its own finalization, leaves nothing behind.
- `recovery_window` (`RecoveryWindow`): while the first import of a selected stream is pending the
  release image serves, and `prepareActivation` sets the recorded success back to `Pending` in every
  pass. The recovery window of `observeActivation` opens only from `Succeeded`, so the pod's first
  restart after the deadline fails the attempt. `docs/catalog-image-activation.md:87-90` promises
  the window without exception. With resolved images it does open (`ResolvedRecoveryWindow`).

### Further observations

Met while modelling, not stated as runs of their own:

- Ten minutes after `RecoveredAt` the recovery window resets even if the workload was not ready
  in between.
- The second status patch is a difference against the status from before the first one, so a
  pass that creates an attempt and outlasts its rollout can publish `Ready` over an activation
  record that is still `Pending`. A later pass corrects it.
- `createOrUpdatePostgresSecret` that finds no secret generates one and hands it to `createOrUpdate`,
  which reads again and takes the resource version of what it finds (`catalog_controller.go:1288`,
  `util.go:176-204`): a secret created between the two reads is overwritten with the generated
  password. The tests (`catalog_controller_test.go:796-864`) have a secret from before the pass
  only, and no document speaks of it, so `PasswordIsKept` states this one exception.
- A copy from before the Catalog's creation makes `cleanupOnDelete` release the AIHub. The Catalog
  and the operator's Deployment are then collected side by side; if the operator goes first, the
  Catalog keeps its finalizer and nobody is left to remove it. `NoLeak` speaks of an absent Catalog
  and does not see this.
- The manual storage migration reports success after writes that failed. `SuccessIsEarned` and
  `Progress` are about processes that met no error; `RestartsMigrate` shows that later starts finish.
- The early return of the postgres provisioning after a deletion leaves the database host of
  the registry Deployment unset for one pass. `ObjectsFollow` shows that it is repaired.
- An edit of `instancesNamespace` leaves the old Catalog behind. Taking the catalog-source
  label off a ConfigMap is selected by no watch predicate on the new object, so the source stays
  mounted until another event. The `<name>-auth-delegator` ClusterRoleBinding of a deleted
  registry is not removed.

## Fairness

`CatalogActivation`: `ReconcilerRuns` is weak fairness of the reconciler's steps: controller-runtime
serves its queue and every call returns. `PollFires`, `Sync` and `Tick` are weakly fair: timers,
watches, clock. `ScaleDownWins` is strong fairness of the scale-down: a patch that lost to a
write of the Deployment's status is retried, and the Deployment controller does not win every
time. The first and the last are spelled out as formulas over `rec.pc` and `dep.replicas` because
TLC would otherwise evaluate ENABLED of the large actions in every state. Nothing is assumed
of users, imports, the Deployment controller or pods, so a pod that never starts is part of
`PendingIsDecided`.

The other modules assume weak fairness of the same things: the reconciler's steps (failed
requests are queued again by the rate limiter, so a step that fails is followed by another
pass; failures are bounded by the event bound) and each informer. `AIHub` adds the catalog
operator's steps while it runs, that a deleted Deployment disappears, and that the status of a
Deployment follows the end of its process (`OpMissed`), which is what the Deployment controller
does; nothing is assumed of operators starting or becoming ready. `ModelRegistry` adds the rollout of a Deployment and the passing of time.
`StorageMigration` adds the cluster's migrator and that a process that is down starts again;
nothing is assumed about crashes, so `RestartsMigrate` only speaks of executions in which some
process runs to its end again and again. The conclusions are of the form "infinitely often"
because events stop; nothing then changes what they say.

## Proofs

| Module | Theorem | Statement |
|---|---|---|
| `CatalogActivationProofs` | `TypeCorrect` | `Spec => []TypeOK` |
| | `MemoryConsistent` | `Spec => []MemoryIsConsistent` |
| | `AttemptsPersistedFirst` | `Spec => []PersistedFirst` |
| | `FailureIsTerminal` | `Spec => FailedIsTerminal` |
| `ActivationRefinementProofs` | `EarnedIsKept` | `Spec => []StatusIsEarned` |
| | `ReadinessIsEarned` | `Spec => []ReadyIsEarned` |
| | `ProtocolImplementsLifecycle` | `Spec => ImplementsLifecycle` |
| | `FailureStaysDown` | `StaleCache = FALSE` implies `Spec => FailedStaysDown` |
| `ContainmentProofs` | `FaultsAreLeftBySuccess` | `Spec => FaultIsLeftBySuccess` |
| | `ScaleDownsAreJustified` | `StaleCache = FALSE` implies `Spec => ScaleDownIsJustified` |
| `AIHubProofs` | `ConsistencyIsKept` | `Spec => []Consistent` |
| | `TeardownLeaksNothing` | `Spec => []NoLeakWithoutRace` |
| | `ObservedMeansDeployed` | `Spec => []ObservedIsDeployed` |
| | `DataReadyMeansEarned` | `Spec => []DataReadyIsEarned` |
| | `SelectionIsKept` | `Spec => MigratedSelectionIsKept` |
| | `LegacyIsDeleted` | `Spec => OnlyLegacyIsDeleted` |
| `ModelRegistryProofs` | `FinalizerIsKept` | `Spec => []FinalizerGuards` |
| | `GoneIsClean` | `Spec => []GoneMeansClean` |
| `CatalogSourcesProofs` | `TypeCorrect` | `Spec => []TypeOK` |
| | `PasswordsAreKept` | `Spec => PasswordIsKept` |
| `StorageMigrationProofs` | `MigrationKeepsUserWrites` | `Spec => UserWritesSurvive` |
| | `ProgressIsKept` | `Spec => []Progress` |
| | `SuccessMeansMigrated` | `Spec => []SuccessIsEarned` |

They hold for all constants that satisfy the named assumptions: digests differ from the
reserved words, the deadline is positive, the bounds are naturals, lists are finite; there is a
registry to migrate, and there are enough passwords to generate a fresh one. Two theorems, of the
activation protocol, have a condition of their own, that the Catalog's informer is current when a
pass begins; for `FailedStaysDown` TLC has a counterexample without it (`stale_containment`).

**Layout.** Each module first has a type lemma per operator, then a lemma per action (or per
group of actions that touch the same part) that states what the action does to the variables
the invariant mentions, then the step lemma of the invariant, then the theorems. The inductive
invariants are defined beside the properties in the component's module, and TLC checks them apart
from the proofs: `MemoryIsConsistent` and `StatusIsEarned` in
`stale_reads`, `Consistent` in `aihub`, `FinalizerGuards` in `registry`, `Progress` in
`storage_migration`.

**Activation: memory.** `PersistedFirst` and `FailedIsTerminal` are not inductive: both depend on
what a pass holds in memory. `MemoryIsConsistent` adds it in three parts. `AttemptsBounded`: no
copy of the status (stored, cached, `base`, `st`) has an attempt above the number of persisted
ones, except the `st` of a pass that has not published, by one. `CacheIsCurrent`: a cache that has
caught up equals the stored status. `FailureIsCarried`: while the pass's resource version is
current and the stored attempt is `Failed`, either the memory is `Failed` with the same attempt,
or it is a newer attempt computed from exactly that status. The last part is the heart: it is
what the optimistic lock buys, and `PatchKeepsFailure` shows that a merge patch under it cannot
take a failure back, although it writes only the fields that changed. `FailureStep` needs the
second part where a pass begins, and the lost-answer case of `PublishFails`, where the lock is
gone.

**Activation: readiness.** `ReadyIsEarned` speaks of the stored status only, but what is stored
was computed from a copy, merged into what is stored, and computed again after the first
patch. `StatusIsEarned` follows it through. `Genuine` holds of every copy, the stale ones too: a
record has the images of its request, and `Succeeded` only for an attempt whose pod was ready.
`Claims` holds of what is stored and of what the pass has in memory: a Ready condition is of the
images and the attempt beside it and, if its generation is current, of the user's selections.
`Answers` ties a decision to the request that was read. `Continues` is about the two patches: under
a current resource version the pass is either before its first patch, and its record keeps the
stored attempt or is the next one (`Proposed`), or after it, and its record is of the stored
request with at most a success more (`Published`). The hard steps are the patches. A merge into
the very status the patch was computed from gives the new copy; but the second patch is a
difference against the status from before the *first* one, so it may leave the state and the
conditions of the first patch in place, and the claim of the mixture has to be shown from the
first patch's and the second's. A patch that is lost on the way back, or a stale copy without
any change, leaves what is stored or loses the lock.

**Activation: refinement.** `Moves` states, per action, how the stored record may change: not at
all, to the next attempt, or to a decision about the same attempt that the abstract `Decide`
allows; `StatusIsEarned` supplies that a recorded success had a ready pod and
`MemoryIsConsistent` that a failure is not taken back. `ImplementsLifecycle` follows by expanding
the abstract `Next` under the refinement mapping. It is the safety part; the abstract
specification states no fairness.

**Activation: failures stay down.** `FailedStaysDown` is a property of the Deployment, which a pass
writes from memory, so it needs that memory to be the stored record. `PassIsCurrent` says so for
a cache that does not lag: a pass publishes a change of what is stored and applies what it
published. An edit that takes the lock away in between changes the spec, not the record. With a
lagging cache the theorem fails, which is the finding `stale_containment`.

**Activation: faults and containment.** That a fault is left only by a success relates two stored
statuses, but what a pass writes was decided on a copy. `FaultsAreHeld` says that every copy
(stored, cached, `base`, `st`) reports an import fault as bad health and bad health as a block, and
that a pass which may still write either reports what is stored, or was computed from what is stored
and lifts its faults only for a success. `Usable` (a stream whose newest import is usable has a
usable digest) is what a success needs. The resolution of one target has a lemma per outcome. The
theorem holds for a lagging cache too. `ScaleDownIsJustified` is about the Deployment, as
`FailedStaysDown`, and uses `PassIsCurrent` in the same way; `ContainmentIsJustified` adds that a pass
about to contain has its reason stored, also when its first patch met a conflict or an error, that
an attempt for a pair that cannot be resolved is a failed one, and that a failure in memory is the
stored one as long as the attempt is.

**AIHub.** `Consistent` has a part per theorem. `HubGuards`: an old copy of the AIHub hides at most the
deletion, so no reconcile provisions without the finalizer. `Generations`: the generations that
are read only grow, and a status ready to be written is of children deployed since. `Verdicts`: no
copy of a report tells of a verdict that was not given. `OrderedTeardown`: while anything is left
to delete the Catalog has its finalizer, and whoever finalizes it works on resources that nobody
adds to; it holds unless a takeover began beside a live operator, and no informer has to be current
for it. `Deletions`: a deleted Catalog is not created again. `Identities`: a copy's UID is never ahead,
and a legacy copy with the UID of the present object means that this one is not a compatible one.
`SelectionIsKept` and `LegacyIsDeleted` are steps from `Consistent`: the resource version of the
migration's patch and the UID precondition of the delete do what a stale copy cannot.

**ModelRegistry.** That a gone registry is clean depends on which pass created what under which
copy. `FinalizerGuards` says that the informer follows the registry's life in order (a live copy
with the finalizer means the finalizer is still there, whether or not the deletion has been
seen), that a provisioning pass runs only under the finalizer, and that a finalizing pass knows
what it has deleted. One worker per registry is essential: nothing creates between the two
deletes and the release.

**CatalogSources.** `TypeOK` is not only bookkeeping here: two choices of the code have to exist. The
first secret by name is the least of a non-empty set of naturals (`Least`, by well-foundedness),
and a generated password differs from those in use (by counting). `PasswordIsKept` needs one fact
more (`OnlyTheirs`): a secret that is there while a pass is on the way to generate one was created
by an administrator, so the generated password replaces nobody's but theirs. Otherwise the secret
is only written under the resource version of the copy that was completed, and a password that
is set is kept.

**Storage migration.** That an Update never undoes a user's write depends on what the process
has read. `HeldIsCurrent` (in the proof module) says that a copy whose resource version is current
is a copy of the object as it is. It is inductive together with the types, because a write by anybody (a user,
the migrator, another process) clears the flag of every copy of that object: `LocalStep`
covers the steps that only move one process, and the writes have a lemma each. `Put` then
writes back the content it finds, so only users change contents. `Progress` adds what a process
without an error knows: a marked object is migrated, and an Update that lost to another write
can be skipped because whoever wrote stored the target version, so an exhausted list means that
nothing is left.

**Only model-checked.** `ResolvedRecoveryWindow` and `HealthyReimportKeepsAttempt`: action properties of
the activation protocol that need further invariants (plan below). Everything under fairness,
which this prover does not handle (nor ENABLED, nor induction over data). The five violations are
counterexamples of TLC.

## Plan

Done: the activation protocol with its abstract specification, AIHub with Catalog finalization,
ModelRegistry, the catalog's sources and generated objects, the storage migration; every
invariant the runs check, the refinement, and all but two action properties as theorems.

Left, in this order:

1. Proofs: `ResolvedRecoveryWindow` (ages in the record against the ghost clock) and
   `HealthyReimportKeepsAttempt` (the evidence of a resolution across two import generations).
2. Pure operators against reference definitions: pod failure classification, TLS arguments,
   capability detection, conversion and defaulting, content identities.
3. Two registries with one name, created at once in two namespaces.

## Not modelled

- Flag parsing and manager construction (`cmd`, `internal/setup`), environment defaults, generated
  code (`zz_generated.*`), templates and manifests: wiring and text without behaviour of their own.
- AIHub's release metadata (`aihub_releases.go`, `setReleaseStatus`) and the creation of the
  instances namespace: no state that another step reads.
- Deletions of legacy objects of the catalog (default ConfigMap, PVC, OAuth configuration):
  single idempotent deletes that are repeated in every pass.
- The content validator: sequential parsing without state. Its verdict is a pod phase in
  `CatalogActivation`. The TLS table: its failure is one of the failing steps.
- Validation and conversion of the API types: stateless field checks and copying. The proxy
  defaults are part of `MigrateProxy`, and the Catalog webhook is an obstacle of AIHub's create.
- Capability detection: its results are constants (`IsOpenShift`, `HasUserAPI`).
