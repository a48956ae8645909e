-------------------------- MODULE CatalogActivation --------------------------
(***************************************************************************)
(* The Catalog reconciler's activation protocol, as the steps of one        *)
(* reconciler interleaved with everything around it: users that edit the    *)
(* CR, ImageStream imports, the Deployment controller and its pod, time,    *)
(* API errors and operator restarts.                                        *)
(*                                                                          *)
(* A reconcile is Begin (read, resolve, prepare), Publish (first status     *)
(* patch), Apply (workload), Observe, Record (second status patch) and, for *)
(* a failed attempt or a faulty import, Contain and ScaleDown.              *)
(*                                                                          *)
(* Kubernetes optimistic locking is modelled by lock: lock.cat (lock.dep)   *)
(* says that the resource version the reconciler holds of the Catalog (the  *)
(* Deployment) is still the current one. Attempt identities, random nonces  *)
(* in the code, are numbered in the order they are persisted. Times are     *)
(* kept as ages that saturate one tick after the ten-minute Deadline.       *)
(***************************************************************************)
EXTENDS CatalogImages

CONSTANTS
    Created,        \* the specs the CR may be created with: [sel, retry]
    SelectionsOf,   \* [Targets -> SUBSET Selection]: the edits users make
    Retries,        \* values of the retry-activation annotation
    Deadline,       \* the ten minutes of the activation deadline, in ticks
    StaleCache,     \* the informer cache may lag behind the API server
    TimePasses,     \* FALSE: every behaviour fits into one tick
    MaxEdits,       \* bound: user edits of the Catalog
    MaxImports,     \* bound: import generations of each stream
    PodOutcomes,    \* bound: the phases pods reach
    MaxFaults       \* bound: API errors and operator restarts

ASSUME CreatedAssumption ==
    Created \subseteq [sel : [Targets -> Selection], retry : Retries]
ASSUME SelectionsAssumption ==
    SelectionsOf \in [Targets -> SUBSET Selection]
ASSUME DeadlineAssumption == Deadline \in Nat \ {0}
ASSUME StaleCacheAssumption == StaleCache \in BOOLEAN
ASSUME TimeAssumption == TimePasses \in BOOLEAN
ASSUME BoundsAssumption ==
    /\ MaxEdits \in Nat /\ MaxImports \in Nat
    /\ MaxFaults \in Nat
    /\ PodOutcomes \subseteq {"retrying", "ready", "fatal"}
ASSUME RetriesAssumption == Retries # {}

VARIABLES
    spec,       \* Catalog CR: [gen, sel, retry]
    status,     \* Catalog CR: persisted status
    cache,      \* the informer's copy of both, and whether it is current
    stream,     \* ImageStreams, by target
    dep,        \* the catalog Deployment
    pod,        \* its pod
    rec,        \* the reconciler: program counter and locals
    lock,       \* are the resource versions it holds current?
    queue,      \* work queue: [now, later]
    count,      \* bounds used so far: [edits, attempts, faults]
    ghost       \* observation only: [proven, seenReady]

vars == <<spec, status, cache, stream, dep, pod, rec, lock, queue, count, ghost>>

-----------------------------------------------------------------------------
(***************************************************************************)
(* Values                                                                   *)
(***************************************************************************)
Age == 0 .. Deadline + 1
Never == Deadline + 2               \* no such timestamp
Older(a) == IF a <= Deadline THEN a + 1 ELSE a

CatalogSpec == [gen : Nat, sel : [Targets -> Selection], retry : Retries]

\* The request fingerprint: every input of the hash that can change while the
\* process runs (the UID and the runtime images cannot).
Request ==
    [sel : [Targets -> Selection], images : [Targets -> Image],
     st : TruthValue \cup {"None"}, reason : Reason,
     evidence : [Targets -> [st : TruthValue \cup {"None"}, gen : Nat]],
     legacy : BOOLEAN, retry : Retries]

\* status.activation. Attempt 0 stands for nil, last is the attempt recorded in
\* lastSuccessful; requestedImages and images are always equal.
Activation ==
    [attempt : Nat, request : Request, images : [Targets -> Image],
     state : {"None", "Pending", "Succeeded", "Failed"},
     reason : {"None", "ActivationPending", "Import", "WorkloadValidated",
               "Retrying", "TimedOut", "Invalid"},
     started : 0 .. Never, recovered : 0 .. Never, last : Nat]

NoRequest ==
    [sel |-> [t \in Targets |-> ""], images |-> [t \in Targets |-> "release"],
     st |-> "None", reason |-> "", evidence |-> [t \in Targets |-> NoEvidence],
     legacy |-> FALSE, retry |-> CHOOSE r \in Retries : TRUE]

NoActivation ==
    [attempt |-> 0, request |-> NoRequest,
     images |-> [t \in Targets |-> "release"], state |-> "None",
     reason |-> "None", started |-> Never, recovered |-> Never, last |-> 0]

\* The conditions list. A merge patch replaces a list as a whole.
Conds ==
    [res : [Targets -> Condition], health : [Targets -> Condition],
     resolved : Condition, blocked : Condition, workload : Condition,
     degraded : Condition, actReady : Condition, actFailed : Condition,
     ready : Condition]

NoConds ==
    [res |-> [t \in Targets |-> NoCond], health |-> [t \in Targets |-> NoCond],
     resolved |-> NoCond, blocked |-> NoCond, workload |-> NoCond,
     degraded |-> NoCond, actReady |-> NoCond, actFailed |-> NoCond,
     ready |-> NoCond]

\* status: observedGeneration, resolvedImages, activation, conditions.
Status ==
    [obs : Nat, images : [Targets -> Image \cup {"none"}],
     act : Activation, conds : Conds]

NoStatus ==
    [obs |-> 0, images |-> NoImages, act |-> NoActivation, conds |-> NoConds]

\* The Deployment: the attempt annotation and the images of its template, the
\* replica count, and in up what its status adds up to: the controller has
\* observed the current template and reports it available, with updated and
\* ready replicas and ready endpoints past the cooldown. Attempt 0: no Deployment.
Deployment ==
    [attempt : Nat, images : [Targets -> Image], replicas : 0 .. 1, up : BOOLEAN]

NoDeployment ==
    [attempt |-> 0, images |-> [t \in Targets |-> "release"], replicas |-> 0,
     up |-> FALSE]

\* The pod, by what its container statuses say: "retrying" is an image pull that
\* is retried or a catalog process that exited, "fatal" any failure that is not
\* retried, "ready" a validated pod with a ready catalog container.
Phase == {"none", "starting", "retrying", "ready", "fatal"}
Pod == [attempt : Nat, images : [Targets -> Image], phase : Phase]
NoPod == [attempt |-> 0, images |-> [t \in Targets |-> "release"],
          phase |-> "none"]

\* The reconciler. mode is how the pass ends: "normal", "fault" (images
\* unavailable) or "error" (handleReconcileErrors and the like); base is
\* statusBefore, st the status in memory, err an error to return, saw whether
\* the pass found the attempt's workload validated and ready.
PC == {"idle", "publish", "apply", "observe", "record", "contain", "scale"}
Reconciler ==
    [pc : PC, mode : {"normal", "fault", "error"}, gen : Nat, base : Status,
     st : Status, err : BOOLEAN, saw : BOOLEAN]

Idle ==
    [pc |-> "idle", mode |-> "normal", gen |-> 0, base |-> NoStatus,
     st |-> NoStatus, err |-> FALSE, saw |-> FALSE]

-----------------------------------------------------------------------------
(***************************************************************************)
(* Resolution and preparation: what a pass computes before it writes        *)
(***************************************************************************)
AppliedImage(t) == IF dep.attempt = 0 THEN "release" ELSE dep.images[t]

\* How the API calls made for each target end.
IOResults == [Targets -> IOResult]
AllOK == [t \in Targets |-> "ok"]

\* ensureCatalogDataImageStreamForSource creates the stream a selection follows.
Ensured(sp, io) ==
    [t \in Targets |->
        IF Tracks(sp.sel[t]) /\ io[t] # "streamErr" /\ stream[t].gen = 0
        THEN [stream[t] EXCEPT !.gen = 1] ELSE stream[t]]

Outcomes(sp, st, io) ==
    [t \in Targets |->
        ResolveTarget(t, sp.sel[t], sp.gen, st, Ensured(sp, io)[t],
                      AppliedImage(t), io[t])]

\* An error is met only where the call is made: by a followed stream, and by
\* the read of the applied image when nothing has been imported yet.
IOErrorsMet(out, io) ==
    \A t \in Targets : io[t] # "ok" =>
        out[t].res.reason \in {"ImageStreamUnavailable", "AppliedImageReadFailed"}

Faulty(out) == \E t \in Targets : IsFault(out[t].res, out[t].health)

Reduce(st, gen) ==
    [st EXCEPT !.obs = gen, !.conds = ReduceConds(st.conds, st.act, gen)]

\* The status after resolveCatalogDataImages.
Resolved(st, out, gen) ==
    LET agg    == Aggregate([t \in Targets |-> out[t].res], gen)
        images == IF agg.st = "True"
                  THEN [t \in Targets |-> out[t].image] ELSE NoImages
        conds  == [st.conds EXCEPT
                     !.res      = [t \in Targets |-> out[t].res],
                     !.health   = [t \in Targets |-> out[t].health],
                     !.resolved = agg,
                     !.blocked  = Cond(Truth(Faulty(out)), "", gen),
                     !.workload = IF images # st.images
                                  THEN Cond("False", "ImagesUpdating", gen)
                                  ELSE @]
    IN  Reduce([st EXCEPT !.images = images, !.conds = conds], gen)

RequestOf(sp, out, st) ==
    LET images == [t \in Targets |-> out[t].image]
    IN  [sel |-> sp.sel, images |-> images,
         st |-> st.conds.resolved.st, reason |-> st.conds.resolved.reason,
         evidence |-> [t \in Targets |-> out[t].evidence],
         legacy |-> AllowLegacyRuntimeFile(sp.sel, images), retry |-> sp.retry]

\* Bug: the retry annotation and the import evidence are not part of the request.
IsNewRequestBySelection(act, req) ==
    act.attempt = 0 \/ act.request.sel # req.sel

IsNewRequest(act, req) == act.attempt = 0 \/ act.request # req

\* A new request gets a fresh attempt; the success record is carried over.
NewAttempt(act, req, id) ==
    [attempt |-> id, request |-> req, images |-> req.images,
     state |-> "Pending", reason |-> "ActivationPending",
     started |-> 0, recovered |-> Never, last |-> act.last]

\* A failure is terminal for its request; an unresolved pair is not ready.
Unresolved(act, resolved) ==
    IF resolved.st = "True" \/ act.state = "Failed" THEN act
    ELSE [act EXCEPT
            !.reason = "Import",
            !.state  = IF resolved.st = "False"
                          /\ resolved.reason # "NoSuccessfulImport"
                       THEN "Failed" ELSE "Pending"]

\* prepareActivation, on the status st of a resolved pass.
Prepared(st, req, gen, id) ==
    LET act == IF IsNewRequest(st.act, req)
               THEN NewAttempt(st.act, req, id) ELSE st.act
    IN  Reduce([st EXCEPT !.act = Unresolved(act, st.conds.resolved)], gen)

-----------------------------------------------------------------------------
(***************************************************************************)
(* Observation of the workload                                              *)
(***************************************************************************)
\* matchesCatalogImages and the attempt annotation select the pod.
PodOf(act) ==
    /\ pod.phase # "none"
    /\ pod.attempt = act.attempt
    /\ pod.images = dep.images

\* catalogActivationFailure, by how observeActivation treats it.
PodFailure(act) ==
    IF dep.attempt = 0 \/ ~PodOf(act) THEN "none"
    ELSE IF pod.phase = "fatal" THEN "fatal"
    ELSE IF pod.phase = "retrying" THEN "retry"
    ELSE "none"

\* checkDeploymentAvailability; NoImages when no pair is resolved.
DeploymentAvailable(images) ==
    /\ dep.attempt # 0 /\ dep.replicas = 1
    /\ images # NoImages => dep.images = images
    /\ dep.up

\* validatedCatalogWorkload: the Deployment and the pod carry the attempt.
Validated(act) ==
    /\ dep.attempt = act.attempt
    /\ DeploymentAvailable(act.images)
    /\ PodOf(act) /\ pod.phase = "ready"

\* Bug: a restart after a success keeps the deadline of the first activation.
RecoveryStartNeverReset(act) == act.started

\* The recovery deadline starts at the first fault after a success, or after
\* ten uninterrupted healthy minutes.
RecoveryStart(act) ==
    IF act.state = "Succeeded"
       /\ (act.recovered = Never \/ act.recovered >= Deadline)
    THEN 0 ELSE act.started

Retrying(act) ==
    LET late == RecoveryStart(act) > Deadline
    IN  [act EXCEPT
            !.started   = RecoveryStart(act),
            !.recovered = IF act.state = "Succeeded" THEN Never ELSE @,
            !.state     = IF late THEN "Failed" ELSE "Pending",
            !.reason    = IF late THEN "TimedOut" ELSE "Retrying"]

Succeeded(act) ==
    [act EXCEPT
        !.recovered = IF act.state = "Pending" /\ act.last = act.attempt
                      THEN 0 ELSE @,
        !.state = "Succeeded", !.reason = "WorkloadValidated",
        !.last = act.attempt]

\* Bug: a recorded failure is observed again.
ObservedActivationAgain(act, failure, ready) ==
    IF failure = "fatal"
    THEN [act EXCEPT !.state = "Failed", !.reason = "Invalid"]
    ELSE IF ready THEN Succeeded(act)
    ELSE IF failure = "retry" THEN Retrying(act)
    ELSE act

\* Bug: a pending attempt is never timed out.
ObservedActivationNoTimeout(act, failure, ready) ==
    IF act.state = "Failed" THEN act
    ELSE IF failure = "fatal"
    THEN [act EXCEPT !.state = "Failed", !.reason = "Invalid"]
    ELSE IF ready THEN Succeeded(act)
    ELSE IF failure = "retry" THEN Retrying(act)
    ELSE act

\* observeActivation on the record.
ObservedActivation(act, failure, ready) ==
    IF act.state = "Failed" THEN act
    ELSE IF failure = "fatal"
    THEN [act EXCEPT !.state = "Failed", !.reason = "Invalid"]
    ELSE IF ready THEN Succeeded(act)
    ELSE IF failure = "retry" THEN Retrying(act)
    ELSE IF act.started > Deadline /\ act.state = "Pending"
    THEN [act EXCEPT !.state = "Failed", !.reason = "TimedOut"]
    ELSE act

\* Bug: the workload condition is not stamped with the generation.
ObservedUnstamped(st, gen) ==
    LET ready == Validated(st.act)
        act   == ObservedActivation(st.act, PodFailure(st.act), ready)
        conds == [st.conds EXCEPT
                    !.actReady = Cond(Truth(act.state = "Succeeded" /\ ready), "", gen),
                    !.workload = IF DeploymentAvailable(st.images)
                                 THEN Cond("True", "DeploymentAvailable", 0)
                                 ELSE Cond("False", "DeploymentUnavailable", 0)]
    IN  Reduce([st EXCEPT !.act = act, !.conds = conds], gen)

\* updateStatus up to its patch: the failure, the activation, its conditions
\* and the workload condition.
Observed(st, gen) ==
    LET ready == Validated(st.act)
        act   == ObservedActivation(st.act, PodFailure(st.act), ready)
        conds == [st.conds EXCEPT
                    !.actReady  = Cond(Truth(act.state = "Succeeded" /\ ready),
                                       "", gen),
                    !.actFailed = IF act.state # "Pending" \/ @.st = "None"
                                  THEN Cond(Truth(act.state = "Failed"), "", gen)
                                  ELSE @,
                    !.workload  = IF DeploymentAvailable(st.images)
                                  THEN Cond("True", "DeploymentAvailable", gen)
                                  ELSE Cond("False", "DeploymentUnavailable", gen)]
    IN  Reduce([st EXCEPT !.act = act, !.conds = conds], gen)

-----------------------------------------------------------------------------
(***************************************************************************)
(* The status patch: a JSON merge patch of the difference between two       *)
(* copies, under the optimistic lock                                        *)
(***************************************************************************)
Keep(cur, b, a) == IF a = b THEN cur ELSE a
KeepEach(cur, b, a) == [t \in Targets |-> Keep(cur[t], b[t], a[t])]

MergeActivation(cur, b, a) ==
    IF a = b THEN cur
    ELSE IF b.attempt = 0 THEN a
    ELSE [attempt   |-> Keep(cur.attempt, b.attempt, a.attempt),
          request   |-> Keep(cur.request, b.request, a.request),
          images    |-> KeepEach(cur.images, b.images, a.images),
          state     |-> Keep(cur.state, b.state, a.state),
          reason    |-> Keep(cur.reason, b.reason, a.reason),
          started   |-> Keep(cur.started, b.started, a.started),
          recovered |-> Keep(cur.recovered, b.recovered, a.recovered),
          last      |-> Keep(cur.last, b.last, a.last)]

Merge(cur, b, a) ==
    [obs    |-> Keep(cur.obs, b.obs, a.obs),
     images |-> KeepEach(cur.images, b.images, a.images),
     act    |-> MergeActivation(cur.act, b.act, a.act),
     conds  |-> Keep(cur.conds, b.conds, a.conds)]

\* Bug: the patch carries no resource version.
PatchAllowedUnlocked(b, a) == TRUE

\* An unchanged status is not patched at all, so it cannot conflict either.
PatchAllowed(b, a) == a = b \/ lock.cat

Patched(b, a) == IF a = b THEN status ELSE Merge(status, b, a)

\* Every write of the CR reaches the informer: at once, or when it catches up.
Informed(sp, st) ==
    cache' = IF StaleCache THEN [cache EXCEPT !.fresh = FALSE]
             ELSE [spec |-> sp, status |-> st, fresh |-> TRUE]

\* A new attempt starts without any readiness observed of it.
SinceReady(new) ==
    IF new.act.attempt = status.act.attempt THEN ghost.seenReady ELSE Never

\* A second patch records what the pass saw of the workload.
SeenReady(new) ==
    IF rec.mode # "normal" THEN SinceReady(new)
    ELSE IF ~rec.saw THEN Never
    ELSE IF ghost.seenReady = Never THEN 0 ELSE ghost.seenReady

\* The watch event of a write queues the CR (with a lagging cache: on Sync).
WriteStatus(new) ==
    /\ status' = new
    /\ IF new = status THEN UNCHANGED cache ELSE Informed(spec, new)

\* Bug: a request that arrives while a pass runs is dropped.
WakeWhenIdle(wake, later) ==
    queue' = [now |-> queue.now \/ (wake /\ rec.pc = "idle"),
              later |-> queue.later \/ later]

\* The work queue: one entry, deduplicated, and a timer.
Wake(wake, later) ==
    queue' = [now |-> queue.now \/ wake, later |-> queue.later \/ later]

OwnWrite(new) == new # status /\ ~StaleCache

Budget == count.faults < MaxFaults
Spend == count' = [count EXCEPT !.faults = @ + 1]

\* The attempts persisted once new is written.
Persisted(new) ==
    IF new.act.attempt > count.attempts THEN new.act.attempt ELSE count.attempts

-----------------------------------------------------------------------------
(***************************************************************************)
(* The reconciler                                                           *)
(***************************************************************************)
\* Reconcile up to the first status patch: read the CR from the cache, resolve
\* the images (reconciling the streams), prepare the activation.
Begin ==
    /\ rec.pc = "idle" /\ queue.now
    /\ \E io \in IOResults :
        LET sp  == cache.spec
            out == Outcomes(sp, cache.status, io)
            st  == Resolved(cache.status, out, sp.gen)
            new == Prepared(st, RequestOf(sp, out, st), sp.gen,
                            count.attempts + 1)
        IN  /\ io # AllOK => Budget
            /\ IOErrorsMet(out, io)
            /\ rec' = [pc |-> "publish",
                       mode |-> IF Faulty(out) THEN "fault" ELSE "normal",
                       gen |-> sp.gen, base |-> cache.status, st |-> new,
                       err |-> io # AllOK, saw |-> FALSE]
            /\ stream' = Ensured(sp, io)
            /\ IF io = AllOK THEN UNCHANGED count ELSE Spend
    /\ queue' = [queue EXCEPT !.now = FALSE]
    /\ lock' = [lock EXCEPT !.cat = cache.fresh]
    /\ UNCHANGED <<spec, status, cache, dep, pod, ghost>>

\* handleReconcileErrors up to its patch.
Unavailable(st, gen) ==
    Reduce([st EXCEPT !.conds.workload =
              Cond("False", "ResourcesUnavailable", gen)], gen)

\* An error before prepareActivation: the auth configuration or the discovery
\* of sources (nothing resolved yet), or the proxy TLS profile (images resolved).
BeginFails ==
    /\ rec.pc = "idle" /\ queue.now /\ Budget
    /\ \E resolved \in BOOLEAN :
        LET sp  == cache.spec
            out == Outcomes(sp, cache.status, AllOK)
            st  == IF resolved THEN Resolved(cache.status, out, sp.gen)
                   ELSE cache.status
        IN  /\ resolved => ~Faulty(out)
            /\ rec' = [pc |-> "record", mode |-> "error", gen |-> sp.gen,
                       base |-> cache.status, err |-> TRUE, saw |-> FALSE,
                       st |-> Unavailable(st, sp.gen)]
            /\ stream' = IF resolved THEN Ensured(sp, AllOK) ELSE stream
    /\ queue' = [queue EXCEPT !.now = FALSE]
    /\ lock' = [lock EXCEPT !.cat = cache.fresh]
    /\ Spend
    /\ UNCHANGED <<spec, status, cache, dep, pod, ghost>>

\* The pass returns; an error requeues it, RequeueAfter polls later.
Finish(wake, later) ==
    /\ rec' = Idle
    /\ lock' = [cat |-> TRUE, dep |-> TRUE]
    /\ Wake(wake, later)

\* The first status patch: the attempt is persisted before the workload changes.
Publish ==
    /\ rec.pc = "publish"
    /\ PatchAllowed(rec.base, rec.st)
    /\ LET new == Patched(rec.base, rec.st)
       IN  /\ WriteStatus(new)
           /\ rec' = [rec EXCEPT
                        !.pc = IF rec.mode = "fault" THEN "contain" ELSE "apply",
                        !.st = IF rec.st = rec.base THEN rec.st ELSE new]
           /\ count' = [count EXCEPT !.attempts = Persisted(new)]
           /\ ghost' = [ghost EXCEPT !.seenReady = SinceReady(new)]
           /\ Wake(OwnWrite(new), FALSE)
    /\ UNCHANGED <<spec, stream, dep, pod, lock>>

\* Bug: the pass goes on to the workload after a conflict.
PublishConflictIgnored ==
    /\ rec.pc = "publish"
    /\ ~PatchAllowed(rec.base, rec.st)
    /\ rec' = [rec EXCEPT !.pc = IF rec.mode = "fault" THEN "contain" ELSE "apply"]
    /\ UNCHANGED <<spec, status, cache, stream, dep, pod, lock, queue, count, ghost>>

\* A conflict returns the error before any workload change; the patch that
\* handleReconcileErrors tries with the same resource version conflicts too.
\* With faulty images containment still runs first.
PublishConflict ==
    /\ rec.pc = "publish"
    /\ ~PatchAllowed(rec.base, rec.st)
    /\ IF rec.mode = "fault"
       THEN rec' = [rec EXCEPT !.pc = "contain"] /\ UNCHANGED <<lock, queue>>
       ELSE Finish(TRUE, FALSE)
    /\ UNCHANGED <<spec, status, cache, stream, dep, pod, count, ghost>>

\* Bug: an error of the first patch other than a conflict is only logged.
PublishFailsIgnored ==
    /\ rec.pc = "publish" /\ Budget
    /\ rec' = [rec EXCEPT !.pc = IF rec.mode = "fault" THEN "contain" ELSE "apply"]
    /\ Spend
    /\ UNCHANGED <<spec, status, cache, stream, dep, pod, lock, queue, ghost>>

\* The first patch fails otherwise, with or without having reached the API
\* server: no workload change, but handleReconcileErrors (or, with faulty
\* images, the end of containment) patches again. A patch that was applied left
\* the reconciler with an old resource version.
PublishFails ==
    /\ rec.pc = "publish" /\ Budget
    /\ PatchAllowed(rec.base, rec.st) /\ rec.st # rec.base
    /\ \E new \in {status, Patched(rec.base, rec.st)} :
        /\ WriteStatus(new)
        /\ lock' = [lock EXCEPT !.cat = new = status]
        /\ count' = [count EXCEPT !.attempts = Persisted(new),
                                  !.faults = @ + 1]
        /\ ghost' = [ghost EXCEPT !.seenReady = SinceReady(new)]
        /\ Wake(OwnWrite(new), FALSE)
    /\ rec' = IF rec.mode = "fault" THEN [rec EXCEPT !.pc = "contain"]
              ELSE [rec EXCEPT !.pc = "record", !.mode = "error", !.err = TRUE,
                               !.st = Unavailable(rec.st, rec.gen)]
    /\ UNCHANGED <<spec, stream, dep, pod>>

\* Bug: a failed attempt keeps its replica.
DesiredReplicasUnblocked(act) == 1

\* Bug: a pair whose import is merely pending is taken for a failed one.
DesiredReplicasResolved(act) ==
    IF act.state = "Failed" \/ act.reason = "Import" THEN 0 ELSE 1

DesiredReplicas(act) == IF act.state = "Failed" THEN 0 ELSE 1

\* Bug: the template carries the pair of status.resolvedImages, nil included.
AppliedDeploymentFromStatus(act) ==
    [dep EXCEPT !.attempt = act.attempt, !.images = rec.st.images,
                !.replicas = DesiredReplicas(act), !.up = FALSE]

\* createOrUpdateDeployment: the template of the attempt, unless unchanged.
AppliedDeployment(act) ==
    IF dep.attempt = act.attempt /\ dep.images = act.images
       /\ dep.replicas = DesiredReplicas(act)
    THEN dep
    ELSE [dep EXCEPT !.attempt = act.attempt, !.images = act.images,
                     !.replicas = DesiredReplicas(act), !.up = FALSE]

\* The workload resources; the Deployment is the one the protocol depends on.
Apply ==
    /\ rec.pc = "apply"
    /\ dep' = AppliedDeployment(rec.st.act)
    /\ rec' = [rec EXCEPT !.pc = "observe"]
    /\ Wake(dep' # dep, FALSE)
    /\ UNCHANGED <<spec, status, cache, stream, pod, lock, count, ghost>>

\* Immutable fields changed: the Deployment is deleted and the next pass
\* creates it.
ApplyDeletes ==
    /\ rec.pc = "apply" /\ Budget
    /\ dep.attempt # 0
    /\ dep' = NoDeployment
    /\ rec' = [rec EXCEPT !.pc = "observe"]
    /\ Wake(TRUE, FALSE)
    /\ Spend
    /\ UNCHANGED <<spec, status, cache, stream, pod, lock, ghost>>

\* Some resource cannot be applied, before or after the Deployment.
ApplyFails ==
    /\ rec.pc = "apply" /\ Budget
    /\ dep' \in {dep, AppliedDeployment(rec.st.act)}
    /\ rec' = [rec EXCEPT
                 !.pc = "record", !.mode = "error", !.err = TRUE,
                 !.st = Unavailable(rec.st, rec.gen)]
    /\ Wake(dep' # dep, FALSE)
    /\ Spend
    /\ UNCHANGED <<spec, status, cache, stream, pod, lock, ghost>>

Observe ==
    /\ rec.pc = "observe"
    /\ rec' = [rec EXCEPT !.pc = "record", !.st = Observed(rec.st, rec.gen),
                          !.saw = Validated(rec.st.act)]
    /\ UNCHANGED <<spec, status, cache, stream, dep, pod, lock, queue, count,
                   ghost>>

\* The workload or the pods cannot be read.
ObserveFails ==
    /\ rec.pc = "observe" /\ Budget
    /\ \E conds \in
          {[rec.st.conds EXCEPT !.workload =
               Cond("Unknown", "WorkloadStatusUnknown", rec.gen)],
           [rec.st.conds EXCEPT !.workload =
               Cond("Unknown", "ActivationStatusUnknown", rec.gen)],
           [rec.st.conds EXCEPT !.actReady =
               Cond("False", "ActivationStatusUnknown", rec.gen)]} :
         /\ conds.actReady # rec.st.conds.actReady =>
               rec.st.act.state # "Failed" /\ PodFailure(rec.st.act) # "fatal"
         /\ rec' = [rec EXCEPT
                   !.pc = "record", !.mode = "error", !.err = TRUE,
                   !.st = Reduce([rec.st EXCEPT !.conds = conds], rec.gen)]
    /\ Spend
    /\ UNCHANGED <<spec, status, cache, stream, dep, pod, lock, queue, ghost>>

\* Reconcile polls an unavailable workload and a pending attempt.
Poll(st) == st.conds.workload.st # "True" \/ st.act.state = "Pending"

\* The second status patch. Its difference is taken against the status read at
\* the start of the pass, its resource version is that of the first patch.
Record ==
    /\ rec.pc = "record"
    /\ PatchAllowed(rec.base, rec.st)
    /\ LET new == Patched(rec.base, rec.st)
           st  == IF rec.st = rec.base THEN rec.st ELSE new
       IN  /\ WriteStatus(new)
           /\ IF rec.mode = "normal" /\ st.act.state = "Failed"
              THEN /\ rec' = [rec EXCEPT !.pc = "contain", !.st = st]
                   /\ Wake(OwnWrite(new), FALSE)
                   /\ UNCHANGED lock
              ELSE Finish(rec.err \/ OwnWrite(new),
                          rec.mode = "normal" /\ Poll(st))
           /\ count' = [count EXCEPT !.attempts = Persisted(new)]
           /\ ghost' = [ghost EXCEPT !.seenReady = SeenReady(new)]
    /\ UNCHANGED <<spec, stream, dep, pod>>

RecordConflict ==
    /\ rec.pc = "record"
    /\ ~PatchAllowed(rec.base, rec.st)
    /\ Finish(TRUE, FALSE)
    /\ UNCHANGED <<spec, status, cache, stream, dep, pod, count, ghost>>

\* The second patch fails otherwise; it may have been applied all the same.
\* Nothing else of the pass runs, containment included.
RecordFails ==
    /\ rec.pc = "record" /\ Budget
    /\ PatchAllowed(rec.base, rec.st) /\ rec.st # rec.base
    /\ \E new \in {status, Patched(rec.base, rec.st)} :
        /\ WriteStatus(new)
        /\ count' = [count EXCEPT !.attempts = Persisted(new),
                                  !.faults = @ + 1]
        /\ ghost' = [ghost EXCEPT !.seenReady =
                       IF new = status THEN @ ELSE SeenReady(new)]
    /\ Finish(TRUE, FALSE)
    /\ UNCHANGED <<spec, stream, dep, pod>>

\* currentAttempt: the persisted attempt, read past the cache.
SameAttempt(act) ==
    /\ status.act.attempt # 0
    /\ status.act.attempt = act.attempt
    /\ status.act.request = act.request

\* What follows containment: the second patch if it is still to come (faulty
\* images), the end of the pass otherwise.
AfterContain(err, event) ==
    IF rec.mode = "fault"
    THEN /\ rec' = [rec EXCEPT
                      !.pc = "record", !.err = rec.err \/ err,
                      !.st = IF err
                             THEN Reduce([rec.st EXCEPT !.conds.workload =
                                    Cond("Unknown", "CatalogContainmentFailed",
                                         rec.gen)], rec.gen)
                             ELSE Reduce(rec.st, rec.gen)]
         /\ lock' = [lock EXCEPT !.dep = TRUE]
         /\ Wake(event, FALSE)
    ELSE Finish(err \/ event, ~err /\ Poll(rec.st))

\* containCatalogImageFailure up to its patch: both checks and the read.
Contain ==
    /\ rec.pc = "contain"
    /\ IF SameAttempt(rec.st.act) /\ dep.attempt # 0 /\ dep.replicas # 0
       THEN /\ rec' = [rec EXCEPT !.pc = "scale"]
            /\ lock' = [lock EXCEPT !.dep = TRUE]
            /\ UNCHANGED queue
       ELSE AfterContain(FALSE, FALSE)
    /\ UNCHANGED <<spec, status, cache, stream, dep, pod, count, ghost>>

ContainFails ==
    /\ rec.pc = "contain" /\ Budget
    /\ AfterContain(TRUE, FALSE)
    /\ Spend
    /\ UNCHANGED <<spec, status, cache, stream, dep, pod, ghost>>

\* The scale-down patch, under the Deployment's optimistic lock.
ScaleDown ==
    /\ rec.pc = "scale"
    /\ lock.dep
    /\ dep' = [dep EXCEPT !.replicas = 0, !.up = FALSE]
    /\ AfterContain(FALSE, TRUE)
    /\ UNCHANGED <<spec, status, cache, stream, pod, count, ghost>>

ScaleDownConflict ==
    /\ rec.pc = "scale"
    /\ ~lock.dep
    /\ AfterContain(TRUE, FALSE)
    /\ UNCHANGED <<spec, status, cache, stream, dep, pod, count, ghost>>

\* The operator stops at any step. Restarted, it lists every CR: its cache is
\* current and the CR is queued; timers are gone.
Restart ==
    /\ Budget
    /\ rec' = Idle
    /\ lock' = [cat |-> TRUE, dep |-> TRUE]
    /\ cache' = [spec |-> spec, status |-> status, fresh |-> TRUE]
    /\ queue' = [now |-> TRUE, later |-> FALSE]
    /\ Spend
    /\ UNCHANGED <<spec, status, stream, dep, pod, ghost>>

Reconcile ==
    \/ Begin \/ BeginFails \/ Publish \/ PublishConflict \/ PublishFails
    \/ Apply \/ ApplyDeletes \/ ApplyFails \/ Observe \/ ObserveFails
    \/ Record \/ RecordConflict \/ RecordFails
    \/ Contain \/ ContainFails \/ ScaleDown \/ ScaleDownConflict

-----------------------------------------------------------------------------
(***************************************************************************)
(* Everything else                                                          *)
(***************************************************************************)
\* Another client writes the CR: the reconciler's resource version is stale.
UserWrites(sp) ==
    /\ count.edits < MaxEdits
    /\ sp # spec
    /\ spec' = sp
    /\ Informed(sp, status)
    /\ lock' = [lock EXCEPT !.cat = rec.pc = "idle"]
    /\ Wake(~StaleCache, FALSE)
    /\ count' = [count EXCEPT !.edits = @ + 1]
    /\ UNCHANGED <<status, stream, dep, pod, rec, ghost>>

\* A change of a selection is a new generation; an annotation is not.
EditSelection ==
    \E t \in Targets : \E sel \in SelectionsOf[t] :
        /\ spec.sel[t] # sel
        /\ UserWrites([spec EXCEPT !.gen = @ + 1, !.sel = [@ EXCEPT ![t] = sel]])

EditRetry == \E retry \in Retries : UserWrites([spec EXCEPT !.retry = retry])

\* getCatalogsForDataImageStream queues the CRs that follow the stream.
StreamEvent(t) == Wake(cache.spec.sel[t] = "stable", FALSE)

\* OpenShift requests an import (schedule, changed source), and ends it.
RequestImport(t) ==
    /\ stream[t].gen \in 1 .. MaxImports - 1
    /\ stream' = [stream EXCEPT ![t].gen = @ + 1]
    /\ StreamEvent(t)
    /\ UNCHANGED <<spec, status, cache, dep, pod, rec, lock, count, ghost>>

ImportSucceeds(t) ==
    /\ stream[t].itemGen < stream[t].gen
    /\ \E d \in Digests :
          stream' = [stream EXCEPT ![t] =
                       [@ EXCEPT !.item = d, !.itemGen = stream[t].gen,
                                 !.good = d, !.failed = 0]]
    /\ StreamEvent(t)
    /\ UNCHANGED <<spec, status, cache, dep, pod, rec, lock, count, ghost>>

ImportFails(t) ==
    /\ stream[t].itemGen < stream[t].gen
    /\ stream[t].failed < stream[t].gen
    /\ \/ stream' = [stream EXCEPT ![t].failed = stream[t].gen]
       \/ stream' = [stream EXCEPT ![t] =
                        [@ EXCEPT !.item = "unusable", !.itemGen = stream[t].gen]]
    /\ StreamEvent(t)
    /\ UNCHANGED <<spec, status, cache, dep, pod, rec, lock, count, ghost>>

\* The Deployment controller reports on the template it now sees.
WorkloadUp ==
    /\ dep.replicas = 1
    /\ pod.phase = "ready" /\ pod.attempt = dep.attempt /\ pod.images = dep.images

DeploymentReports ==
    /\ dep.attempt # 0
    /\ dep' = [dep EXCEPT !.up = WorkloadUp]
    /\ dep' # dep
    /\ lock' = [lock EXCEPT !.dep = rec.pc = "idle"]
    /\ Wake(TRUE, FALSE)
    /\ UNCHANGED <<spec, status, cache, stream, pod, rec, count, ghost>>

\* The Recreate strategy: a pod of the current template once the old is gone.
PodStarts ==
    /\ pod.phase = "none"
    /\ dep.attempt # 0 /\ dep.replicas = 1
    /\ pod' = [attempt |-> dep.attempt, images |-> dep.images,
               phase |-> "starting"]
    /\ Wake(TRUE, FALSE)
    /\ UNCHANGED <<spec, status, cache, stream, dep, rec, lock, count, ghost>>

\* Scaled down, replaced, or evicted.
PodStops ==
    /\ pod.phase # "none"
    /\ pod' = NoPod
    /\ Wake(TRUE, FALSE)
    /\ UNCHANGED <<spec, status, cache, stream, dep, rec, lock, count, ghost>>

\* What the kubelet may report next of a pod in each phase.
NextPhases(phase) ==
    CASE phase = "starting" -> {"retrying", "ready", "fatal"}
      [] phase = "retrying" -> {"ready", "fatal"}
      [] phase = "ready"    -> {"retrying"}
      [] OTHER              -> {}

PodReports ==
    \E phase \in NextPhases(pod.phase) \cap PodOutcomes :
        /\ pod' = [pod EXCEPT !.phase = phase]
        /\ ghost' = IF phase # "ready" THEN ghost
                    ELSE [ghost EXCEPT !.proven = @ \cup {pod.attempt}]
        /\ Wake(TRUE, FALSE)
        /\ UNCHANGED <<spec, status, cache, stream, dep, rec, lock, count>>

\* The informer catches up and queues the CR.
Sync ==
    /\ ~cache.fresh
    /\ cache' = [spec |-> spec, status |-> status, fresh |-> TRUE]
    /\ Wake(TRUE, FALSE)
    /\ UNCHANGED <<spec, status, stream, dep, pod, rec, lock, count, ghost>>

\* RequeueAfter expires.
PollFires ==
    /\ queue.later
    /\ queue' = [now |-> TRUE, later |-> FALSE]
    /\ UNCHANGED <<spec, status, cache, stream, dep, pod, rec, lock, count, ghost>>

OlderStatus(s) ==
    [s EXCEPT !.act.started = Older(@), !.act.recovered = Older(@)]

Tick ==
    /\ TimePasses
    /\ status' = OlderStatus(status)
    /\ cache'  = [cache EXCEPT !.status = OlderStatus(@)]
    /\ rec'    = [rec EXCEPT !.base = OlderStatus(@), !.st = OlderStatus(@)]
    /\ ghost'  = [ghost EXCEPT !.seenReady = Older(@)]
    /\ UNCHANGED <<spec, stream, dep, pod, lock, queue, count>>

Environment ==
    \/ EditSelection \/ EditRetry
    \/ \E t \in Targets : RequestImport(t) \/ ImportSucceeds(t) \/ ImportFails(t)
    \/ DeploymentReports \/ PodStarts \/ PodStops \/ PodReports
    \/ Sync \/ PollFires \/ Tick \/ Restart

Init ==
    /\ \E new \in Created :
          spec = [gen |-> 1, sel |-> new.sel, retry |-> new.retry]
    /\ status = NoStatus
    /\ cache = [spec |-> spec, status |-> NoStatus, fresh |-> TRUE]
    /\ stream = [t \in Targets |-> [gen |-> 0, item |-> "none", itemGen |-> 0,
                                    good |-> "none", failed |-> 0]]
    /\ dep = NoDeployment
    /\ pod = NoPod
    /\ rec = Idle
    /\ lock = [cat |-> TRUE, dep |-> TRUE]
    /\ queue = [now |-> TRUE, later |-> FALSE]
    /\ count = [edits |-> 0, attempts |-> 0, faults |-> 0]
    /\ ghost = [proven |-> {}, seenReady |-> Never]

Next == Reconcile \/ Environment

Spec == Init /\ [][Next]_vars

\* Weak fairness of Reconcile, spelled out: it is enabled unless the reconciler
\* is idle with nothing queued, and all of its steps, and otherwise only the
\* MaxFaults restarts, move the program counter.
ReconcilerRuns ==
    []<>(rec.pc = "idle" /\ ~queue.now) \/ []<><<rec'.pc # rec.pc>>_vars

\* Strong fairness of ScaleDown, likewise.
ScaleDownWins ==
    \/ <>[]~(rec.pc = "scale" /\ lock.dep)
    \/ []<><<rec.pc = "scale" /\ dep'.replicas # dep.replicas>>_vars

\* The reconciler keeps running (its queue is served, its timers and its
\* informer fire), time passes, and a retried scale-down is not beaten by the
\* Deployment controller for ever. Nothing is assumed of users, imports or pods.
Fairness ==
    /\ ReconcilerRuns
    /\ WF_vars(PollFires)
    /\ WF_vars(Sync)
    /\ WF_vars(Tick)
    /\ ScaleDownWins

FairSpec == Spec /\ Fairness

-----------------------------------------------------------------------------
(***************************************************************************)
(* Properties                                                               *)
(***************************************************************************)
\* Every variable holds a value of the kind the code gives it.
TypeOK ==
    /\ spec \in CatalogSpec
    /\ status \in Status
    /\ cache \in [spec : CatalogSpec, status : Status, fresh : BOOLEAN]
    /\ stream \in [Targets -> Stream]
    /\ dep \in Deployment
    /\ pod \in Pod
    /\ rec \in Reconciler
    /\ lock \in [cat : BOOLEAN, dep : BOOLEAN]
    /\ queue \in [now : BOOLEAN, later : BOOLEAN]
    /\ count \in [edits : Nat, attempts : Nat, faults : Nat]
    /\ ghost \in [proven : SUBSET Nat, seenReady : 0 .. Never]

\* The workload never carries an attempt that was not persisted first: the
\* first status patch of ensureCatalogResources precedes the Deployment, and a
\* conflict or a crash in between leaves the Deployment alone.
PersistedFirst ==
    /\ dep.attempt <= count.attempts
    /\ pod.attempt <= count.attempts

\* A Ready that is current for the CR's generation is for the selections the
\* user has now, for the pair the status reports as resolved, and for an
\* attempt whose own pod has passed validation and become ready. An edit, an
\* import or a retry racing the two status patches cannot publish readiness
\* that was observed of something else.
ReadyIsEarned ==
    status.conds.ready.st = "True" /\ status.conds.ready.gen = spec.gen =>
        /\ status.act.request.sel = spec.sel
        /\ status.act.images = status.images
        /\ status.act.attempt \in ghost.proven

\* A failed attempt is terminal: no patch, merge, timeout, observation or
\* restart brings it back; only a new request, with a new attempt, leaves it.
FailedIsTerminal ==
    [][status.act.state = "Failed" =>
         status'.act.state = "Failed" \/ status'.act.attempt > status.act.attempt]_vars

\* Once a failed attempt's workload is scaled down, nothing scales it up again
\* ("Failed attempts remain scaled down across reconciliation").
FailedStaysDown ==
    [][(status.act.state = "Failed" /\ dep.attempt = status.act.attempt
          /\ dep.replicas = 0)
        => (dep'.replicas = 0 \/ dep'.attempt # dep.attempt)]_vars

\* A failure of the current attempt or faulty images.
Justified(st) == st.act.state = "Failed" \/ st.conds.blocked.st = "True"

\* The operator takes the workload down only for a persisted failure of the
\* current attempt or persisted faulty images, never for an attempt that a
\* newer one has replaced.
ScaleDownIsJustified ==
    [][(dep.replicas = 1 /\ dep'.replicas = 0 /\ dep'.attempt # 0)
        => Justified(status)]_vars

\* An observation times the pending or recovering attempt out.
TimesOut ==
    /\ rec.pc = "observe" /\ rec'.pc = "record"
    /\ rec.st.act.state # "Failed" /\ rec'.st.act.state = "Failed"
    /\ rec'.st.act.reason = "TimedOut"

\* The attempt was recorded as ready, without interruption, for the whole deadline.
LongReady == ghost.seenReady # Never /\ ghost.seenReady >= Deadline

\* "A previously successful attempt gets a ten-minute recovery window when its
\* pod encounters a retryable pull or process restart": an attempt that has been
\* recorded as ready for the whole deadline is not timed out by the first
\* observation that finds its pod restarting.
RecoveryWindow ==
    [][(TimesOut /\ LongReady) => PodFailure(rec.st.act) # "retry"]_vars

\* With every image resolved the window does open, whatever interrupts the
\* workload: a restart, an eviction or a pod that is replaced.
ResolvedRecoveryWindow ==
    [][(TimesOut /\ LongReady) => rec.st.conds.resolved.st # "True"]_vars

ImportFaults ==
    {"ImageStreamUnavailable", "ImportFailed", "InvalidImportedImage",
     "AwaitingSuccessfulImport"}

\* Conditions d lift the block of conditions c only for a success of each target
\* whose import c reports as faulty.
LeftBySuccess(c, d) ==
    \A t \in Targets :
        (/\ c.blocked.st = "True" /\ d.blocked.st = "False"
         /\ d.blocked.gen = c.blocked.gen
         /\ c.res[t].reason \in ImportFaults)
        => d.health[t].st = "True"

\* A recorded import fault keeps the workload contained until an import of that
\* target succeeds or the CR is edited. A new import that is merely pending does
\* not lift it, in whichever pass the failure, the request and the outcome are
\* seen.
FaultIsLeftBySuccess == [][LeftBySuccess(status.conds, status'.conds)]_vars

\* "Repeated imports of an unchanged healthy pair preserve the attempt": while the
\* Catalog is Ready, its attempt is only replaced for an edit of the CR, for
\* other images or for an import failure.
HealthyReimportKeepsAttempt ==
    [][(/\ status.conds.ready.st = "True" /\ status.act.state = "Succeeded"
        /\ status'.act.attempt # status.act.attempt
        /\ status'.act.request.sel = status.act.request.sel
        /\ status'.act.request.retry = status.act.request.retry)
       => \/ status'.act.images # status.act.images
          \/ \E t \in Targets : status'.conds.health[t].st = "False"]_vars

\* A failed attempt's workload is eventually scaled down, whatever conflicts,
\* errors and restarts come between the failure record and containment.
FailedIsContained ==
    status.act.state = "Failed"
        ~> (dep.replicas = 0 \/ status.act.state # "Failed")

\* A pending attempt whose images resolved, or whose first import is pending,
\* is eventually decided: it is polled until it succeeds or times out.
PendingIsDecided ==
    (status.act.state = "Pending" /\ status.conds.blocked.st # "True")
        ~> (status.act.state # "Pending" \/ status.conds.blocked.st = "True")

\* No wake-up is lost: once users stop editing, the attempt is for their last
\* selections and their last retry annotation, also when the edit arrives in the
\* middle of a pass, meets a conflict or is read late from the cache.
EditsAreHonoured ==
    <>[](status.act.request.sel = spec.sel /\ status.act.request.retry = spec.retry)

\* A workload that runs the current, undecided or successful attempt and stays up
\* is eventually reported Ready for the CR's generation, and stays so: no event
\* between the two status patches is missed.
UpIsReported ==
    (<>[](/\ dep.up /\ WorkloadUp
          /\ dep.attempt = status.act.attempt /\ status.act.state # "Failed"
          /\ status.images = dep.images))
        => <>[](status.conds.ready.st = "True" /\ status.conds.ready.gen = spec.gen)

-----------------------------------------------------------------------------
(***************************************************************************)
(* The abstract specification                                               *)
(***************************************************************************)
Lifecycle == INSTANCE ActivationLifecycle WITH
    attempt  <- status.act.attempt,
    state    <- status.act.state,
    last     <- status.act.last,
    proven   <- ghost.proven,
    workload <- dep.attempt

\* The protocol, with its stale copies, merge patches, conflicts and restarts,
\* implements the life cycle of an attempt: attempts are recorded one by one, a
\* failed one is final, the success record only moves to the current attempt and
\* only after its own pod was ready, and the workload never runs ahead.
ImplementsLifecycle == Lifecycle!Spec

-----------------------------------------------------------------------------
(***************************************************************************)
(* The inductive invariant behind PersistedFirst and FailedIsTerminal       *)
(***************************************************************************)
\* No copy of the status has an attempt that was never persisted, except the
\* one a pass is about to publish.
AttemptsBounded ==
    /\ status.act.attempt <= count.attempts
    /\ cache.status.act.attempt <= count.attempts
    /\ rec.base.act.attempt <= count.attempts
    /\ rec.st.act.attempt <= count.attempts + 1
    /\ rec.pc \in {"apply", "observe"} => rec.st.act.attempt <= count.attempts
    /\ dep.attempt <= count.attempts
    /\ pod.attempt <= count.attempts

\* A cache that has caught up holds the persisted status.
CacheIsCurrent == cache.fresh => cache.status = status

\* A pass whose resource version still allows it to write knows of a persisted
\* failure: it carries it, or it replaces the very attempt that failed.
FailureIsCarried ==
    (rec.pc # "idle" /\ lock.cat /\ status.act.state = "Failed") =>
        \/ /\ rec.st.act.state = "Failed"
           /\ rec.st.act.attempt = status.act.attempt
        \/ /\ rec.base = status
           /\ rec.st.act.attempt > status.act.attempt

\* What a pass holds in memory is consistent with what is persisted, however
\* stale the informer's copy was, whoever wrote the CR since, and whether or not
\* an earlier patch of the pass reached the API server.
MemoryIsConsistent == AttemptsBounded /\ CacheIsCurrent /\ FailureIsCarried

-----------------------------------------------------------------------------
(***************************************************************************)
(* The inductive invariant behind ReadyIsEarned and ImplementsLifecycle     *)
(***************************************************************************)
\* A record of an attempt carries the images of its request, and one that says
\* Succeeded is of an attempt whose pod was ready and is the last success.
Genuine(act, proven) ==
    /\ act.attempt = 0 <=> act.state = "None"
    /\ act.images = act.request.images
    /\ act.state = "Succeeded" => act.attempt \in proven /\ act.last = act.attempt

\* A status that says Ready has it of the images and the attempt it reports,
\* and, if it is current, of the selections the user has now.
Claims(st, sp, proven) ==
    /\ st.conds.ready.gen <= sp.gen
    /\ st.conds.ready.st = "True" =>
          /\ st.act.images = st.images
          /\ st.act.attempt \in proven
          /\ st.conds.ready.gen = sp.gen => st.act.request.sel = sp.sel

\* A prepared status is of the request that was read, with the images resolved.
Answers(st, gen, sp) ==
    /\ st.act.attempt # 0
    /\ gen = sp.gen => st.act.request.sel = sp.sel
    /\ st.conds.resolved.st = "True" => st.act.images = st.images

\* Nothing of the pass is persisted yet: it keeps the attempt, or has a next one.
Proposed(s, base, st) ==
    /\ s = base
    /\ st.act.last = s.act.last
    /\ \/ st.act.attempt = s.act.attempt
       \/ /\ st.act.attempt = s.act.attempt + 1
          /\ st.act.state \in {"Pending", "Failed"}

\* The first patch of the pass is persisted: the record is of the same request,
\* and only a success observed since is still to be recorded.
Published(s, base, st, proven) ==
    /\ st.images = s.images
    /\ st.act.attempt = s.act.attempt
    /\ st.act.request = s.act.request
    /\ st.act.images = s.act.images
    /\ base.act.last = s.act.last
    /\ st.act.last # s.act.last =>
          /\ st.act.last = st.act.attempt
          /\ st.act.attempt \in proven
          /\ s.act.state # "Failed"

\* The steps of a pass that has prepared an attempt and may still reduce the
\* conditions again, and those from which it may still patch the status.
Deciding ==
    \/ rec.pc \in {"publish", "apply", "observe"}
    \/ rec.pc \in {"contain", "scale"} /\ rec.mode = "fault"
Writing == lock.cat /\ (Deciding \/ rec.pc = "record")

\* What a pass may still write continues what is persisted.
Continues ==
    Writing =>
        /\ \/ Proposed(status, rec.base, rec.st)
           \/ Published(status, rec.base, rec.st, ghost.proven)
        /\ rec.pc = "publish" => Proposed(status, rec.base, rec.st)
        /\ rec.pc \in {"apply", "observe"} =>
              Published(status, rec.base, rec.st, ghost.proven)

\* Generations order what the user wrote, attempts what was persisted, and the
\* pods that were ready are those of persisted attempts.
Ordered ==
    /\ cache.spec.gen <= spec.gen
    /\ cache.spec.gen = spec.gen => cache.spec.sel = spec.sel
    /\ rec.gen <= spec.gen
    /\ status.act.attempt = count.attempts
    /\ 0 \notin ghost.proven
    /\ pod.phase # "none" => pod.attempt # 0
    /\ pod.phase = "ready" => pod.attempt \in ghost.proven

\* What is persisted, cached and in memory is earned: every copy of the record
\* is genuine, what a pass decides is of the request it read, and what it may
\* write continues what is persisted, however stale its copy was.
StatusIsEarned ==
    /\ Ordered
    /\ \A st \in {status, cache.status, rec.base, rec.st} :
          Genuine(st.act, ghost.proven)
    /\ Claims(status, spec, ghost.proven)
    /\ Claims(rec.st, spec, ghost.proven)
    /\ Deciding => Answers(rec.st, rec.gen, spec)
    /\ Continues

-----------------------------------------------------------------------------
(***************************************************************************)
(* The invariant behind FailedStaysDown                                     *)
(***************************************************************************)
\* With an informer that is never behind, a pass works on what is persisted: it
\* publishes a change of that, and applies exactly what it published, also when
\* a user's edit took its lock away in between.
PassIsCurrent ==
    ~StaleCache =>
        /\ cache.fresh
        /\ rec.pc = "publish" => rec.base = status
        /\ rec.pc = "apply" => rec.st = status

-----------------------------------------------------------------------------
(***************************************************************************)
(* The invariant behind FaultIsLeftBySuccess                                *)
(***************************************************************************)
\* A confirmed fault of a target is reported as bad health, and a target that is
\* unhealthy, or waits for a success, blocks the workload.
Reported(c) ==
    \A t \in Targets :
        /\ c.res[t].reason \in ImportFaults \ {"AwaitingSuccessfulImport"}
              => c.health[t].st = "False"
        /\ (c.health[t].st = "False" \/ c.res[t].reason = "AwaitingSuccessfulImport")
              => c.blocked.st = "True"

SameReport(c, d) == d.res = c.res /\ d.health = c.health /\ d.blocked = c.blocked

\* Every copy reports consistently, and what a pass may still write reports what
\* is persisted, or leaves the faults persisted before it by a success.
FaultsAreHeld ==
    /\ \A st \in {status, cache.status, rec.base, rec.st} : Reported(st.conds)
    /\ Writing =>
          \/ /\ rec.base.conds = status.conds
             /\ LeftBySuccess(status.conds, rec.st.conds)
          \/ SameReport(status.conds, rec.st.conds)

-----------------------------------------------------------------------------
(***************************************************************************)
(* The invariant behind ScaleDownIsJustified                                *)
(***************************************************************************)
\* An attempt for a pair that could not be resolved is a failed one.
Condemned(act) ==
    (act.request.st = "False" /\ act.request.reason # "NoSuccessfulImport")
        => act.state = "Failed"

\* An older copy that says the current attempt failed is right.
Agrees(act, current) ==
    (act.state = "Failed" /\ act.attempt = current.attempt)
        => current.state = "Failed"

\* With an informer that is never behind, containment is decided, and patched, for
\* a reason that is persisted, also when the first patch met a conflict or error.
ContainmentIsJustified ==
    ~StaleCache =>
        /\ \A act \in {status.act, rec.base.act, rec.st.act} : Condemned(act)
        /\ Agrees(rec.base.act, status.act)
        /\ (rec.pc = "publish" /\ rec.mode = "fault") =>
              /\ rec.st.conds.blocked.st = "True"
              /\ rec.st.act.attempt = rec.base.act.attempt => Justified(rec.base)
        /\ (rec.pc = "contain" /\ SameAttempt(rec.st.act)) => Justified(status)
        /\ rec.pc = "scale" => Justified(status)
=============================================================================
