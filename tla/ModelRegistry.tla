----------------------------- MODULE ModelRegistry -----------------------------
(***************************************************************************)
(* The ModelRegistry reconciler on OpenShift: one registry with an auto-    *)
(* provisioned database, its finalizer, the migration of its proxy          *)
(* configuration, the objects it generates and the status it reports.       *)
(*                                                                          *)
(* The registry and its objects are read through informer caches. A write   *)
(* of the registry carries the resource version of the copy it was made     *)
(* from: held says that the pass's copy is current, fresh that the          *)
(* informer's copy is. seen holds the informers' copies of the objects.     *)
(***************************************************************************)
EXTENDS Naturals

CONSTANTS
    HasUserAPI,     \* the cluster serves OpenShift Groups
    Lagging,        \* objects whose informer may be behind when the operator steps
    MaxEvents       \* bound: edits, drifts, flaps, restarts, API errors

ASSUME UserAPIAssumption == HasUserAPI \in BOOLEAN
ASSUME BoundsAssumption == MaxEvents \in Nat

VARIABLES
    mr,         \* the ModelRegistry object
    mrSeen,     \* the informer's copy of it
    fresh,      \* is that copy current?
    world,      \* the registry's objects and its workload
    seen,       \* the informers' copies of them
    gateway,    \* is GATEWAY_DOMAIN set?
    pass,       \* the running pass: program counter and locals
    queued,     \* is a request queued?
    events      \* bound used so far

registry == <<mr, mrSeen, fresh>>
vars == <<mr, mrSeen, fresh, world, seen, gateway, pass, queued, events>>

\* other: somebody else's finalizer is set; proxy: which proxy the spec configures;
\* route: its serviceRoute is enabled; available, degraded: status conditions.
Registry ==
    [phase : {"live", "deleting", "gone"}, fin : BOOLEAN, other : BOOLEAN,
     proxy : {"none", "oauth", "kube"}, route : BOOLEAN, available : BOOLEAN,
     degraded : {"unset", "Unknown", "True"}]

\* The registry Deployment's database host is set (it was rendered after the
\* database was provisioned), and it has a proxy container.
Deployment == [exists : BOOLEAN, host : BOOLEAN, proxy : BOOLEAN]

\* pg: the postgres Deployment, "old" when it has the selector of an older release;
\* plain: services, roles, policies and the proxy's ClusterRoleBinding are right (its
\* ConfigMap, created once and never compared, is left out); catalog: the Deployment
\* <name>-catalog and who controls it; load: is the Deployment available (and since
\* when), do its pods have the proxy container?
World ==
    [pg : {"none", "old", "right"}, dep : Deployment, plain : BOOLEAN,
     group : BOOLEAN, httproute : BOOLEAN, route : BOOLEAN,
     catalog : {"none", "ours", "theirs"},
     load : [up : {"down", "recent", "up"}, proxy : BOOLEAN]]

Pass ==
    [pc : {"idle", "finalizer", "migrate", "pg", "dep", "plain", "group", "gateway",
           "route", "catalog", "status", "report", "degrade", "clean", "cleanRoute",
           "refetch", "degraded", "release"},
     mr : Registry, held : BOOLEAN, host : BOOLEAN, changed : BOOLEAN]

Gone == [phase |-> "gone", fin |-> FALSE, other |-> FALSE, proxy |-> "none", route |-> FALSE,
         available |-> FALSE, degraded |-> "unset"]
Idle == [pc |-> "idle", mr |-> Gone, held |-> FALSE, host |-> FALSE, changed |-> FALSE]

\* Somebody else's write of the registry, and one of the pass.
Write(new) == mr' = new /\ fresh' = FALSE /\ UNCHANGED mrSeen
OwnWrite(new) == IF new = mr THEN UNCHANGED registry ELSE Write(new)

Stop(requeue) == pass' = Idle /\ queued' = (queued \/ requeue)
Goto(pc) == pass' = [pass EXCEPT !.pc = pc] /\ UNCHANGED queued

Event == events < MaxEvents /\ events' = events + 1

-----------------------------------------------------------------------------
(***************************************************************************)
(* Reconcile: the registry                                                  *)
(***************************************************************************)
\* Bug: the finalizer is not added before the resources.
BranchWithoutFinalizer(m) ==
    CASE m.fin /\ m.phase = "deleting" -> "degrade"
      [] m.phase = "live" /\ m.proxy # "kube" -> "migrate"
      [] OTHER -> "pg"

\* What Reconcile does next with a registry that it has read. The finalizer comes
\* before the deletion timestamp.
Branch(m) ==
    CASE ~m.fin -> "finalizer"
      [] m.fin /\ m.phase = "deleting" -> "degrade"
      [] m.fin /\ m.phase = "live" /\ m.proxy # "kube" -> "migrate"
      [] OTHER -> "pg"

Begin ==
    /\ pass.pc = "idle"
    /\ queued
    /\ queued' = FALSE
    /\ pass' = IF mrSeen.phase = "gone" THEN Idle
               ELSE [Idle EXCEPT !.pc = Branch(mrSeen), !.mr = mrSeen, !.held = fresh]
    /\ UNCHANGED <<registry, world, seen, gateway, events>>

\* The API server accepts no new finalizer on an object that is being deleted.
AddFinalizer ==
    /\ pass.pc = "finalizer"
    /\ IF pass.held /\ mr.phase = "live"
         THEN /\ OwnWrite([mr EXCEPT !.fin = TRUE])
              /\ pass' = [pass EXCEPT !.mr.fin = TRUE, !.pc = Branch([pass.mr EXCEPT !.fin = TRUE])]
              /\ UNCHANGED queued
         ELSE UNCHANGED registry /\ Stop(TRUE)
    /\ UNCHANGED <<world, seen, gateway, events>>

\* MigrateOAuthProxyToKubeRBACProxy, which keeps serviceRoute, or the default proxy,
\* whose route the defaulting webhook enables.
MigrateProxy ==
    /\ pass.pc = "migrate"
    /\ IF pass.held
         THEN OwnWrite([mr EXCEPT !.proxy = "kube", !.route = mr.proxy = "none" \/ @])
         ELSE UNCHANGED registry
    /\ Stop(TRUE)
    /\ UNCHANGED <<world, seen, gateway, events>>

\* handleReconcileErrors: the status is written if the pass's copy is current; the
\* pass is retried.
Unavailable ==
    /\ IF pass.held THEN OwnWrite([mr EXCEPT !.available = FALSE]) ELSE UNCHANGED registry
    /\ Stop(TRUE)

-----------------------------------------------------------------------------
(***************************************************************************)
(* updateRegistryResources                                                  *)
(***************************************************************************)
\* CreateOrUpdate: compare the cached copy with the desired object; a write from a
\* copy that is behind fails.
Ensure(k, desired, pc) ==
    \/ /\ seen[k] = desired
       /\ Goto(pc)
       /\ UNCHANGED <<registry, world>>
    \/ /\ seen[k] # desired
       /\ seen[k] = world[k]
       /\ world' = [world EXCEPT ![k] = desired]
       /\ pass' = [pass EXCEPT !.pc = pc, !.changed = TRUE]
       /\ UNCHANGED <<registry, queued>>
    \/ /\ seen[k] # desired
       /\ seen[k] # world[k]
       /\ Unavailable
       /\ UNCHANGED world

\* createOrUpdatePostgres. An update that hits an immutable field deletes the
\* Deployment and returns early, before the host is set in memory; what it returns
\* is replaced by the next result.
ProvisionPostgres ==
    /\ pass.pc = "pg"
    /\ IF seen.pg = "old" /\ world.pg = "old"
         THEN /\ world' = [world EXCEPT !.pg = "none"]
              /\ Goto("dep")
              /\ UNCHANGED registry
         ELSE \/ /\ seen.pg = "right"
                 /\ pass' = [pass EXCEPT !.pc = "dep", !.host = TRUE]
                 /\ UNCHANGED <<registry, world, queued>>
              \/ /\ seen.pg = "none" /\ world.pg = "none"
                 /\ world' = [world EXCEPT !.pg = "right"]
                 /\ pass' = [pass EXCEPT !.pc = "dep", !.host = TRUE]
                 /\ UNCHANGED <<registry, queued>>
              \/ /\ seen.pg # "right" /\ seen.pg # world.pg
                 /\ Unavailable
                 /\ UNCHANGED world
    /\ UNCHANGED <<seen, gateway, events>>

ApplyDeployment ==
    /\ pass.pc = "dep"
    /\ Ensure("dep", [exists |-> TRUE, host |-> pass.host, proxy |-> TRUE], "plain")
    /\ UNCHANGED <<seen, gateway, events>>

ApplyPlain ==
    /\ pass.pc = "plain"
    /\ Ensure("plain", TRUE, "group")
    /\ UNCHANGED <<seen, gateway, events>>

ApplyGroup ==
    /\ pass.pc = "group"
    /\ Ensure("group", HasUserAPI, "gateway")
    /\ UNCHANGED <<seen, gateway, events>>

\* createOrUpdateGatewayResources; nothing is removed when the domain is unset.
ApplyGateway ==
    /\ pass.pc = "gateway"
    /\ Ensure("httproute", gateway \/ seen.httproute, "route")
    /\ UNCHANGED <<seen, gateway, events>>

\* createOrUpdateRoute for the proxy: a route that is disabled is deleted by name.
ApplyRoute ==
    /\ pass.pc = "route"
    /\ \/ pass.mr.route /\ Ensure("route", TRUE, "catalog")
       \/ /\ ~pass.mr.route
          /\ world' = [world EXCEPT !.route = FALSE]
          /\ Goto("catalog")
          /\ UNCHANGED registry
    /\ UNCHANGED <<seen, gateway, events>>

\* deleteOldCatalogResources: the ownership is read from the cache, the object is
\* deleted by name.
DeleteOldCatalog ==
    /\ pass.pc = "catalog"
    /\ world' = IF seen.catalog = "ours" THEN [world EXCEPT !.catalog = "none"] ELSE world
    /\ Goto("status")
    /\ UNCHANGED <<registry, seen, gateway, events>>

-----------------------------------------------------------------------------
(***************************************************************************)
(* setRegistryStatus                                                        *)
(***************************************************************************)
ReadStatus ==
    /\ pass.pc = "status"
    /\ pass' = [pass EXCEPT !.pc = "report", !.mr = mrSeen, !.held = fresh]
    /\ UNCHANGED <<registry, world, seen, gateway, queued, events>>

\* SetKubeRBACProxyCondition: the pods have the proxy container, and the route that is
\* enabled is there.
ProxyHealthy(w, m) == m.proxy = "kube" => w.load.proxy /\ (m.route => w.route)

\* checkDeploymentAvailability with its cooldown.
Healthy(w, m) == w.dep.exists /\ w.load.up = "up" /\ ProxyHealthy(w, m)

\* Bug: a registry that is not available yet is not looked at again.
ReportStatusOnce ==
    /\ pass.pc = "report"
    /\ LET healthy == Healthy(seen, pass.mr)
       IN  /\ IF pass.held THEN OwnWrite([mr EXCEPT !.available = healthy]) ELSE UNCHANGED registry
           /\ Stop(~pass.held \/ pass.changed)
    /\ UNCHANGED <<world, seen, gateway, events>>

\* Without a current copy the status cannot be written, which is an error.
ReportStatus ==
    /\ pass.pc = "report"
    /\ LET healthy == Healthy(seen, pass.mr)
       IN  /\ IF pass.held THEN OwnWrite([mr EXCEPT !.available = healthy]) ELSE UNCHANGED registry
           /\ Stop(~pass.held \/ ~healthy \/ pass.changed)
    /\ UNCHANGED <<world, seen, gateway, events>>

-----------------------------------------------------------------------------
(***************************************************************************)
(* Deletion                                                                 *)
(***************************************************************************)
\* IgnoreDeletingErrors: conflicts and NotFound are ignored, the pass goes on.
SetDegraded(pc, value, next) ==
    /\ pass.pc = pc
    /\ IF pass.held THEN OwnWrite([mr EXCEPT !.degraded = value]) ELSE UNCHANGED registry
    /\ Goto(next)
    /\ UNCHANGED <<world, seen, gateway, events>>

\* Bug: the HTTPRoute is cleaned up only while a gateway is configured.
CleansRouteOfGateway == gateway

\* doFinalizerOperationsForModelRegistry: the Group, then the HTTPRoute, whatever the
\* gateway configuration is by now.
CleansRoute == TRUE

CleanGroup ==
    /\ pass.pc = "clean"
    /\ world' = [world EXCEPT !.group = FALSE]
    /\ Goto("cleanRoute")
    /\ UNCHANGED <<registry, seen, gateway, events>>

CleanRoute ==
    /\ pass.pc = "cleanRoute"
    /\ world' = IF CleansRoute THEN [world EXCEPT !.httproute = FALSE] ELSE world
    /\ Goto("refetch")
    /\ UNCHANGED <<registry, seen, gateway, events>>

Refetch ==
    /\ pass.pc = "refetch"
    /\ pass' = [pass EXCEPT !.pc = "degraded", !.mr = mrSeen, !.held = fresh]
    /\ UNCHANGED <<registry, world, seen, gateway, queued, events>>

Removed(m) == IF m.phase = "deleting" /\ ~m.fin /\ ~m.other THEN Gone ELSE m

Release ==
    /\ pass.pc = "release"
    /\ IF pass.held THEN OwnWrite(Removed([mr EXCEPT !.fin = FALSE])) ELSE UNCHANGED registry
    /\ Stop(FALSE)
    /\ UNCHANGED <<world, seen, gateway, events>>

Reconcile ==
    \/ Begin \/ AddFinalizer \/ MigrateProxy
    \/ ProvisionPostgres \/ ApplyDeployment \/ ApplyPlain \/ ApplyGroup \/ ApplyGateway
    \/ ApplyRoute \/ DeleteOldCatalog \/ ReadStatus \/ ReportStatus
    \/ SetDegraded("degrade", "Unknown", "clean")
    \/ CleanGroup \/ CleanRoute \/ Refetch
    \/ SetDegraded("degraded", "True", "release")
    \/ Release

\* An API error ends a pass over a live registry in handleReconcileErrors; while a
\* registry is deleted, or before its resources are reached, it is only retried
\* (and a crash, at any step, reports nothing).
Fails ==
    /\ pass.pc # "idle"
    /\ Event
    /\ IF pass.pc \in {"pg", "dep", "plain", "group", "gateway", "route", "status", "report"}
         THEN Unavailable ELSE UNCHANGED registry /\ Stop(TRUE)
    /\ UNCHANGED <<world, seen, gateway>>

\* The operator restarts, perhaps with another gateway configuration; the new
\* process lists every registry.
Restart ==
    /\ Event
    /\ pass' = Idle
    /\ queued' = TRUE
    /\ gateway' \in BOOLEAN
    /\ UNCHANGED <<registry, world, seen>>

-----------------------------------------------------------------------------
(***************************************************************************)
(* Watches                                                                  *)
(***************************************************************************)
\* Bug: only the workload is watched.
WatchedWorkload == {"pg", "dep", "load"}

\* SetupWithManager: Groups and HTTPRoutes are not watched.
Watched == {"pg", "dep", "plain", "route", "catalog", "load"}

\* Bug: a generation predicate hides status updates.
SyncRegistryGenerations ==
    /\ ~fresh
    /\ mrSeen' = mr
    /\ fresh' = TRUE
    /\ queued' = (\/ queued \/ mr.phase # mrSeen.phase
                  \/ mr.proxy # mrSeen.proxy \/ mr.route # mrSeen.route)
    /\ UNCHANGED <<mr, world, seen, gateway, pass, events>>

SyncRegistry ==
    /\ ~fresh
    /\ mrSeen' = mr
    /\ fresh' = TRUE
    /\ queued' = TRUE
    /\ UNCHANGED <<mr, world, seen, gateway, pass, events>>

Sync(k) ==
    /\ seen[k] # world[k]
    /\ seen' = [seen EXCEPT ![k] = world[k]]
    /\ queued' = (queued \/ k \in Watched)
    /\ UNCHANGED <<registry, world, gateway, pass, events>>

Informed == /\ "registry" \in Lagging \/ fresh
            /\ \A k \in DOMAIN seen : seen[k] # world[k] => k \in Lagging

-----------------------------------------------------------------------------
(***************************************************************************)
(* The environment                                                          *)
(***************************************************************************)
\* Users edit the proxy's route, go back to the OAuth proxy, delete the registry; the
\* other finalizer's owner releases it.
EditRegistry ==
    /\ Event
    /\ \E new \in {[mr EXCEPT !.route = ~@], [mr EXCEPT !.proxy = "oauth"],
                   [mr EXCEPT !.phase = "deleting"], [mr EXCEPT !.other = FALSE]} :
         /\ mr.phase = "live" \/ new.other # mr.other
         /\ new # mr
         /\ Write(Removed(new))
    /\ pass' = [pass EXCEPT !.held = FALSE]
    /\ UNCHANGED <<world, seen, gateway, queued>>

\* Generated objects are changed or deleted. The Catalog operator takes over a
\* Deployment whose name it shares with a registry named "model".
Drift ==
    /\ Event
    /\ \E w \in {[world EXCEPT !.plain = FALSE], [world EXCEPT !.route = FALSE],
                 [world EXCEPT !.dep.exists = FALSE]} : w # world /\ world' = w
    /\ UNCHANGED <<registry, seen, gateway, pass, queued>>

CatalogTakesOver ==
    /\ Event
    /\ world.catalog = "ours"
    /\ world' = [world EXCEPT !.catalog = "theirs"]
    /\ UNCHANGED <<registry, seen, gateway, pass, queued>>

\* The Deployment's pods follow its template and it becomes available.
RollOut ==
    /\ world.dep.exists
    /\ world.load.proxy # world.dep.proxy \/ world.load.up = "down"
    /\ world' = [world EXCEPT !.load = [up |-> "recent", proxy |-> world.dep.proxy]]
    /\ UNCHANGED <<registry, seen, gateway, pass, queued, events>>

\* The cooldown passes; no event tells.
Age ==
    /\ world.load.up = "recent" /\ seen.load = world.load
    /\ world' = [world EXCEPT !.load.up = "up"]
    /\ seen' = [seen EXCEPT !.load.up = "up"]
    /\ UNCHANGED <<registry, gateway, pass, queued, events>>

GoesDown ==
    /\ Event
    /\ world.load.up # "down"
    /\ world' = [world EXCEPT !.load.up = "down"]
    /\ UNCHANGED <<registry, seen, gateway, pass, queued>>

-----------------------------------------------------------------------------
NewWorld == [pg |-> "none", dep |-> [exists |-> FALSE, host |-> FALSE, proxy |-> FALSE],
             plain |-> FALSE, group |-> FALSE, httproute |-> FALSE, route |-> FALSE,
             catalog |-> "none", load |-> [up |-> "down", proxy |-> FALSE]]

\* What an older release left: an OAuth proxy in the spec and no proxy container, a
\* postgres Deployment with another selector, the catalog's Deployment.
OldWorld == [NewWorld EXCEPT !.pg = "old", !.catalog = "ours",
                             !.dep = [exists |-> TRUE, host |-> TRUE, proxy |-> FALSE]]

Init ==
    /\ \E proxy \in {"none", "oauth"}, other \in BOOLEAN :
         mr = [Gone EXCEPT !.phase = "live", !.proxy = proxy, !.other = other]
    /\ mrSeen = mr
    /\ fresh = TRUE
    /\ world = IF mr.proxy = "oauth" THEN OldWorld ELSE NewWorld
    /\ seen = world
    /\ gateway = TRUE
    /\ pass = Idle
    /\ queued = TRUE
    /\ events = 0

Environment == EditRegistry \/ Drift \/ CatalogTakesOver \/ RollOut \/ Age \/ GoesDown \/ Restart

Next ==
    \/ Informed /\ (Reconcile \/ Fails \/ Environment)
    \/ SyncRegistry
    \/ \E k \in DOMAIN seen : Sync(k)

Spec == Init /\ [][Next]_vars

\* The work queue serves requests, informers catch up, the cluster rolls Deployments
\* out and time passes.
FairSpec ==
    /\ Spec
    /\ WF_vars(Informed /\ Reconcile)
    /\ WF_vars(Informed /\ RollOut)
    /\ WF_vars(Informed /\ Age)
    /\ WF_vars(SyncRegistry)
    /\ \A k \in DOMAIN NewWorld : WF_vars(Sync(k))

-----------------------------------------------------------------------------
(***************************************************************************)
(* Properties                                                               *)
(***************************************************************************)
TypeOK ==
    /\ mr \in Registry /\ mrSeen \in Registry /\ fresh \in BOOLEAN
    /\ world \in World /\ seen \in World /\ gateway \in BOOLEAN
    /\ pass \in Pass /\ queued \in BOOLEAN /\ events \in 0 .. MaxEvents

\* The inductive invariant behind GoneMeansClean. The informer follows the
\* registry's life in order: it shows neither a deletion that did not happen nor, on
\* a live copy, a finalizer that is gone.
SeenInOrder ==
    /\ fresh => mrSeen = mr
    /\ mrSeen.phase # "live" => mr.phase # "live"
    /\ mrSeen.phase = "live" /\ mrSeen.fin => mr.fin

Provisioning == {"pg", "dep", "plain", "group", "gateway", "route", "catalog", "status", "report"}
Finalizing == {"degrade", "clean", "cleanRoute", "refetch", "degraded", "release"}

\* Objects that the registry cannot own exist only under its finalizer: a pass
\* creates them only while the finalizer is set, however old its copy, and releases
\* it only after deleting both, with no other pass in between.
Guards ==
    /\ SeenInOrder
    /\ pass.pc = "finalizer" /\ pass.held => pass.mr = mr
    /\ pass.pc \in Provisioning => mr.fin
    /\ pass.pc \in Finalizing => mrSeen.phase # "live"
    /\ pass.pc \in {"cleanRoute", "refetch", "degraded", "release"} => ~world.group
    /\ pass.pc \in {"refetch", "degraded", "release"} => ~world.httproute
    /\ ~mr.fin => ~world.group /\ ~world.httproute
    /\ mr.phase = "gone" => ~mr.fin

\* Types and guards together are inductive.
FinalizerGuards == TypeOK /\ Guards

\* A registry that is gone has left neither its Group nor its HTTPRoute behind, also
\* when the operator was restarted without a gateway after creating the route.
GoneMeansClean == mr.phase = "gone" => ~world.group /\ ~world.httproute

\* The deletion of a registry ends once other owners have released it: ignored
\* conflicts, a finalizer that cannot be added and outdated caches never strand it.
DeletionEnds == []<>(mr.phase # "deleting" \/ mr.other)

\* A live registry gets, and after every drift gets back, its migrated proxy, its
\* database, a Deployment that knows the database host, and its other objects.
ObjectsFollow ==
    []<>(mr.phase = "live"
           => /\ mr.proxy = "kube"
              /\ world.pg = "right"
              /\ world.dep = [exists |-> TRUE, host |-> TRUE, proxy |-> TRUE]
              /\ world.plain
              /\ world.route = mr.route)

\* The Available condition of a live registry follows its workload both ways.
StatusFollows == []<>(mr.phase = "live" => mr.available = Healthy(world, mr))

\* The Catalog operator's objects are never deleted, whatever their names.
CatalogObjectsSurvive ==
    [][world.catalog = "theirs" => world'.catalog = "theirs"]_vars
=============================================================================
