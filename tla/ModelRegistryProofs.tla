-------------------------- MODULE ModelRegistryProofs --------------------------
(***************************************************************************)
(* Theorems about ModelRegistry, for any bound on events and any set of     *)
(* lagging informers, with and without OpenShift Groups.                    *)
(***************************************************************************)
EXTENDS ModelRegistry, TLAPS

-----------------------------------------------------------------------------
(***************************************************************************)
(* Types                                                                    *)
(***************************************************************************)
LEMMA ConstantTypes ==
    /\ Gone \in Registry /\ Idle \in Pass
    /\ NewWorld \in World /\ OldWorld \in World
  <1>1. Gone \in Registry
    BY DEF Gone, Registry
  <1>2. NewWorld \in World
    BY DEF NewWorld, World, Deployment
  <1>3. OldWorld \in World
    BY DEF NewWorld, OldWorld, World, Deployment
  <1> QED
    BY <1>1, <1>2, <1>3 DEF Idle, Pass

LEMMA BranchType ==
    ASSUME NEW m \in Registry
    PROVE  /\ Branch(m) \in {"finalizer", "degrade", "migrate", "pg"}
           /\ Branch(m) = "finalizer" => ~m.fin
           /\ Branch(m) = "degrade" => m.phase = "deleting"
           /\ Branch(m) = "pg" => m.fin /\ m.phase # "deleting"
  BY DEF Branch, Registry

LEMMA RemovedType ==
    ASSUME NEW m \in Registry
    PROVE  /\ Removed(m) \in Registry
           /\ m.fin => Removed(m) = m
           /\ Removed(m) # m => Removed(m) = Gone
           /\ m.phase # "live" => Removed(m).phase # "live"
           /\ Removed(m).fin => m.fin
  BY ConstantTypes DEF Removed, Registry, Gone

LEMMA EventType == ASSUME TypeOK, Event PROVE events' \in 0 .. MaxEvents
  BY BoundsAssumption DEF TypeOK, Event

\* A write of the registry by the pass that leaves its phase and finalizer alone.
LEMMA OwnWriteType ==
    ASSUME TypeOK, Guards, NEW new \in Registry,
           new.phase = mr.phase, new.fin = mr.fin, OwnWrite(new)
    PROVE  /\ mr' \in Registry /\ mrSeen' = mrSeen /\ fresh' \in BOOLEAN
           /\ mr'.phase = mr.phase /\ mr'.fin = mr.fin
           /\ SeenInOrder'
  BY DEF OwnWrite, Write, registry, TypeOK, Guards, SeenInOrder

LEMMA StopType ==
    ASSUME TypeOK, NEW requeue \in BOOLEAN, Stop(requeue)
    PROVE  pass' \in Pass /\ pass'.pc = "idle" /\ queued' \in BOOLEAN
  BY ConstantTypes DEF Stop, TypeOK, Idle

LEMMA GotoType ==
    ASSUME TypeOK, NEW pc \in Provisioning \cup Finalizing, Goto(pc)
    PROVE  pass' \in Pass /\ pass'.pc = pc /\ queued' \in BOOLEAN
  BY DEF Goto, TypeOK, Pass, Provisioning, Finalizing

LEMMA UnavailableStep ==
    ASSUME TypeOK, Guards, Unavailable
    PROVE  /\ mr' \in Registry /\ mrSeen' = mrSeen /\ fresh' \in BOOLEAN
           /\ mr'.phase = mr.phase /\ mr'.fin = mr.fin /\ SeenInOrder'
           /\ pass' \in Pass /\ pass'.pc = "idle" /\ queued' \in BOOLEAN
  <1>1. [mr EXCEPT !.available = FALSE] \in Registry
        /\ [mr EXCEPT !.available = FALSE].phase = mr.phase
        /\ [mr EXCEPT !.available = FALSE].fin = mr.fin
    BY DEF TypeOK, Registry
  <1>2. pass' \in Pass /\ pass'.pc = "idle" /\ queued' \in BOOLEAN
    BY StopType DEF Unavailable
  <1>3. CASE OwnWrite([mr EXCEPT !.available = FALSE])
    BY <1>1, <1>2, <1>3, OwnWriteType
  <1>4. CASE UNCHANGED registry
    BY <1>2, <1>4 DEF registry, TypeOK, Guards, SeenInOrder
  <1> QED
    BY <1>3, <1>4 DEF Unavailable

\* A pass that ended, or went on provisioning, with the registry's life unchanged.
Provisioned ==
    /\ mr' \in Registry /\ mrSeen' = mrSeen /\ fresh' \in BOOLEAN
    /\ mr'.phase = mr.phase /\ mr'.fin = mr.fin /\ SeenInOrder'
    /\ pass' \in Pass /\ pass'.pc \in {"idle"} \cup Provisioning /\ queued' \in BOOLEAN
    /\ world' \in World /\ seen' \in World /\ gateway' \in BOOLEAN
    /\ events' \in 0 .. MaxEvents

LEMMA ProvisionedStep ==
    ASSUME TypeOK, Guards, Provisioned, pass.pc \in Provisioning
    PROVE  TypeOK' /\ Guards'
  <1>1. mr.fin /\ mr'.fin
    BY DEF Guards, Provisioned
  <1>2. TypeOK'
    BY DEF Provisioned, TypeOK
  <1>3. pass'.pc \notin {"finalizer"} \cup Finalizing
    BY DEF Provisioned, Provisioning, Finalizing
  <1>4. pass'.pc \notin {"cleanRoute", "refetch", "degraded", "release"}
    BY <1>3 DEF Finalizing
  <1>5. mr'.phase # "gone"
    BY <1>1 DEF Guards, Provisioned
  <1> QED
    BY <1>1, <1>2, <1>3, <1>4, <1>5 DEF Guards, Provisioned

LEMMA EnsureStep ==
    ASSUME TypeOK, Guards, NEW k, NEW desired, NEW pc \in Provisioning,
           [world EXCEPT ![k] = desired] \in World,
           pass.pc \in Provisioning,
           Ensure(k, desired, pc), UNCHANGED <<seen, gateway, events>>
    PROVE  TypeOK' /\ Guards'
  <1>1. CASE UNCHANGED <<registry, world>> /\ Goto(pc)
    <2>1. pass' \in Pass /\ pass'.pc = pc /\ queued' \in BOOLEAN
      BY <1>1, GotoType
    <2>2. Provisioned
      BY <1>1, <2>1 DEF Provisioned, TypeOK, Guards, SeenInOrder, registry
    <2> QED
      BY <2>2, ProvisionedStep
  <1>2. CASE /\ world' = [world EXCEPT ![k] = desired]
             /\ pass' = [pass EXCEPT !.pc = pc, !.changed = TRUE]
             /\ UNCHANGED <<registry, queued>>
    <2>1. pass' \in Pass /\ pass'.pc = pc
      BY <1>2 DEF TypeOK, Pass, Provisioning
    <2>2. Provisioned
      BY <1>2, <2>1 DEF Provisioned, TypeOK, Guards, SeenInOrder, registry
    <2> QED
      BY <2>2, ProvisionedStep
  <1>3. CASE Unavailable /\ UNCHANGED world
    <2>1. Provisioned
      BY <1>3, UnavailableStep DEF Provisioned, TypeOK
    <2> QED
      BY <2>1, ProvisionedStep
  <1> QED
    BY <1>1, <1>2, <1>3 DEF Ensure

-----------------------------------------------------------------------------
(***************************************************************************)
(* The actions                                                              *)
(***************************************************************************)
LEMMA ResourceSteps ==
    ASSUME TypeOK, Guards,
           \/ ProvisionPostgres \/ ApplyDeployment \/ ApplyPlain \/ ApplyGroup
           \/ ApplyGateway \/ ApplyRoute \/ DeleteOldCatalog
    PROVE  TypeOK' /\ Guards'
  <1>1. CASE ProvisionPostgres
    <2>1. CASE world' = [world EXCEPT !.pg = "none"] /\ Goto("dep") /\ UNCHANGED registry
      <3>1. pass' \in Pass /\ pass'.pc = "dep" /\ queued' \in BOOLEAN
        BY <2>1, GotoType DEF Provisioning
      <3>2. Provisioned
        BY <1>1, <2>1, <3>1 DEF ProvisionPostgres, Provisioned, Provisioning, TypeOK, Guards,
                                SeenInOrder, registry, World
      <3> QED
        BY <1>1, <3>2, ProvisionedStep DEF ProvisionPostgres, Provisioning
    <2>2. CASE /\ world' \in {world, [world EXCEPT !.pg = "right"]}
               /\ pass' = [pass EXCEPT !.pc = "dep", !.host = TRUE]
               /\ UNCHANGED <<registry, queued>>
      <3>1. pass' \in Pass /\ pass'.pc = "dep"
        BY <2>2 DEF TypeOK, Pass
      <3>2. world' \in World
        BY <2>2 DEF TypeOK, World
      <3>3. Provisioned
        BY <1>1, <2>2, <3>1, <3>2 DEF ProvisionPostgres, Provisioned, Provisioning, TypeOK,
                                      Guards, SeenInOrder, registry
      <3> QED
        BY <1>1, <3>3, ProvisionedStep DEF ProvisionPostgres, Provisioning
    <2>3. CASE Unavailable /\ UNCHANGED world
      <3>1. Provisioned
        BY <1>1, <2>3, UnavailableStep DEF ProvisionPostgres, Provisioned, TypeOK
      <3> QED
        BY <1>1, <3>1, ProvisionedStep DEF ProvisionPostgres, Provisioning
    <2> QED
      BY <1>1, <2>1, <2>2, <2>3 DEF ProvisionPostgres
  <1>2. CASE ApplyDeployment
    <2> DEFINE d == [exists |-> TRUE, host |-> pass.host, proxy |-> TRUE]
    <2>1. d \in Deployment
      BY DEF TypeOK, Pass, Deployment
    <2>2. [world EXCEPT !["dep"] = d] \in World
      BY <2>1 DEF TypeOK, World
    <2>3. /\ Ensure("dep", d, "plain") /\ UNCHANGED <<seen, gateway, events>>
          /\ pass.pc \in Provisioning /\ "plain" \in Provisioning
      BY <1>2 DEF ApplyDeployment, Provisioning
    <2> HIDE DEF d
    <2> QED
      BY <2>2, <2>3, EnsureStep
  <1>3. CASE ApplyPlain
    <2>1. [world EXCEPT !["plain"] = TRUE] \in World
      BY DEF TypeOK, World
    <2>3. /\ Ensure("plain", TRUE, "group") /\ UNCHANGED <<seen, gateway, events>>
          /\ pass.pc \in Provisioning /\ "group" \in Provisioning
      BY <1>3 DEF ApplyPlain, Provisioning
    <2> QED
      BY <2>1, <2>3, EnsureStep
  <1>4. CASE ApplyGroup
    <2>1. [world EXCEPT !["group"] = HasUserAPI] \in World
      BY UserAPIAssumption DEF TypeOK, World
    <2>3. /\ Ensure("group", HasUserAPI, "gateway") /\ UNCHANGED <<seen, gateway, events>>
          /\ pass.pc \in Provisioning /\ "gateway" \in Provisioning
      BY <1>4 DEF ApplyGroup, Provisioning
    <2> QED
      BY <2>1, <2>3, EnsureStep
  <1>5. CASE ApplyGateway
    <2>1. (gateway \/ seen.httproute) \in BOOLEAN
      OBVIOUS
    <2>2. [world EXCEPT !["httproute"] = (gateway \/ seen.httproute)] \in World
      BY <2>1 DEF TypeOK, World
    <2>3. /\ Ensure("httproute", gateway \/ seen.httproute, "route")
          /\ UNCHANGED <<seen, gateway, events>>
          /\ pass.pc \in Provisioning /\ "route" \in Provisioning
      BY <1>5 DEF ApplyGateway, Provisioning
    <2> QED
      BY <2>2, <2>3, EnsureStep
  <1>6. CASE ApplyRoute
    <2>1. CASE pass.mr.route /\ Ensure("route", TRUE, "catalog")
      <3>1. [world EXCEPT !["route"] = TRUE] \in World
        BY DEF TypeOK, World
      <3>2. /\ UNCHANGED <<seen, gateway, events>>
            /\ pass.pc \in Provisioning /\ "catalog" \in Provisioning
        BY <1>6 DEF ApplyRoute, Provisioning
      <3> QED
        BY <2>1, <3>1, <3>2, EnsureStep
    <2>2. CASE world' = [world EXCEPT !.route = FALSE] /\ Goto("catalog") /\ UNCHANGED registry
      <3>1. pass' \in Pass /\ pass'.pc = "catalog" /\ queued' \in BOOLEAN
        BY <2>2, GotoType DEF Provisioning
      <3>2. world' \in World
        BY <2>2 DEF TypeOK, World
      <3>3. Provisioned
        BY <1>6, <2>2, <3>1, <3>2 DEF ApplyRoute, Provisioned, Provisioning, TypeOK, Guards,
                                      SeenInOrder, registry
      <3> QED
        BY <1>6, <3>3, ProvisionedStep DEF ApplyRoute, Provisioning
    <2> QED
      BY <1>6, <2>1, <2>2 DEF ApplyRoute
  <1>7. CASE DeleteOldCatalog
    <2>1. pass' \in Pass /\ pass'.pc = "status" /\ queued' \in BOOLEAN
      BY <1>7, GotoType DEF DeleteOldCatalog, Provisioning
    <2>2. world' \in World
      BY <1>7 DEF DeleteOldCatalog, TypeOK, World
    <2>3. Provisioned
      BY <1>7, <2>1, <2>2 DEF DeleteOldCatalog, Provisioned, Provisioning, TypeOK, Guards,
                              SeenInOrder, registry
    <2> QED
      BY <1>7, <2>3, ProvisionedStep DEF DeleteOldCatalog, Provisioning
  <1> QED
    BY <1>1, <1>2, <1>3, <1>4, <1>5, <1>6, <1>7

\* Reading the registry, adding the finalizer and migrating the proxy.
LEMMA RegistrySteps ==
    ASSUME TypeOK, Guards, Begin \/ AddFinalizer \/ MigrateProxy
    PROVE  TypeOK' /\ Guards'
  <1>1. CASE Begin
    <2>1. CASE mrSeen.phase = "gone"
      <3>1. pass' = Idle /\ UNCHANGED <<mr, mrSeen, fresh, world, seen, gateway, events>>
            /\ queued' \in BOOLEAN
        BY <1>1, <2>1 DEF Begin, registry
      <3>2. pass' \in Pass /\ pass'.pc = "idle"
        BY <3>1, ConstantTypes DEF Idle
      <3> QED
        BY <3>1, <3>2 DEF TypeOK, Guards, SeenInOrder, Provisioning, Finalizing
    <2>2. CASE mrSeen.phase # "gone"
      <3>1. /\ pass' = [Idle EXCEPT !.pc = Branch(mrSeen), !.mr = mrSeen, !.held = fresh]
            /\ UNCHANGED <<mr, mrSeen, fresh, world, seen, gateway, events>>
            /\ queued' \in BOOLEAN
        BY <1>1, <2>2 DEF Begin, registry
      <3>2. /\ Branch(mrSeen) \in {"finalizer", "degrade", "migrate", "pg"}
            /\ Branch(mrSeen) = "degrade" => mrSeen.phase = "deleting"
            /\ Branch(mrSeen) = "pg" => mrSeen.fin /\ mrSeen.phase = "live"
        BY <2>2, BranchType DEF TypeOK, Registry
      <3>3. /\ pass' \in Pass /\ pass'.pc = Branch(mrSeen)
            /\ pass'.mr = mrSeen /\ pass'.held = fresh
        BY <3>1, <3>2, ConstantTypes DEF TypeOK, Pass, Idle
      <3> QED
        BY <3>1, <3>2, <3>3 DEF TypeOK, Guards, SeenInOrder, Provisioning, Finalizing
    <2> QED
      BY <2>1, <2>2
  <1>2. CASE AddFinalizer
    <2>1. CASE pass.held /\ mr.phase = "live"
      <3> DEFINE new == [mr EXCEPT !.fin = TRUE]
      <3>1. /\ OwnWrite(new)
            /\ pass' = [pass EXCEPT !.mr.fin = TRUE, !.pc = Branch([pass.mr EXCEPT !.fin = TRUE])]
            /\ UNCHANGED <<queued, world, seen, gateway, events>>
        BY <1>2, <2>1 DEF AddFinalizer
      <3>2. pass.mr = mr
        BY <1>2, <2>1 DEF AddFinalizer, Guards
      <3>3. new \in Registry /\ new.fin /\ new.phase = "live"
        BY <2>1 DEF TypeOK, Registry
      <3>4. Branch(new) \in {"migrate", "pg"}
        BY <3>3, BranchType
      <3>5. pass' \in Pass /\ pass'.pc = Branch(new)
        <4>1. pass.pc = "finalizer"
          BY <1>2 DEF AddFinalizer
        <4> QED
          BY <3>1, <3>2, <3>3, <3>4, <4>1 DEF TypeOK, Pass
      <3>6. mr' = new /\ mrSeen' = mrSeen /\ fresh' \in BOOLEAN /\ (fresh' => fresh /\ mr' = mr)
        BY <3>1 DEF OwnWrite, Write, registry, TypeOK
      <3> HIDE DEF new
      <3>7. TypeOK'
        BY <3>1, <3>3, <3>5, <3>6 DEF TypeOK
      <3>8. SeenInOrder'
        BY <2>1, <3>3, <3>6 DEF Guards, SeenInOrder
      <3> QED
        BY <3>1, <3>3, <3>4, <3>5, <3>6, <3>7, <3>8 DEF Guards, Provisioning, Finalizing
    <2>2. CASE ~(pass.held /\ mr.phase = "live")
      <3>1. UNCHANGED <<mr, mrSeen, fresh, world, seen, gateway, events>> /\ Stop(TRUE)
        BY <1>2, <2>2 DEF AddFinalizer, registry
      <3>2. pass' \in Pass /\ pass'.pc = "idle" /\ queued' \in BOOLEAN
        BY <3>1, StopType
      <3> QED
        BY <3>1, <3>2 DEF TypeOK, Guards, SeenInOrder, Provisioning, Finalizing
    <2> QED
      BY <2>1, <2>2
  <1>3. CASE MigrateProxy
    <2> DEFINE new == [mr EXCEPT !.proxy = "kube", !.route = mr.proxy = "none" \/ @]
    <2>1. new \in Registry /\ new.phase = mr.phase /\ new.fin = mr.fin
      BY DEF TypeOK, Registry
    <2>2. OwnWrite(new) \/ UNCHANGED registry
      BY <1>3 DEF MigrateProxy
    <2>3. Stop(TRUE) /\ UNCHANGED <<world, seen, gateway, events>>
      BY <1>3 DEF MigrateProxy
    <2>4. pass' \in Pass /\ pass'.pc = "idle" /\ queued' \in BOOLEAN
      BY <2>3, StopType
    <2> HIDE DEF new
    <2>5. /\ mr' \in Registry /\ mrSeen' = mrSeen /\ fresh' \in BOOLEAN
          /\ mr'.phase = mr.phase /\ mr'.fin = mr.fin /\ SeenInOrder'
      <3>1. CASE OwnWrite(new)
        BY <2>1, <3>1, OwnWriteType
      <3>2. CASE UNCHANGED registry
        BY <3>2 DEF registry, TypeOK, Guards, SeenInOrder
      <3> QED
        BY <2>2, <3>1, <3>2
    <2> QED
      BY <2>3, <2>4, <2>5 DEF TypeOK, Guards, Provisioning, Finalizing
  <1> QED
    BY <1>1, <1>2, <1>3

\* Reading the registry once more, and reporting its status.
LEMMA StatusSteps ==
    ASSUME TypeOK, Guards, ReadStatus \/ ReportStatus
    PROVE  TypeOK' /\ Guards'
  <1>1. CASE ReadStatus
    <2>1. pass' \in Pass /\ pass'.pc = "report"
      BY <1>1 DEF ReadStatus, TypeOK, Pass
    <2>2. Provisioned
      BY <1>1, <2>1 DEF ReadStatus, Provisioned, Provisioning, TypeOK, Guards, SeenInOrder, registry
    <2> QED
      BY <1>1, <2>2, ProvisionedStep DEF ReadStatus, Provisioning
  <1>2. CASE ReportStatus
    <2> DEFINE healthy == Healthy(seen, pass.mr)
               new == [mr EXCEPT !.available = healthy]
    <2>1. healthy \in BOOLEAN
      BY DEF Healthy
    <2>2. new \in Registry /\ new.phase = mr.phase /\ new.fin = mr.fin
      BY <2>1 DEF TypeOK, Registry
    <2>3. (OwnWrite(new) \/ UNCHANGED registry) /\ UNCHANGED <<world, seen, gateway, events>>
      BY <1>2 DEF ReportStatus
    <2>4. Stop(~pass.held \/ ~healthy \/ pass.changed)
      BY <1>2 DEF ReportStatus
    <2> HIDE DEF new, healthy
    <2>5. pass' \in Pass /\ pass'.pc = "idle" /\ queued' \in BOOLEAN
      BY <2>4, StopType
    <2>6. /\ mr' \in Registry /\ mrSeen' = mrSeen /\ fresh' \in BOOLEAN
          /\ mr'.phase = mr.phase /\ mr'.fin = mr.fin /\ SeenInOrder'
      <3>1. CASE OwnWrite(new)
        BY <2>2, <3>1, OwnWriteType
      <3>2. CASE UNCHANGED registry
        BY <3>2 DEF registry, TypeOK, Guards, SeenInOrder
      <3> QED
        BY <2>3, <3>1, <3>2
    <2>7. Provisioned
      BY <2>3, <2>5, <2>6 DEF Provisioned, TypeOK
    <2> QED
      BY <1>2, <2>7, ProvisionedStep DEF ReportStatus, Provisioning
  <1> QED
    BY <1>1, <1>2

\* The finalizer: the Group and the HTTPRoute go first.
LEMMA DeletionSteps ==
    ASSUME TypeOK, Guards,
           \/ SetDegraded("degrade", "Unknown", "clean")
           \/ SetDegraded("degraded", "True", "release")
           \/ CleanGroup \/ CleanRoute \/ Refetch \/ Release
    PROVE  TypeOK' /\ Guards'
  <1>1. ASSUME NEW value \in {"Unknown", "True"}, NEW pc \in {"degrade", "degraded"},
               NEW next \in Finalizing, SetDegraded(pc, value, next),
               next \in {"release"} => pc = "degraded", next \in {"release", "clean"}
        PROVE  TypeOK' /\ Guards'
    <2> DEFINE new == [mr EXCEPT !.degraded = value]
    <2>1. new \in Registry /\ new.phase = mr.phase /\ new.fin = mr.fin
      BY <1>1 DEF TypeOK, Registry
    <2>2. OwnWrite(new) \/ UNCHANGED registry
      BY <1>1 DEF SetDegraded
    <2>3. Goto(next) /\ UNCHANGED <<world, seen, gateway, events>> /\ pass.pc = pc
      BY <1>1 DEF SetDegraded
    <2> HIDE DEF new
    <2>4. pass' \in Pass /\ pass'.pc = next /\ queued' \in BOOLEAN
      BY <1>1, <2>3, GotoType
    <2>5. /\ mr' \in Registry /\ mrSeen' = mrSeen /\ fresh' \in BOOLEAN
          /\ mr'.phase = mr.phase /\ mr'.fin = mr.fin /\ SeenInOrder'
      <3>1. CASE OwnWrite(new)
        BY <2>1, <3>1, OwnWriteType
      <3>2. CASE UNCHANGED registry
        BY <3>2 DEF registry, TypeOK, Guards, SeenInOrder
      <3> QED
        BY <2>2, <3>1, <3>2
    <2> QED
      BY <1>1, <2>3, <2>4, <2>5 DEF TypeOK, Guards, Provisioning, Finalizing
  <1>2. CASE SetDegraded("degrade", "Unknown", "clean")
    BY <1>1, <1>2 DEF Finalizing
  <1>3. CASE SetDegraded("degraded", "True", "release")
    BY <1>1, <1>3 DEF Finalizing
  <1>4. CASE CleanGroup
    <2>1. pass' \in Pass /\ pass'.pc = "cleanRoute" /\ queued' \in BOOLEAN
      BY <1>4, GotoType DEF CleanGroup, Finalizing
    <2>2. world' \in World /\ ~world'.group /\ world'.httproute = world.httproute
      BY <1>4 DEF CleanGroup, TypeOK, World
    <2> QED
      BY <1>4, <2>1, <2>2 DEF CleanGroup, registry, TypeOK, Guards, SeenInOrder, Provisioning,
                              Finalizing
  <1>5. CASE CleanRoute
    <2>1. pass' \in Pass /\ pass'.pc = "refetch" /\ queued' \in BOOLEAN
      BY <1>5, GotoType DEF CleanRoute, Finalizing
    <2>2. world' \in World /\ ~world'.httproute /\ world'.group = world.group
      BY <1>5 DEF CleanRoute, CleansRoute, TypeOK, World
    <2> QED
      BY <1>5, <2>1, <2>2 DEF CleanRoute, registry, TypeOK, Guards, SeenInOrder, Provisioning,
                              Finalizing
  <1>6. CASE Refetch
    <2>1. pass' \in Pass /\ pass'.pc = "degraded"
      BY <1>6 DEF Refetch, TypeOK, Pass
    <2> QED
      BY <1>6, <2>1 DEF Refetch, registry, TypeOK, Guards, SeenInOrder, Provisioning, Finalizing
  <1>7. CASE Release
    <2> DEFINE bare == [mr EXCEPT !.fin = FALSE]
    <2>1. bare \in Registry /\ ~bare.fin /\ bare.phase = mr.phase
      BY DEF TypeOK, Registry
    <2>2. Removed(bare) \in Registry /\ ~Removed(bare).fin
      BY <2>1, RemovedType
    <2>3. mrSeen.phase # "live" /\ mr.phase # "live" /\ Removed(bare).phase # "live"
      BY <1>7, <2>1, RemovedType DEF Release, Guards, Finalizing, SeenInOrder
    <2>4. /\ ~world.group /\ ~world.httproute
          /\ UNCHANGED <<world, seen, gateway, events>> /\ Stop(FALSE)
      BY <1>7 DEF Release, Guards
    <2>5. pass' \in Pass /\ pass'.pc = "idle" /\ queued' \in BOOLEAN
      BY <2>4, StopType
    <2>6. /\ mr' \in {mr, Removed(bare)} /\ mrSeen' = mrSeen /\ fresh' \in BOOLEAN
          /\ fresh' => fresh /\ mr' = mr
      BY <1>7 DEF Release, OwnWrite, Write, registry, TypeOK
    <2> HIDE DEF bare
    <2> QED
      BY <2>2, <2>3, <2>4, <2>5, <2>6 DEF TypeOK, Guards, SeenInOrder, Provisioning, Finalizing
  <1> QED
    BY <1>2, <1>3, <1>4, <1>5, <1>6, <1>7

\* API errors and restarts.
LEMMA FaultSteps ==
    ASSUME TypeOK, Guards, Fails \/ Restart
    PROVE  TypeOK' /\ Guards'
  <1>1. CASE Fails
    <2>1. /\ mr' \in Registry /\ mrSeen' = mrSeen /\ fresh' \in BOOLEAN
          /\ mr'.phase = mr.phase /\ mr'.fin = mr.fin /\ SeenInOrder'
          /\ pass' \in Pass /\ pass'.pc = "idle" /\ queued' \in BOOLEAN
      <3>1. CASE Unavailable
        BY <3>1, UnavailableStep
      <3>2. CASE UNCHANGED registry /\ Stop(TRUE)
        BY <3>2, StopType DEF registry, TypeOK, Guards, SeenInOrder
      <3> QED
        BY <1>1, <3>1, <3>2 DEF Fails
    <2>2. events' \in 0 .. MaxEvents /\ UNCHANGED <<world, seen, gateway>>
      BY <1>1, EventType DEF Fails
    <2> QED
      BY <2>1, <2>2 DEF TypeOK, Guards, Provisioning, Finalizing
  <1>2. CASE Restart
    <2>1. pass' \in Pass /\ pass'.pc = "idle"
      BY <1>2, ConstantTypes DEF Restart, Idle
    <2>2. events' \in 0 .. MaxEvents
      BY <1>2, EventType DEF Restart
    <2> QED
      BY <1>2, <2>1, <2>2 DEF Restart, registry, TypeOK, Guards, SeenInOrder, Provisioning,
                              Finalizing
  <1> QED
    BY <1>1, <1>2

\* The informers catch up.
LEMMA SyncSteps ==
    ASSUME TypeOK, Guards, SyncRegistry \/ \E k \in DOMAIN seen : Sync(k)
    PROVE  TypeOK' /\ Guards'
  <1>1. CASE SyncRegistry
    BY <1>1 DEF SyncRegistry, TypeOK, Guards, SeenInOrder
  <1>2. ASSUME NEW k \in DOMAIN seen, Sync(k)
        PROVE  TypeOK' /\ Guards'
    <2>1. seen' \in World
      BY <1>2 DEF Sync, TypeOK, World
    <2> QED
      BY <1>2, <2>1 DEF Sync, registry, TypeOK, Guards, SeenInOrder
  <1> QED
    BY <1>1, <1>2

\* Users, the cluster and the Catalog operator.
LEMMA EnvironmentSteps ==
    ASSUME TypeOK, Guards, EditRegistry \/ Drift \/ CatalogTakesOver \/ RollOut \/ Age \/ GoesDown
    PROVE  TypeOK' /\ Guards'
  <1>1. CASE EditRegistry
    <2>1. PICK new \in {[mr EXCEPT !.route = ~@], [mr EXCEPT !.proxy = "oauth"],
                        [mr EXCEPT !.phase = "deleting"], [mr EXCEPT !.other = FALSE]} :
            /\ mr.phase = "live" \/ new.other # mr.other
            /\ Write(Removed(new))
      BY <1>1 DEF EditRegistry
    <2>2. /\ new \in Registry /\ new.fin = mr.fin
          /\ new.phase \in {mr.phase, "deleting"}
          /\ mr.phase = "gone" => new.phase = "gone"
      BY <2>1 DEF TypeOK, Registry
    <2>3. /\ Removed(new) \in Registry
          /\ Removed(new).fin => mr.fin
          /\ mr.fin => Removed(new) = new
          /\ mr.phase # "live" => Removed(new).phase # "live"
          /\ Removed(new).phase = "gone" => ~Removed(new).fin
      BY <2>2, RemovedType DEF Guards, Gone
    <2>4. mr' = Removed(new) /\ ~fresh' /\ fresh' \in BOOLEAN /\ mrSeen' = mrSeen
      BY <2>1 DEF Write
    <2>5. pass' \in Pass /\ pass'.pc = pass.pc /\ ~pass'.held
      BY <1>1 DEF EditRegistry, TypeOK, Pass
    <2>6. events' \in 0 .. MaxEvents /\ UNCHANGED <<world, seen, gateway, queued>>
      BY <1>1, EventType DEF EditRegistry
    <2>7. TypeOK'
      BY <2>3, <2>4, <2>5, <2>6 DEF TypeOK
    <2>8. SeenInOrder'
      BY <2>2, <2>3, <2>4 DEF Guards, SeenInOrder
    <2>9. mr'.fin = mr.fin
      BY <2>2, <2>3, <2>4 DEF TypeOK, Registry
    <2> QED
      BY <2>3, <2>4, <2>5, <2>6, <2>7, <2>8, <2>9 DEF Guards
  <1>2. CASE Drift \/ CatalogTakesOver \/ RollOut \/ Age \/ GoesDown
    <2>1. world' \in World /\ world'.group = world.group /\ world'.httproute = world.httproute
      <3>1. CASE Drift
        <4>1. [world.dep EXCEPT !.exists = FALSE] \in Deployment
          BY DEF TypeOK, World, Deployment
        <4>2. \/ world' = [world EXCEPT !.plain = FALSE]
              \/ world' = [world EXCEPT !.route = FALSE]
              \/ world' = [world EXCEPT !.dep = [world.dep EXCEPT !.exists = FALSE]]
          BY <3>1 DEF Drift
        <4> QED
          BY <4>1, <4>2 DEF TypeOK, World
      <3>2. CASE CatalogTakesOver
        BY <3>2 DEF CatalogTakesOver, TypeOK, World
      <3>3. CASE RollOut
        BY <3>3 DEF RollOut, TypeOK, World, Deployment
      <3>4. CASE Age \/ GoesDown
        BY <3>4 DEF Age, GoesDown, TypeOK, World
      <3> QED
        BY <1>2, <3>1, <3>2, <3>3, <3>4
    <2>2. seen' \in World
      BY <1>2 DEF Drift, CatalogTakesOver, RollOut, Age, GoesDown, TypeOK, World
    <2>3. events' \in 0 .. MaxEvents
      BY <1>2, EventType DEF Drift, CatalogTakesOver, RollOut, Age, GoesDown, TypeOK
    <2>4. UNCHANGED <<mr, mrSeen, fresh, gateway, pass, queued>>
      BY <1>2 DEF Drift, CatalogTakesOver, RollOut, Age, GoesDown, registry
    <2> QED
      BY <2>1, <2>2, <2>3, <2>4 DEF TypeOK, Guards, SeenInOrder
  <1> QED
    BY <1>1, <1>2

-----------------------------------------------------------------------------
(***************************************************************************)
(* Theorems                                                                 *)
(***************************************************************************)
LEMMA InitGuards == Init => FinalizerGuards
  <1> SUFFICES ASSUME Init PROVE FinalizerGuards
    OBVIOUS
  <1>1. mr \in Registry /\ mr.phase = "live" /\ ~mr.fin
    BY DEF Init, Gone, Registry
  <1>2. world \in World /\ ~world.group /\ ~world.httproute
    BY ConstantTypes DEF Init, NewWorld, OldWorld
  <1>3. pass \in Pass /\ pass.pc = "idle"
    BY ConstantTypes DEF Init, Idle
  <1>4. events \in 0 .. MaxEvents
    BY BoundsAssumption DEF Init
  <1> QED
    BY <1>1, <1>2, <1>3, <1>4 DEF Init, FinalizerGuards, TypeOK, Guards, SeenInOrder,
                                  Provisioning, Finalizing

LEMMA NextGuards == FinalizerGuards /\ [Next]_vars => FinalizerGuards'
  <1> SUFFICES ASSUME TypeOK, Guards, [Next]_vars PROVE TypeOK' /\ Guards'
    BY DEF FinalizerGuards
  <1>1. CASE UNCHANGED vars
    BY <1>1 DEF vars, TypeOK, Guards, SeenInOrder
  <1>2. CASE Next
    BY <1>2, RegistrySteps, ResourceSteps, StatusSteps, DeletionSteps, FaultSteps, SyncSteps,
       EnvironmentSteps DEF Next, Reconcile, Environment
  <1> QED
    BY <1>1, <1>2

\* The finalizer guards what the registry cannot own, whatever the informers show and
\* whichever calls fail: a pass creates the Group and the HTTPRoute only under the
\* finalizer, and removes the finalizer only after both are gone.
THEOREM FinalizerIsKept == Spec => []FinalizerGuards
  BY InitGuards, NextGuards, PTL DEF Spec

\* A registry that is gone leaves neither its Group nor its HTTPRoute behind, for
\* every number of edits, errors and restarts with and without a gateway.
THEOREM GoneIsClean == Spec => []GoneMeansClean
  <1>1. FinalizerGuards => GoneMeansClean
    BY DEF FinalizerGuards, Guards, GoneMeansClean
  <1> QED
    BY <1>1, FinalizerIsKept, PTL
=============================================================================
