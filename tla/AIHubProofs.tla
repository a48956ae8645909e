----------------------------- MODULE AIHubProofs -----------------------------
(***************************************************************************)
(* Theorems about AIHub: the invariant Consistent and what follows from it, *)
(* for any set of lagging informers and any number of edits, crashes and    *)
(* faults.                                                                  *)
(***************************************************************************)
EXTENDS AIHub, TLAPS

-----------------------------------------------------------------------------
(***************************************************************************)
(* Types                                                                    *)
(***************************************************************************)
LEMMA Constants ==
    /\ NoHubStatus \in HubStatus
    /\ NoReport \in Report
    /\ NoCatalog \in Catalog /\ NewCatalog \in Catalog
    /\ NoChild \in ChildDeployment /\ LegacyChild \in ChildDeployment
    /\ Idle \in Reconciler
    /\ Down \in Operator
  <1>1. NoHubStatus \in HubStatus /\ NoReport \in Report
    BY DEF NoHubStatus, HubStatus, NoReport, Report
  <1>2. NoCatalog \in Catalog
    BY <1>1 DEF NoCatalog, Catalog
  <1>3. NewCatalog \in Catalog
    BY <1>2, IsOpenShiftAssumption DEF NewCatalog, Catalog
  <1>4. NoChild \in ChildDeployment /\ LegacyChild \in ChildDeployment
    BY DEF NoChild, LegacyChild, ChildDeployment
  <1>5. Idle \in Reconciler
    BY <1>1 DEF Idle, Reconciler
  <1>6. Down \in Operator
    BY DEF Down, Operator
  <1> QED
    BY <1>1, <1>2, <1>3, <1>4, <1>5, <1>6

\* What a reconcile that begins knows.
Begun(r) ==
    /\ r \in Reconciler
    /\ r.pc \in {"deploy", "write"}
    /\ r.pc = "write" => ~r.st.prov
    /\ r.gen = view.hub.gen
    /\ r.st.data = view.hub.st.data /\ r.st.dataGen = view.hub.st.dataGen

\* A reconcile that provisions goes on.
GoesOn(r) ==
    /\ r \in Reconciler
    /\ r.gen = rec.gen
    /\ r.pc \in {"assess", "write"}

LEMMA BeginRec ==
    ASSUME TypeOK, Begin \/ BeginFails
    PROVE  Begun(rec')
  <1> DEFINE r == [Idle EXCEPT !.gen = view.hub.gen, !.st = view.hub.st]
  <1>1. view.hub \in Hub
    BY DEF TypeOK
  <1>2. /\ r \in Reconciler /\ r.gen = view.hub.gen /\ r.st = view.hub.st
        /\ r.st \in HubStatus
    BY <1>1, Constants DEF Reconciler, Hub
  <1> HIDE DEF r
  <1>3. Begun([r EXCEPT !.pc = "deploy"])
    BY <1>2 DEF Begun, Reconciler
  <1>4. Begun([r EXCEPT !.pc = "write", !.st.prov = FALSE, !.again = TRUE])
    BY <1>2 DEF Begun, Reconciler, HubStatus
  <1>5. Begun(Degraded(r))
    BY <1>2 DEF Begun, Reconciler, HubStatus, Degraded
  <1>6. CASE Begin
    BY <1>3, <1>4, <1>6 DEF Begin, r
  <1>7. CASE BeginFails
    BY <1>5, <1>7 DEF BeginFails, r
  <1> QED
    BY <1>6, <1>7

LEMMA DeployRec ==
    ASSUME TypeOK, Deploy
    PROVE  /\ GoesOn(rec') /\ rec'.pc = "assess" /\ rec'.st.prov
           /\ rec'.st.data = rec.st.data /\ rec'.st.dataGen = rec.st.dataGen
  BY DEF TypeOK, Deploy, GoesOn, Reconciler, HubStatus

LEMMA DeployFailsRec ==
    ASSUME TypeOK, DeployFails
    PROVE  /\ GoesOn(rec') /\ rec'.pc = "write" /\ ~rec'.st.prov
           /\ rec'.st.data = rec.st.data /\ rec'.st.dataGen = rec.st.dataGen
  <1>1. rec' = Degraded(rec)
    BY DEF DeployFails
  <1> QED
    BY <1>1 DEF TypeOK, Degraded, GoesOn, Reconciler, HubStatus

LEMMA ChildrenDownRec ==
    ASSUME TypeOK, ChildrenDown
    PROVE  /\ GoesOn(rec') /\ rec'.pc = "write" /\ rec'.st.prov = rec.st.prov
           /\ rec'.st.data = rec.st.data /\ rec'.st.dataGen = rec.st.dataGen
  <1>1. Mr \in BOOLEAN
    BY DEF Mr, IsAvailable
  <1>2. rec \in Reconciler /\ rec.st \in HubStatus
    BY DEF TypeOK, Reconciler
  <1> DEFINE co == IF Mr THEN FALSE ELSE rec.st.co
             s == [rec.st EXCEPT !.mr = Mr, !.co = co, !.degraded = FALSE]
  <1>3. co \in BOOLEAN
    BY <1>2 DEF HubStatus
  <1>4. rec' = [rec EXCEPT !.pc = "write", !.st = s, !.again = TRUE]
    BY <1>2 DEF ChildrenDown, Reconciler, HubStatus
  <1> HIDE DEF co
  <1>5. /\ s \in HubStatus /\ s.prov = rec.st.prov
        /\ s.data = rec.st.data /\ s.dataGen = rec.st.dataGen
    BY <1>1, <1>2, <1>3 DEF HubStatus
  <1> HIDE DEF s
  <1> QED
    BY <1>2, <1>4, <1>5 DEF GoesOn, Reconciler

LEMMA JudgedRec ==
    ASSUME TypeOK, NEW c \in Catalog, rec' = Judged(c)
    PROVE  /\ GoesOn(rec') /\ rec'.pc = "write" /\ rec'.st.prov = rec.st.prov
           /\ rec'.st.data = CatalogReady(c) /\ rec'.st.dataGen = c.gen
  <1>1. /\ CatalogReady(c) \in BOOLEAN
        /\ (CatalogFailed(c) \/ rec.gen \notin DomainGens) \in BOOLEAN
    BY DEF CatalogReady, CatalogFailed, Catalog, Report
  <1>2. c.gen \in Nat
    BY DEF Catalog
  <1> DEFINE s == [rec.st EXCEPT !.mr = TRUE, !.co = TRUE, !.data = CatalogReady(c),
                                 !.dataGen = c.gen,
                                 !.degraded = CatalogFailed(c) \/ rec.gen \notin DomainGens]
  <1>3. rec.st \in HubStatus
    BY DEF TypeOK, Reconciler
  <1>4. /\ s \in HubStatus /\ s.prov = rec.st.prov /\ s.data = CatalogReady(c)
        /\ s.dataGen = c.gen
    BY <1>1, <1>2, <1>3 DEF HubStatus
  <1>5. rec' = [rec EXCEPT !.pc = "write", !.again = ~CatalogReady(c), !.st = s]
    BY <1>3 DEF Judged, TypeOK, Reconciler, HubStatus
  <1> HIDE DEF s
  <1>6. (~CatalogReady(c)) \in BOOLEAN
    OBVIOUS
  <1> QED
    BY <1>4, <1>5, <1>6 DEF TypeOK, GoesOn, Reconciler

LEMMA TeardownRec ==
    ASSUME TypeOK, Passes, DeleteCatalog \/ Check \/ TakeOver
    PROVE  /\ rec' \in Reconciler
           /\ \/ rec' = Idle
              \/ rec'.pc \in {"check", "takeover"} /\ (rec'.st = rec.st \/ ~rec'.st.data)
           /\ rec'.pc = "check" => DeleteCatalog
           /\ rec'.pc = "takeover" =>
                 \/ Check /\ rec'.todo = <<"route", "proxy", "release">>
                 \/ TakeOver /\ rec.pc = "takeover" /\ rec'.todo = Tail(rec.todo)
                             /\ rec'.todo \in {<<"proxy", "release">>, <<"release">>}
  <1>1. CASE DeleteCatalog
    BY <1>1, Constants DEF DeleteCatalog, Idle, NoHubStatus, Reconciler
  <1>2. CASE Check
    <2>1. TakeOverSteps \in Seq(Resource \cup {"release"})
      BY DEF TakeOverSteps, Resource
    <2>2. CASE rec' = Idle
      BY <2>2, Constants DEF Idle
    <2>3. CASE rec' = [rec EXCEPT !.pc = "takeover", !.todo = TakeOverSteps]
      <3>1. /\ rec' \in Reconciler /\ rec'.st = rec.st /\ rec'.pc = "takeover"
            /\ rec'.todo = TakeOverSteps
        BY <2>1, <2>3 DEF TypeOK, Reconciler
      <3> QED
        BY <1>2, <3>1 DEF TakeOverSteps
    <2> QED
      BY <1>2, <2>2, <2>3 DEF Check, Finish
  <1>3. CASE TakeOver
    <2>1. /\ rec.todo \in {<<"route", "proxy", "release">>, <<"proxy", "release">>, <<"release">>}
          /\ Head(rec.todo) # "release"
          /\ rec.pc = "takeover"
      BY <1>3 DEF TakeOver, Passes, Resource
    <2>2. /\ Tail(rec.todo) \in {<<"proxy", "release">>, <<"release">>}
          /\ Tail(rec.todo) \in Seq(Resource \cup {"release"})
      <3>1. /\ Tail(<<"route", "proxy", "release">>) = <<"proxy", "release">>
            /\ Tail(<<"proxy", "release">>) = <<"release">>
            /\ Head(<<"release">>) = "release"
        OBVIOUS
      <3>2. {<<"proxy", "release">>, <<"release">>} \subseteq Seq(Resource \cup {"release"})
        BY DEF Resource
      <3> QED
        BY <2>1, <3>1, <3>2
    <2>3. rec' = [rec EXCEPT !.todo = Tail(rec.todo)]
      BY <1>3 DEF TakeOver
    <2>4. /\ rec' \in Reconciler /\ rec'.st = rec.st /\ rec'.pc = rec.pc
          /\ rec'.todo = Tail(rec.todo)
      BY <2>2, <2>3 DEF TypeOK, Reconciler
    <2> QED
      BY <1>3, <2>1, <2>2, <2>4
  <1> QED
    BY <1>1, <1>2, <1>3

\* The steps that write the AIHub, the Catalog and the Deployments.
HubSteps == Begin \/ WriteStatus \/ Release \/ EditHub \/ DeleteHub
CatSteps ==
    \/ CreateCatalog \/ MigrateCatalog \/ DeleteCatalog \/ TakeOverRelease
    \/ OpBegin \/ OpReport \/ OpRelease \/ EditSelection \/ CollectCatalog
DepSteps ==
    \/ Begin \/ Deploy \/ DeployFails \/ OpStarts \/ OpReady \/ OpUnready \/ OpMissed
    \/ RegistryStarts \/ RegistryStops
    \/ LegacyRemoved \/ LegacyReplaced \/ CollectDeployment

Acts == Reconcile \/ OperatorSteps \/ Environment

LEMMA Frames ==
    ASSUME Acts
    PROVE  /\ HubSteps \/ hub' = hub
           /\ CatSteps \/ cat' = cat
           /\ DepSteps \/ dep' = dep
           /\ view' = view
           /\ OpReport \/ earned' = earned
           /\ Reconcile \/ UNCHANGED <<rec, queue>>
  <1>1. CASE Reconcile
    BY <1>1 DEF Reconcile, EnsureCatalog, HubSteps, CatSteps, DepSteps,
       Begin, BeginFails, BeginNothing, Deploy, DeployFails, ChildrenDown,
       CreateCatalog, MigrateCatalog, KeepCatalog, EnsureCatalogFails, WriteStatus, Release,
       DeleteCatalog, Check, TakeOver, TakeOverRelease, CallFails
  <1>2. CASE OperatorSteps
    BY <1>2 DEF OperatorSteps, HubSteps, CatSteps, DepSteps, OpBegin, OpStep, OpReport, OpRelease
  <1>3. CASE Environment
    BY <1>3 DEF Environment, HubSteps, CatSteps, DepSteps, OpStarts, OpReady, OpUnready,
       OpStops, OpMissed, RegistryStarts, RegistryStops, LegacyRemoved, LegacyReplaced,
       EditHub, EditSelection, DeleteHub, CollectCatalog, CollectDeployment
  <1> QED
    BY <1>1, <1>2, <1>3 DEF Acts

\* What is written is not in the informer's copy yet.
Written ==
    /\ view' = view
    /\ stale \subseteq stale'
    /\ hub' # hub => "hub" \in stale'
    /\ cat' # cat => "cat" \in stale'
    /\ \A c \in Child : dep'[c] # dep[c] => c \in stale'
    /\ stale' \subseteq Informer

LEMMA WrittenStep ==
    ASSUME TypeOK, Acts
    PROVE  Written
  <1> USE DEF Written
  <1>0. stale \subseteq Informer /\ Child \subseteq Informer
    BY DEF TypeOK, Informer
  <1>1. CASE Begin
    <2>1. view' = view /\ cat' = cat
      BY <1>1 DEF Begin
    <2>2. stale' = stale \cup (IF hub' # hub THEN {"hub"} ELSE {})
                         \cup {c \in Child : dep'[c] # dep[c]}
      BY <1>1 DEF Begin
    <2> QED
      BY <1>0, <2>1, <2>2 DEF Informer
  <1>2. CASE WriteStatus \/ Release \/ EditHub \/ DeleteHub
    <2>1. PICK h : WriteHub(h) /\ UNCHANGED <<view, cat, dep>>
      BY <1>2 DEF WriteStatus, Release, EditHub, DeleteHub
    <2> QED
      BY <1>0, <2>1 DEF WriteHub, Informer
  <1>3. CASE CatSteps
    <2>1. UNCHANGED <<view, hub, dep>> /\ ((UNCHANGED <<cat, stale>>) \/ \E c : WriteCat(c))
      BY <1>3 DEF CatSteps, CreateCatalog, MigrateCatalog, DeleteCatalog, TakeOverRelease,
         OpBegin, OpReport, OpRelease, EditSelection, CollectCatalog
    <2> QED
      BY <1>0, <2>1 DEF WriteCat, Informer
  <1>4. CASE DepSteps /\ ~Begin
    <2>1. UNCHANGED <<view, hub, cat>> /\ \E d : WriteDep(d)
      BY <1>4 DEF DepSteps, Deploy, DeployFails, OpStarts, OpReady, OpUnready, OpMissed,
         RegistryStarts, RegistryStops, LegacyRemoved, LegacyReplaced, CollectDeployment
    <2> QED
      BY <1>0, <2>1 DEF WriteDep
  <1>5. CASE BeginFails \/ BeginNothing \/ ChildrenDown \/ KeepCatalog
             \/ EnsureCatalogFails \/ Check \/ TakeOver \/ CallFails \/ OpStep \/ OpStops
    <2>1. UNCHANGED <<view, hub, cat, dep, stale>>
      BY <1>5 DEF BeginFails, BeginNothing, ChildrenDown, KeepCatalog,
         EnsureCatalogFails, Check, TakeOver, CallFails, OpStep, OpStops
    <2> QED
      BY <1>0, <2>1
  <1> QED
    BY <1>1, <1>2, <1>3, <1>4, <1>5 DEF Acts, Reconcile, EnsureCatalog, OperatorSteps,
       Environment, CatSteps, DepSteps

LEMMA HubType ==
    ASSUME TypeOK, HubSteps
    PROVE  hub' \in Hub
  <1>0. hub \in Hub /\ rec \in Reconciler
    BY DEF TypeOK
  <1>1. CASE Begin
    BY <1>0, <1>1 DEF Begin, EnsureFinalizer, Hub
  <1>2. CASE WriteStatus
    <2>1. Published \in HubStatus
      BY <1>0 DEF Published, Reconciler, HubStatus
    <2> QED
      BY <1>0, <1>2, <2>1 DEF WriteStatus, WriteHub, Hub
  <1>3. CASE Release \/ DeleteHub
    BY <1>0, <1>3, Constants DEF Release, DeleteHub, WriteHub, Gone, Hub
  <1>4. CASE EditHub
    BY <1>0, <1>4 DEF EditHub, WriteHub, Hub
  <1> QED
    BY <1>1, <1>2, <1>3, <1>4 DEF HubSteps

LEMMA CatType ==
    ASSUME TypeOK, CatSteps
    PROVE  cat' \in Catalog
  <1>0. cat \in Catalog /\ op \in Operator
    BY DEF TypeOK
  <1>1. Deleted(cat) \in Catalog
    BY <1>0, Constants DEF Deleted, Catalog
  <1>2. Unfinalized(cat) \in Catalog
    BY <1>0, Constants DEF Unfinalized, Catalog
  <1>3. Migrated(cat) \in Catalog
    <2>1. cat.gen \in Nat /\ cat.gen + 1 \in Nat
      BY <1>0 DEF Catalog
    <2> QED
      BY <1>0, <2>1 DEF Migrated, Catalog
  <1>4. CASE CreateCatalog \/ MigrateCatalog \/ DeleteCatalog \/ TakeOverRelease \/ OpRelease
             \/ CollectCatalog
    BY <1>0, <1>1, <1>2, <1>3, <1>4, Constants DEF CreateCatalog, MigrateCatalog, DeleteCatalog,
       TakeOverRelease, OpRelease, CollectCatalog, WriteCat
  <1>5. CASE OpBegin
    BY <1>0, <1>5 DEF OpBegin, WriteCat, Catalog
  <1>6. CASE OpReport
    <2>1. PICK ready \in BOOLEAN :
            \/ cat' = cat
            \/ cat' = [cat EXCEPT !.rep = [gen |-> op.gen, ready |-> ready, failed |-> ~ready]]
      BY <1>6 DEF OpReport, WriteCat
    <2>2. [gen |-> op.gen, ready |-> ready, failed |-> ~ready] \in Report
      BY <1>0 DEF Report, Operator
    <2> QED
      BY <1>0, <2>1, <2>2 DEF Catalog
  <1>7. CASE EditSelection
    <2>1. PICK s \in {"release", "pinned"} : cat' = [cat EXCEPT !.sel = s, !.gen = cat.gen + 1]
      BY <1>7 DEF EditSelection, WriteCat
    <2>2. cat.gen \in Nat /\ cat.gen + 1 \in Nat
      BY <1>0 DEF Catalog
    <2> QED
      BY <1>0, <2>1, <2>2 DEF Catalog
  <1> QED
    BY <1>4, <1>5, <1>6, <1>7 DEF CatSteps

\* The steps that change nothing of a Deployment but its availability.
LEMMA AvailMoves ==
    ASSUME TypeOK, OpStarts \/ OpReady \/ OpMissed \/ RegistryStarts \/ RegistryStops
    PROVE  \E c \in Child, a \in {"no", "zero", "yes"} : dep' = [dep EXCEPT ![c].avail = a]
  <1>0. /\ dep \in [Child -> ChildDeployment] /\ dep["catalog"] \in ChildDeployment
        /\ "catalog" \in Child /\ "registry" \in Child
    BY DEF TypeOK, Child
  <1>1. CASE OpStarts
    <2> DEFINE a == IF dep["catalog"].avail = "zero" THEN "no" ELSE dep["catalog"].avail
    <2>1. dep' = [dep EXCEPT !["catalog"].avail = a]
      BY <1>0, <1>1 DEF OpStarts, WriteDep
    <2>2. a \in {"no", "zero", "yes"}
      BY <1>0 DEF ChildDeployment
    <2> QED
      BY <1>0, <2>1, <2>2
  <1>2. CASE OpReady \/ OpMissed \/ RegistryStarts \/ RegistryStops
    BY <1>0, <1>2 DEF OpReady, OpMissed, RegistryStarts, RegistryStops, WriteDep
  <1> QED
    BY <1>1, <1>2

LEMMA DepType ==
    ASSUME TypeOK, DepSteps
    PROVE  dep' \in [Child -> ChildDeployment]
  <1>0. dep \in [Child -> ChildDeployment] /\ rec.gen \in Nat
    BY DEF TypeOK, Reconciler
  <1>1. \A c \in Child : /\ NewChild(dep[c], rec.gen) \in ChildDeployment
                          /\ NewChild(dep[c], 0) \in ChildDeployment
                          /\ Removed(dep[c]) \in ChildDeployment
                          /\ Stamped(dep[c], rec.gen) \in ChildDeployment
    BY <1>0 DEF Stamped, ChildDeployment, NewChild, Removed, NoChild
  <1>2. \A c \in Child : \A a \in {"no", "zero", "yes"}, p \in {"terminating", "current"} :
            /\ [dep[c] EXCEPT !.avail = a] \in ChildDeployment
            /\ [dep[c] EXCEPT !.phase = p] \in ChildDeployment
    BY <1>0 DEF ChildDeployment
  <1>3. CASE Begin
    BY <1>0, <1>2, <1>3 DEF Begin, DeleteIncompatible
  <1>4. CASE Deploy
    BY <1>0, <1>1, <1>4 DEF Deploy, WriteDep
  <1>5. CASE DeployFails
    BY <1>0, <1>1, <1>5 DEF DeployFails, WriteDep
  <1>6. CASE OpStarts \/ OpReady \/ OpMissed \/ RegistryStarts \/ RegistryStops
    <2>1. PICK c \in Child, a \in {"no", "zero", "yes"} : dep' = [dep EXCEPT ![c].avail = a]
      BY <1>6, AvailMoves
    <2>2. dep' = [dep EXCEPT ![c] = [dep[c] EXCEPT !.avail = a]]
      BY <1>0, <2>1
    <2> QED
      BY <1>0, <1>2, <2>2
  <1>7. CASE OpUnready \/ LegacyRemoved \/ LegacyReplaced \/ CollectDeployment
    <2>1. \E c \in Child, d \in ChildDeployment : dep' = [dep EXCEPT ![c] = d]
      <3>1. CASE OpUnready
        BY <1>1, <1>2, <3>1 DEF OpUnready, WriteDep, Child
      <3>2. CASE LegacyRemoved \/ LegacyReplaced \/ CollectDeployment
        BY <1>1, <3>2 DEF LegacyRemoved, LegacyReplaced, CollectDeployment, WriteDep
      <3> QED
        BY <1>7, <3>1, <3>2
    <2> QED
      BY <1>0, <2>1
  <1> QED
    BY <1>3, <1>4, <1>5, <1>6, <1>7 DEF DepSteps

\* The operator's passes: what a step leaves of the one that is under way.
LEMMA OpType ==
    ASSUME TypeOK, Passes, Acts
    PROVE  /\ op' \in Operator
           /\ op'.pc = "idle" => op'.todo = <<>>
           /\ op'.pc = "ensure" => op'.todo \in {<<"route", "proxy">>, <<"proxy">>, <<>>}
           /\ op'.pc = "finalize" => op'.todo \in {<<"proxy", "route">>, <<"route">>, <<>>}
  <1>0. op \in Operator /\ cat.gen \in Nat
    BY DEF TypeOK, Catalog
  <1>1. ASSUME NEW b \in BOOLEAN, op' = [op EXCEPT !.held = b]
        PROVE  op' \in Operator /\ op'.pc = op.pc /\ op'.todo = op.todo
    BY <1>0, <1>1 DEF Operator
  <1>2. CASE CreateCatalog \/ MigrateCatalog \/ DeleteCatalog \/ TakeOverRelease
             \/ EditSelection \/ CollectCatalog
    <2>1. op' = op \/ \E c : op' = [op EXCEPT !.held = op.held /\ c = cat]
      BY <1>2 DEF CreateCatalog, MigrateCatalog, DeleteCatalog, TakeOverRelease,
         EditSelection, CollectCatalog, Outdated
    <2>2. \A c : (op.held /\ c = cat) \in BOOLEAN
      OBVIOUS
    <2>3. op' = op \/ \E b \in BOOLEAN : op' = [op EXCEPT !.held = b]
      BY <2>1, <2>2
    <2>4. op' \in Operator /\ op'.pc = op.pc /\ op'.todo = op.todo
      BY <1>0, <1>1, <2>3
    <2> QED
      BY <2>4 DEF Passes
  <1>3. CASE OpBegin
    <2>1. /\ Ensures \in {<<"route", "proxy">>, <<"proxy">>}
          /\ Ensures \in Seq(Resource) /\ Finalizes \in Seq(Resource)
      <3>1. {<<"route", "proxy">>, <<"proxy">>, <<"proxy", "route">>} \subseteq Seq(Resource)
        BY DEF Resource
      <3> QED
        BY <3>1 DEF Ensures, Finalizes
    <2>2. \/ op' = [op EXCEPT !.pc = "ensure", !.todo = Ensures, !.gen = cat.gen, !.held = TRUE]
          \/ op' = [op EXCEPT !.pc = "finalize", !.todo = Finalizes, !.held = TRUE]
      BY <1>3 DEF OpBegin
    <2>3. /\ op' \in Operator
          /\ \/ op'.pc = "ensure" /\ op'.todo = Ensures
             \/ op'.pc = "finalize" /\ op'.todo = Finalizes
      BY <1>0, <2>1, <2>2 DEF Operator
    <2> QED
      BY <2>1, <2>3 DEF Finalizes
  <1>4. CASE OpStep
    <2>1. op.todo \in {<<"route", "proxy">>, <<"proxy">>, <<"proxy", "route">>, <<"route">>}
      BY <1>0, <1>4 DEF OpStep, Passes, Operator
    <2>2. /\ Tail(<<"route", "proxy">>) = <<"proxy">> /\ Tail(<<"proxy">>) = <<>>
          /\ Tail(<<"proxy", "route">>) = <<"route">> /\ Tail(<<"route">>) = <<>>
      OBVIOUS
    <2>3. {<<"proxy">>, <<"route">>, <<>>} \subseteq Seq(Resource)
      BY DEF Resource
    <2>4. Tail(op.todo) \in Seq(Resource)
      BY <2>1, <2>2, <2>3
    <2>5. op' \in Operator /\ op'.pc = op.pc /\ op'.todo = Tail(op.todo)
      BY <1>0, <1>4, <2>4 DEF OpStep, Operator
    <2>6. <<"route", "proxy">> # <<"proxy">> /\ <<"route", "proxy">> # <<"route">>
            /\ <<"proxy", "route">> # <<"proxy">> /\ <<"proxy", "route">> # <<"route">>
            /\ <<"proxy", "route">> # <<"route", "proxy">> /\ <<"proxy">> # <<"route">>
      OBVIOUS
    <2> QED
      BY <1>0, <1>4, <2>1, <2>2, <2>5, <2>6 DEF Passes, Operator, OpStep
  <1>5. CASE OpReport \/ OpRelease
    <2>1. op' = [Down EXCEPT !.up = TRUE, !.domain = op.domain] /\ op.domain \in BOOLEAN
      BY <1>0, <1>5 DEF OpReport, OpRelease, Rested, Operator
    <2> QED
      BY <2>1, Constants DEF Down, Operator
  <1>6. CASE OpStarts
    <2>1. op' = [Down EXCEPT !.up = TRUE, !.domain = dep["catalog"].cfg \in DomainGens]
      BY <1>6 DEF OpStarts
    <2>2. (dep["catalog"].cfg \in DomainGens) \in BOOLEAN
      OBVIOUS
    <2> QED
      BY <2>1, <2>2, Constants DEF Down, Operator
  <1>7. CASE OpStops
    <2>1. op' = Down
      BY <1>7 DEF OpStops
    <2> QED
      BY <2>1, Constants DEF Down
  <1>8. CASE op' = op
    BY <1>0, <1>8 DEF Passes
  <1>9. \/ CreateCatalog \/ MigrateCatalog \/ DeleteCatalog \/ TakeOverRelease \/ EditSelection
        \/ CollectCatalog \/ OperatorSteps \/ OpStarts \/ OpStops \/ op' = op
    <2>1. CASE Reconcile
      BY <2>1 DEF Reconcile, EnsureCatalog, Begin, BeginFails, BeginNothing,
         Deploy, DeployFails, ChildrenDown, KeepCatalog, EnsureCatalogFails, WriteStatus,
         Release, Check, TakeOver, CallFails
    <2>2. CASE Environment
      BY <2>2 DEF Environment, OpReady, OpUnready, OpMissed, RegistryStarts, RegistryStops,
         LegacyRemoved, LegacyReplaced, EditHub, DeleteHub, CollectDeployment
    <2> QED
      BY <2>1, <2>2 DEF Acts
  <1> QED
    BY <1>2, <1>3, <1>4, <1>5, <1>6, <1>7, <1>8, <1>9 DEF OperatorSteps

LEMMA CountType ==
    ASSUME TypeOK, Acts
    PROVE  count' \in [edits : 0 .. MaxEvents, flaps : 0 .. MaxEvents, faults : 0 .. MaxEvents]
  <1>0. /\ count \in [edits : 0 .. MaxEvents, flaps : 0 .. MaxEvents, faults : 0 .. MaxEvents]
        /\ MaxEvents \in Nat
    BY BoundsAssumption DEF TypeOK
  <1>1. \/ count' = count
        \/ /\ Eventful
           /\ \/ count' = [count EXCEPT !.edits = @ + 1]
              \/ count' = [count EXCEPT !.flaps = @ + 1]
              \/ count' = [count EXCEPT !.faults = @ + 1]
    <2>1. CASE Reconcile
      BY <2>1 DEF Reconcile, EnsureCatalog, Begin, BeginFails, BeginNothing,
         Deploy, DeployFails, ChildrenDown, CreateCatalog, MigrateCatalog, KeepCatalog,
         EnsureCatalogFails, WriteStatus, Release, DeleteCatalog, Check, TakeOver,
         TakeOverRelease, CallFails
    <2>2. CASE OperatorSteps
      <3>1. CASE OpReport
        <4>1. PICK ready \in BOOLEAN :
                LET r == [gen |-> op.gen, ready |-> ready, failed |-> ~ready]
                IN  \/ /\ r = cat.rep \/ cat.rep.gen # op.gen \/ Eventful
                       /\ count' = IF cat.rep.gen = op.gen /\ r # cat.rep
                                   THEN [count EXCEPT !.flaps = @ + 1] ELSE count
                    \/ count' = count
          BY <3>1 DEF OpReport
        <4> QED
          BY <4>1
      <3> QED
        BY <2>2, <3>1 DEF OperatorSteps, OpBegin, OpStep, OpRelease
    <2>3. CASE Environment
      BY <2>3 DEF Environment, OpStarts, OpReady, OpUnready, OpStops, OpMissed,
         RegistryStarts, RegistryStops, LegacyRemoved, LegacyReplaced, Edited, EditHub,
         EditSelection, DeleteHub, CollectCatalog, CollectDeployment
    <2> QED
      BY <2>1, <2>2, <2>3 DEF Acts
  <1>2. count.edits \in Nat /\ count.flaps \in Nat /\ count.faults \in Nat
    BY <1>0
  <1> QED
    BY <1>0, <1>1, <1>2 DEF Eventful

\* How the reconciler moves.
Provisions ==
    /\ GoesOn(rec')
    /\ \/ /\ Deploy \/ DeployFails \/ ChildrenDown
          /\ rec'.st.data = rec.st.data /\ rec'.st.dataGen = rec.st.dataGen
       \/ CreateCatalog /\ rec'.st.data = CatalogReady(NewCatalog)
                        /\ rec'.st.dataGen = NewCatalog.gen
       \/ MigrateCatalog /\ rec'.st.data = CatalogReady(Migrated(cat))
                         /\ rec'.st.dataGen = Migrated(cat).gen
       \/ KeepCatalog /\ rec'.st.data = CatalogReady(view.cat)
                      /\ rec'.st.dataGen = view.cat.gen
    /\ rec.pc \in {"deploy", "assess"}
    /\ rec'.st.prov => Deploy \/ (rec.pc = "assess" /\ rec.st.prov)

TearsDown ==
    /\ rec'.pc \in Finalizing
    /\ rec'.pc = "check" => DeleteCatalog
    /\ rec'.pc = "takeover" =>
          \/ Check /\ rec'.todo = <<"route", "proxy", "release">>
          \/ /\ TakeOver /\ rec.pc = "takeover" /\ rec'.todo = Tail(rec.todo)
             /\ rec'.todo \in {<<"proxy", "release">>, <<"release">>}
    /\ rec'.st.data => rec'.st = rec.st
    /\ DeleteCatalog \/ rec.pc \in Finalizing

LEMMA RecSteps ==
    ASSUME TypeOK, Passes, Acts
    PROVE  /\ rec' \in Reconciler
           /\ \/ rec' = rec
              \/ rec' = Idle
              \/ (Begin \/ BeginFails) /\ Begun(rec')
              \/ Provisions
              \/ TearsDown
  <1>0. /\ rec \in Reconciler /\ cat \in Catalog /\ view.cat \in Catalog
        /\ Migrated(cat) \in Catalog
    <2>1. cat \in Catalog /\ rec \in Reconciler /\ view.cat \in Catalog
      BY DEF TypeOK
    <2>2. cat.gen \in Nat /\ cat.gen + 1 \in Nat
      BY <2>1 DEF Catalog
    <2> QED
      BY <2>1, <2>2 DEF Migrated, Catalog
  <1>1. CASE Begin \/ BeginFails
    BY <1>1, BeginRec DEF Begun
  <1>3. CASE Deploy
    BY <1>3, DeployRec DEF Provisions, GoesOn, Deploy
  <1>4. CASE DeployFails
    <2>1. rec.pc = "deploy"
      BY <1>4 DEF DeployFails
    <2> QED
      BY <1>4, <2>1, DeployFailsRec DEF Provisions, GoesOn
  <1>5. CASE ChildrenDown
    <2>1. rec.pc = "assess"
      BY <1>5 DEF ChildrenDown
    <2> QED
      BY <1>5, <2>1, ChildrenDownRec DEF Provisions, GoesOn
  <1>6. CASE CreateCatalog
    <2>1. rec.pc = "assess" /\ rec' = Judged(NewCatalog)
      BY <1>6 DEF CreateCatalog
    <2> QED
      BY <1>6, <2>1, Constants, JudgedRec DEF Provisions, GoesOn
  <1>7. CASE MigrateCatalog
    <2>1. rec.pc = "assess" /\ rec' = Judged(Migrated(cat))
      BY <1>7 DEF MigrateCatalog
    <2> QED
      BY <1>0, <1>7, <2>1, JudgedRec DEF Provisions, GoesOn
  <1>8. CASE KeepCatalog
    <2>1. rec.pc = "assess" /\ rec' = Judged(view.cat)
      BY <1>8 DEF KeepCatalog
    <2> QED
      BY <1>0, <1>8, <2>1, JudgedRec DEF Provisions, GoesOn
  <1>9. CASE DeleteCatalog \/ Check \/ TakeOver
    <2>1. DeleteCatalog \/ rec.pc \in Finalizing
      BY <1>9 DEF Check, TakeOver, Finalizing
    <2> QED
      BY <1>9, <2>1, TeardownRec DEF TearsDown, Finalizing
  <1>10. CASE EnsureCatalogFails \/ WriteStatus \/ TakeOverRelease \/ CallFails
    <2>1. rec' = Idle
      BY <1>10 DEF EnsureCatalogFails, WriteStatus, TakeOverRelease, CallFails, Finish
    <2> QED
      BY <2>1, Constants
  <1>11. CASE BeginNothing \/ Release \/ ~Reconcile
    BY <1>0, <1>11, Frames DEF BeginNothing, Release
  <1> QED
    BY <1>1, <1>3, <1>4, <1>5, <1>6, <1>7, <1>8, <1>9, <1>10, <1>11
       DEF Reconcile, EnsureCatalog

LEMMA SyncStep ==
    ASSUME TypeOK, Sync
    PROVE  /\ UNCHANGED <<hub, cat, dep, ext, rec, op, count, earned, raced>>
           /\ \/ view' = [view EXCEPT !.hub = hub] /\ stale' = stale \ {"hub"}
              \/ view' = [view EXCEPT !.cat = cat] /\ stale' = stale \ {"cat"}
              \/ \E c \in Child : view' = [view EXCEPT !.dep[c] = dep[c]] /\ stale' = stale \ {c}
           /\ queue' \in BOOLEAN
  <1>1. PICK k \in stale :
          /\ view' = CASE k = "hub" -> [view EXCEPT !.hub = hub]
                       [] k = "cat" -> [view EXCEPT !.cat = cat]
                       [] OTHER -> [view EXCEPT !.dep[k] = dep[k]]
          /\ stale' = stale \ {k}
          /\ queue' = (queue \/ Owned(k))
          /\ UNCHANGED <<hub, cat, dep, ext, rec, op, count, earned, raced>>
    BY DEF Sync
  <1>2. k \in Informer
    BY DEF TypeOK
  <1>3. queue' \in BOOLEAN
    BY <1>1
  <1> QED
    BY <1>1, <1>2, <1>3 DEF Informer, Child

\* The fields of the informers' copies after one has caught up.
LEMMA SyncView ==
    ASSUME TypeOK, Sync
    PROVE  /\ view' \in [hub : Hub, cat : Catalog, dep : [Child -> ChildDeployment]]
           /\ view'.hub \in {view.hub, hub}
           /\ view'.cat \in {view.cat, cat}
           /\ "hub" \notin stale' => view'.hub = hub
           /\ "cat" \notin stale' => view'.cat = cat
           /\ \A c \in Child : c \notin stale' => view'.dep[c] = dep[c]
           /\ \A c \in Child : view'.dep[c] \in {view.dep[c], dep[c]}
           /\ stale' \subseteq Informer
  <1>0. /\ view \in [hub : Hub, cat : Catalog, dep : [Child -> ChildDeployment]]
        /\ hub \in Hub /\ cat \in Catalog /\ dep \in [Child -> ChildDeployment]
        /\ stale \subseteq Informer
        /\ "hub" \notin stale => view.hub = hub
        /\ "cat" \notin stale => view.cat = cat
        /\ \A c \in Child : c \notin stale => view.dep[c] = dep[c]
        /\ "hub" \notin Child /\ "cat" \notin Child
    BY DEF TypeOK, Child
  <1>1. CASE view' = [view EXCEPT !.hub = hub] /\ stale' = stale \ {"hub"}
    BY <1>0, <1>1
  <1>2. CASE view' = [view EXCEPT !.cat = cat] /\ stale' = stale \ {"cat"}
    BY <1>0, <1>2
  <1>3. ASSUME NEW c \in Child, view' = [view EXCEPT !.dep[c] = dep[c]], stale' = stale \ {c}
        PROVE  /\ view' \in [hub : Hub, cat : Catalog, dep : [Child -> ChildDeployment]]
               /\ view'.hub = view.hub /\ view'.cat = view.cat
               /\ "hub" \notin stale' => view'.hub = hub
               /\ "cat" \notin stale' => view'.cat = cat
               /\ \A x \in Child : x \notin stale' => view'.dep[x] = dep[x]
               /\ \A x \in Child : view'.dep[x] \in {view.dep[x], dep[x]}
               /\ stale' \subseteq Informer
    <2>1. view' = [view EXCEPT !.dep = [view.dep EXCEPT ![c] = dep[c]]]
      BY <1>3
    <2>2. [view.dep EXCEPT ![c] = dep[c]] \in [Child -> ChildDeployment]
      BY <1>0
    <2> QED
      BY <1>0, <1>3, <2>1, <2>2
  <1> QED
    BY <1>1, <1>2, <1>3, SyncStep

LEMMA ExtMoves ==
    ASSUME Acts
    PROVE  \/ ext' = ext
           \/ TakeOver /\ ext' = ext \ {Head(rec.todo)}
           \/ /\ OpStep
              /\ ext' = IF op.pc = "ensure" THEN ext \cup {Head(op.todo)}
                                            ELSE ext \ {Head(op.todo)}
  <1>1. CASE Reconcile
    BY <1>1 DEF Reconcile, EnsureCatalog, Begin, BeginFails, BeginNothing,
       Deploy, DeployFails, ChildrenDown, CreateCatalog, MigrateCatalog, KeepCatalog,
       EnsureCatalogFails, WriteStatus, Release, DeleteCatalog, Check, TakeOver,
       TakeOverRelease, CallFails
  <1>2. CASE OperatorSteps
    BY <1>2 DEF OperatorSteps, OpBegin, OpStep, OpReport, OpRelease
  <1>3. CASE Environment
    BY <1>3 DEF Environment, OpStarts, OpReady, OpUnready, OpStops, OpMissed,
       RegistryStarts, RegistryStops, LegacyRemoved, LegacyReplaced, EditHub, EditSelection,
       DeleteHub, CollectCatalog, CollectDeployment
  <1> QED
    BY <1>1, <1>2, <1>3 DEF Acts

\* Only the beginning of a takeover can be a race.
LEMMA RacedMoves ==
    ASSUME Acts
    PROVE  raced' = raced \/ (Check /\ raced' = (raced \/ (rec'.pc = "takeover" /\ op.up)))
  <1>1. CASE Reconcile
    BY <1>1 DEF Reconcile, EnsureCatalog, Begin, BeginFails, BeginNothing, Deploy,
       DeployFails, ChildrenDown, CreateCatalog, MigrateCatalog, KeepCatalog,
       EnsureCatalogFails, WriteStatus, Release, DeleteCatalog, Check, TakeOver,
       TakeOverRelease, CallFails
  <1>2. CASE OperatorSteps
    BY <1>2 DEF OperatorSteps, OpBegin, OpStep, OpReport, OpRelease
  <1>3. CASE Environment
    BY <1>3 DEF Environment, OpStarts, OpReady, OpUnready, OpStops, OpMissed,
       RegistryStarts, RegistryStops, LegacyRemoved, LegacyReplaced, EditHub, EditSelection,
       DeleteHub, CollectCatalog, CollectDeployment
  <1> QED
    BY <1>1, <1>2, <1>3 DEF Acts

LEMMA TypeStep ==
    ASSUME TypeOK, Passes, Acts \/ Sync
    PROVE  TypeOK' /\ Passes'
  <1>1. CASE Sync
    <2>1. UNCHANGED <<hub, cat, dep, ext, rec, op, count, earned, raced>> /\ queue' \in BOOLEAN
      BY <1>1, SyncStep
    <2>2. Passes'
      BY <2>1 DEF Passes
    <2>3. TypeOK'
      BY <1>1, <2>1, SyncView DEF TypeOK
    <2> QED
      BY <2>2, <2>3
  <1>2. CASE Acts
    <2>1. hub' \in Hub /\ cat' \in Catalog /\ dep' \in [Child -> ChildDeployment]
      BY <1>2, Frames, HubType, CatType, DepType DEF TypeOK
    <2>2. rec' \in Reconciler
      BY <1>2, RecSteps
    <2>3. op' \in Operator
      BY <1>2, OpType
    <2>4. ext' \subseteq Resource
      <3>1. ext' = ext \/ TakeOver \/ OpStep
        BY <1>2, ExtMoves
      <3>2. CASE TakeOver
        BY <3>2 DEF TakeOver, TypeOK
      <3>3. CASE OpStep
        <4>1. op.todo \in Seq(Resource) /\ op.todo # <<>>
          BY <3>3 DEF OpStep, TypeOK, Operator
        <4>2. Head(op.todo) \in Resource
          BY <4>1
        <4> QED
          BY <3>3, <4>2 DEF OpStep, TypeOK
      <3> QED
        BY <3>1, <3>2, <3>3 DEF TypeOK
    <2>5. queue' \in BOOLEAN
      <3>1. CASE Reconcile
        <4>1. \/ queue' = queue \/ queue' = FALSE \/ \E b : queue' = (queue \/ b)
          BY <3>1 DEF Reconcile, EnsureCatalog, Begin, BeginFails, BeginNothing,
             Deploy, DeployFails, ChildrenDown, CreateCatalog, MigrateCatalog, KeepCatalog,
             EnsureCatalogFails, WriteStatus, Release, DeleteCatalog, Check, TakeOver,
             TakeOverRelease, CallFails, Finish
        <4> QED
          BY <4>1 DEF TypeOK
      <3> QED
        BY <1>2, <3>1, Frames DEF TypeOK
    <2>6. count' \in [edits : 0 .. MaxEvents, flaps : 0 .. MaxEvents, faults : 0 .. MaxEvents]
      BY <1>2, CountType
    <2>7. earned' \subseteq Nat
      <3>1. CASE OpReport
        <4>1. op.gen \in Nat
          BY DEF TypeOK, Operator
        <4>2. earned' = earned \/ earned' = earned \cup {op.gen}
          BY <3>1 DEF OpReport
        <4> QED
          BY <4>1, <4>2 DEF TypeOK
      <3> QED
        BY <1>2, <3>1, Frames DEF TypeOK
    <2>12. raced' \in BOOLEAN
      <3>1. raced' = raced \/ \E b : raced' = (raced \/ b)
        BY <1>2, RacedMoves
      <3> QED
        BY <3>1 DEF TypeOK
    <2>8. /\ "hub" \notin stale' => view'.hub = hub'
          /\ "cat" \notin stale' => view'.cat = cat'
          /\ \A c \in Child : c \notin stale' => view'.dep[c] = dep'[c]
          /\ stale' \subseteq Informer
          /\ view' = view
      BY <1>2, WrittenStep DEF Written, TypeOK
    <2>9. TypeOK'
      BY <2>1, <2>2, <2>3, <2>4, <2>5, <2>6, <2>7, <2>8, <2>12 DEF TypeOK
    <2>10. rec'.pc = "takeover" =>
             rec'.todo \in {<<"route", "proxy", "release">>, <<"proxy", "release">>, <<"release">>}
      <3>1. rec' = rec \/ rec' = Idle \/ Begun(rec') \/ Provisions \/ TearsDown
        BY <1>2, RecSteps
      <3>2. Idle.pc = "idle"
        BY DEF Idle
      <3> QED
        BY <3>1, <3>2 DEF Passes, Begun, Provisions, GoesOn, TearsDown
    <2>11. Passes'
      BY <1>2, <2>10, OpType DEF Passes
    <2> QED
      BY <2>9, <2>11
  <1> QED
    BY <1>1, <1>2

-----------------------------------------------------------------------------
(***************************************************************************)
(* The finalizer of the AIHub                                               *)
(***************************************************************************)
\* How far each kind of move brings the reconciler.
LEMMA RecPc ==
    ASSUME TypeOK, Passes, Acts
    PROVE  /\ rec'.pc \in Provisioning =>
                 rec.pc \in Provisioning \/ (Begin \/ BeginFails)
           /\ rec'.pc \in Finalizing => rec.pc \in Finalizing \/ DeleteCatalog
  <1>1. \/ rec' = rec
        \/ rec' = Idle
        \/ (Begin \/ BeginFails) /\ Begun(rec')
        \/ Provisions
        \/ TearsDown
    BY RecSteps
  <1>2. Idle.pc = "idle"
    BY DEF Idle
  <1> QED
    BY <1>1, <1>2 DEF Begun, Provisions, GoesOn, TearsDown, Provisioning, Finalizing

LEMMA HubGuardsStep ==
    ASSUME TypeOK, Passes, HubGuards, Acts \/ Sync
    PROVE  HubGuards'
  <1>0. hub \in Hub /\ view.hub \in Hub
    BY DEF TypeOK
  <1>1. CASE Sync
    BY <1>1, SyncStep, SyncView DEF HubGuards, Provisioning, Finalizing
  <1>2. CASE Acts
    <2>1. view' = view
      BY <1>2, Frames
    <2>2. CASE hub' = hub /\ ~Begin
      <3>1. BeginFails => view.hub.state = "live" /\ view.hub.fin
        BY DEF BeginFails
      <3>2. DeleteCatalog => view.hub.state # "live"
        BY DEF DeleteCatalog, Cleanup
      <3> QED
        BY <1>2, <2>1, <2>2, <3>1, <3>2, RecPc DEF HubGuards
    <2>3. CASE Begin
      <3>1. /\ view.hub.state = "live" /\ (view.hub.fin \/ view.hub = hub)
            /\ hub' = IF view.hub.fin THEN hub ELSE [hub EXCEPT !.fin = TRUE]
            /\ rec.pc = "idle"
        BY <2>3 DEF Begin, EnsureFinalizer, TypeOK
      <3>2. hub'.fin /\ hub'.state = hub.state /\ hub.state # "gone"
        BY <1>0, <3>1 DEF Hub, HubGuards
      <3>3. rec'.pc \notin Finalizing
        <4>1. Begun(rec')
          BY <2>3, BeginRec
        <4> QED
          BY <4>1 DEF Begun, Finalizing
      <3> QED
        BY <2>1, <3>1, <3>2, <3>3 DEF HubGuards
    <2>4. CASE WriteStatus
      <3>1. /\ hub'.fin = hub.fin /\ hub'.state = hub.state
        BY <1>0, <2>4 DEF WriteStatus, WriteHub, Hub
      <3>2. rec'.pc = "idle"
        BY <2>4 DEF WriteStatus, Finish, Idle
      <3> QED
        BY <2>1, <3>1, <3>2 DEF HubGuards, Provisioning, Finalizing
    <2>5. CASE Release
      <3>1. view.hub.state = "deleting" /\ hub'.state = "gone"
        BY <1>0, <2>5 DEF Release, Cleanup, WriteHub, Gone, Hub
      <3>2. rec'.pc = "idle"
        BY <2>5 DEF Release, Cleanup
      <3> QED
        BY <2>1, <3>1, <3>2 DEF HubGuards, Provisioning, Finalizing
    <2>6. CASE EditHub
      <3>1. /\ hub'.fin = hub.fin /\ hub'.state = hub.state /\ rec' = rec
        BY <1>0, <2>6 DEF EditHub, WriteHub, Hub
      <3> QED
        BY <2>1, <3>1 DEF HubGuards
    <2>7. CASE DeleteHub
      <3>1. /\ hub'.fin = hub.fin /\ hub.state = "live" /\ rec' = rec
            /\ hub'.state = IF hub.fin THEN "deleting" ELSE "gone"
        BY <1>0, <2>7 DEF DeleteHub, WriteHub, Gone, Hub
      <3> QED
        BY <2>1, <3>1 DEF HubGuards
    <2> QED
      BY <1>2, <2>2, <2>3, <2>4, <2>5, <2>6, <2>7, Frames DEF HubSteps
  <1> QED
    BY <1>1, <1>2

-----------------------------------------------------------------------------
(***************************************************************************)
(* Observed generations                                                     *)
(***************************************************************************)
\* What a step makes of a Deployment.
LEMMA DepMoves ==
    ASSUME TypeOK, Acts, NEW c \in Child
    PROVE  \/ dep'[c] = dep[c]
           \/ \E a : dep'[c] = [dep[c] EXCEPT !.avail = a]
           \/ /\ Begin /\ LiveDeployment(c).phase = "legacy" /\ SameObject(c)
              /\ dep'[c] = [dep[c] EXCEPT !.phase = "terminating"]
           \/ /\ Deploy \/ DeployFails
              /\ Applicable(c) /\ dep'[c] = Stamped(dep[c], rec.gen)
           \/ dep'[c] = Removed(dep[c])
           \/ dep'[c] = NewChild(dep[c], 0)
  <1>0. /\ dep \in [Child -> ChildDeployment] /\ dep[c] \in ChildDeployment
    BY DEF TypeOK
  <1>1. CASE Begin
    BY <1>1 DEF Begin, DeleteIncompatible
  <1>2. CASE Deploy \/ DeployFails
    BY <1>2 DEF Deploy, DeployFails, WriteDep
  <1>3. CASE OpStarts \/ OpReady \/ OpMissed \/ RegistryStarts \/ RegistryStops
    <2>1. PICK x \in Child, a \in {"no", "zero", "yes"} : dep' = [dep EXCEPT ![x].avail = a]
      BY <1>3, AvailMoves
    <2> QED
      BY <1>0, <2>1
  <1>4. CASE OpUnready
    BY <1>0, <1>4 DEF OpUnready, WriteDep
  <1>5. CASE LegacyRemoved \/ LegacyReplaced \/ CollectDeployment
    BY <1>0, <1>5 DEF LegacyRemoved, LegacyReplaced, CollectDeployment, WriteDep
  <1>6. CASE dep' = dep
    BY <1>6
  <1> QED
    BY <1>1, <1>2, <1>3, <1>4, <1>5, <1>6, Frames DEF DepSteps

\* Deployments are deleted, removed, replaced, and stamped by a reconcile; nothing else.
LEMMA DepLife ==
    ASSUME TypeOK, Acts, NEW c \in Child
    PROVE  \/ /\ dep'[c].phase = dep[c].phase /\ dep'[c].cfg = dep[c].cfg
              /\ dep'[c].uid = dep[c].uid
           \/ /\ Begin /\ LiveDeployment(c).phase = "legacy" /\ SameObject(c)
              /\ dep'[c].phase = "terminating" /\ dep'[c].uid = dep[c].uid
           \/ /\ Deploy \/ DeployFails
              /\ dep'[c].phase = "current" /\ dep'[c].cfg = rec.gen
              /\ \/ dep'[c].uid = dep[c].uid + 1
                 \/ dep[c].phase = "current" /\ dep'[c].uid = dep[c].uid
           \/ dep'[c].phase = "none" /\ dep'[c].uid = dep[c].uid
           \/ dep'[c].phase = "current" /\ dep'[c].cfg = 0 /\ dep'[c].uid = dep[c].uid + 1
  <1>0. dep[c] \in ChildDeployment
    BY DEF TypeOK
  <1>1. /\ Removed(dep[c]).phase = "none" /\ Removed(dep[c]).uid = dep[c].uid
        /\ \A g : /\ NewChild(dep[c], g).phase = "current" /\ NewChild(dep[c], g).cfg = g
                  /\ NewChild(dep[c], g).uid = dep[c].uid + 1
    BY DEF Removed, NoChild, NewChild
  <1>2. Applicable(c) =>
          /\ Stamped(dep[c], rec.gen).phase = "current"
          /\ Stamped(dep[c], rec.gen).cfg = rec.gen
          /\ \/ Stamped(dep[c], rec.gen).uid = dep[c].uid + 1
             \/ dep[c].phase = "current" /\ Stamped(dep[c], rec.gen).uid = dep[c].uid
    BY <1>0, <1>1 DEF Applicable, Stamped, ChildDeployment
  <1>3. CASE \E a : dep'[c] = [dep[c] EXCEPT !.avail = a]
    BY <1>0, <1>3 DEF ChildDeployment
  <1>4. CASE dep'[c] = [dep[c] EXCEPT !.phase = "terminating"] /\ Begin
             /\ LiveDeployment(c).phase = "legacy" /\ SameObject(c)
    BY <1>0, <1>4 DEF ChildDeployment
  <1>5. CASE dep'[c] \in {dep[c], Removed(dep[c]), NewChild(dep[c], 0)}
    BY <1>1, <1>5
  <1>6. CASE (Deploy \/ DeployFails) /\ Applicable(c) /\ dep'[c] = Stamped(dep[c], rec.gen)
    BY <1>2, <1>6
  <1>7. \/ \E a : dep'[c] = [dep[c] EXCEPT !.avail = a]
        \/ /\ dep'[c] = [dep[c] EXCEPT !.phase = "terminating"] /\ Begin
           /\ LiveDeployment(c).phase = "legacy" /\ SameObject(c)
        \/ dep'[c] \in {dep[c], Removed(dep[c]), NewChild(dep[c], 0)}
        \/ (Deploy \/ DeployFails) /\ Applicable(c) /\ dep'[c] = Stamped(dep[c], rec.gen)
    BY DepMoves
  <1> QED
    BY <1>3, <1>4, <1>5, <1>6, <1>7

LEMMA DepCfg ==
    ASSUME TypeOK, Acts, NEW c \in Child, dep'[c].phase = "current", dep'[c].cfg > 0
    PROVE  \/ dep[c].phase = "current" /\ dep'[c].cfg = dep[c].cfg
           \/ (Deploy \/ DeployFails) /\ dep'[c].cfg = rec.gen
  BY DepLife

LEMMA GenerationsStep ==
    ASSUME TypeOK, Passes, HubGuards, Generations, Acts \/ Sync
    PROVE  Generations'
  <1>0. /\ hub \in Hub /\ view.hub \in Hub /\ rec \in Reconciler
        /\ hub.gen \in Nat /\ view.hub.gen \in Nat /\ rec.gen \in Nat
        /\ hub.st \in HubStatus /\ hub.st.obs \in Nat
        /\ \A c \in Child : dep[c].cfg \in Nat
    BY DEF TypeOK, Hub, HubStatus, Reconciler, ChildDeployment
  <1>1. CASE Sync
    <2>1. UNCHANGED <<hub, dep, rec>> /\ view'.hub \in {view.hub, hub}
      BY <1>1, SyncStep, SyncView
    <2>2. view'.hub.gen \in {view.hub.gen, hub.gen} /\ view'.hub.gen >= view.hub.gen
      BY <1>0, <2>1 DEF Generations
    <2>3. DeployedSince(rec.gen)' <=> DeployedSince(rec.gen)
      BY <2>1 DEF DeployedSince
    <2>4. ObservedIsDeployed'
      BY <2>1 DEF ObservedIsDeployed, DeployedSince, Generations
    <2> QED
      BY <1>0, <2>1, <2>2, <2>3, <2>4 DEF Generations
  <1>2. CASE Acts
    <2>1. view' = view
      BY <1>2, Frames
    \* The generations of what is there never fall behind one that is reached.
    <2>2. ASSUME NEW g \in Nat, DeployedSince(g), Deploy \/ DeployFails => g <= rec.gen
          PROVE  \A c \in Child : dep'[c].phase = "current" /\ dep'[c].cfg > 0 => dep'[c].cfg >= g
      BY <1>0, <1>2, <2>2, DepCfg DEF DeployedSince
    <2>3. Deploy \/ DeployFails => hub.st.obs <= rec.gen
      BY DEF Deploy, DeployFails, Generations, Provisioning
    <2>4. Deploy => \A c \in Child : dep'[c].phase = "current" /\ dep'[c].cfg > 0
                                        => dep'[c].cfg >= rec.gen
      <3> SUFFICES ASSUME Deploy, NEW c \in Child PROVE dep'[c].cfg = rec.gen
        BY <1>0
      <3>1. dep'[c] = Stamped(dep[c], rec.gen) /\ dep[c] \in ChildDeployment
        BY DEF Deploy, WriteDep, TypeOK
      <3> QED
        BY <3>1 DEF Stamped, NewChild, ChildDeployment
    <2>5. /\ hub'.gen >= hub.gen
          /\ \/ hub'.st = hub.st
             \/ /\ WriteStatus /\ rec.pc = "write" /\ hub'.st.obs = rec.gen
                /\ hub'.st.prov = rec.st.prov
             \/ ~hub'.st.prov /\ hub'.st.obs = 0
      <3>1. CASE Begin
        BY <1>0, <3>1 DEF Begin, EnsureFinalizer, Hub
      <3>2. CASE WriteStatus
        <4>1. Published.obs = rec.gen /\ Published.prov = rec.st.prov
          BY <1>0 DEF Published, Reconciler, HubStatus
        <4> QED
          BY <1>0, <3>2, <4>1 DEF WriteStatus, WriteHub, Hub
      <3>3. CASE Release \/ DeleteHub
        <4>1. hub'.gen = hub.gen /\ (hub'.st = hub.st \/ hub'.st = NoHubStatus)
          BY <1>0, <3>3 DEF Release, DeleteHub, WriteHub, Gone, Hub
        <4> QED
          BY <1>0, <4>1 DEF NoHubStatus
      <3>4. CASE EditHub
        BY <1>0, <3>4 DEF EditHub, WriteHub, Hub
      <3>5. CASE hub' = hub
        BY <1>0, <3>5
      <3> QED
        BY <1>2, <3>1, <3>2, <3>3, <3>4, <3>5, Frames DEF HubSteps
    <2>6. ObservedIsDeployed'
      <3>1. CASE hub'.st = hub.st
        BY <1>0, <2>2, <2>3, <3>1 DEF Generations, ObservedIsDeployed, DeployedSince
      <3>2. CASE /\ WriteStatus /\ rec.pc = "write" /\ hub'.st.obs = rec.gen
                 /\ hub'.st.prov = rec.st.prov
        <4>1. dep' = dep
          BY <3>2 DEF WriteStatus
        <4> QED
          BY <3>2, <4>1 DEF Generations, ObservedIsDeployed, DeployedSince
      <3>3. CASE ~hub'.st.prov
        BY <3>3 DEF ObservedIsDeployed
      <3> QED
        BY <2>5, <3>1, <3>2, <3>3
    <2>7. hub'.st.obs <= view'.hub.gen /\ view'.hub.gen <= hub'.gen
      <3>1. hub'.gen \in Nat
        BY <1>2, TypeStep DEF TypeOK, Hub
      <3>2. hub'.st.obs <= view.hub.gen
        BY <1>0, <2>5 DEF Generations, Provisioning
      <3> QED
        BY <1>0, <2>1, <2>5, <3>1, <3>2 DEF Generations
    <2>8. rec'.pc \in Provisioning => hub'.st.obs <= rec'.gen /\ rec'.gen <= view'.hub.gen
      <3> SUFFICES ASSUME rec'.pc \in Provisioning
                   PROVE  hub'.st.obs <= rec'.gen /\ rec'.gen <= view'.hub.gen
        OBVIOUS
      <3>1. ~WriteStatus
        BY DEF WriteStatus, Finish, Idle, Provisioning
      <3>2. hub'.st = hub.st \/ hub'.st.obs = 0
        BY <2>5, <3>1
      <3>3. \/ rec' = rec \/ Begun(rec') \/ Provisions
        BY <1>2, RecSteps DEF Idle, TearsDown, Provisioning, Finalizing
      <3>4. rec'.gen \in Nat
        BY <1>2, TypeStep DEF TypeOK, Reconciler
      <3> QED
        BY <1>0, <2>1, <3>2, <3>3, <3>4 DEF Begun, Provisions, GoesOn, Generations, Provisioning
    <2>9. rec'.pc \in {"assess", "write"} /\ rec'.st.prov =>
            \A c \in Child : dep'[c].phase = "current" /\ dep'[c].cfg > 0
                                => dep'[c].cfg >= rec'.gen
      <3> SUFFICES ASSUME rec'.pc \in {"assess", "write"}, rec'.st.prov
                   PROVE  \A c \in Child : dep'[c].phase = "current" /\ dep'[c].cfg > 0
                                             => dep'[c].cfg >= rec'.gen
        OBVIOUS
      <3>1. \/ rec' = rec \/ Begun(rec') \/ Provisions
        BY <1>2, RecSteps DEF Idle, TearsDown, Finalizing
      <3>2. ~Begun(rec')
        BY DEF Begun
      <3>3. Deploy => rec'.gen = rec.gen
        BY DeployRec DEF GoesOn
      <3>4. CASE Deploy
        BY <2>4, <3>3, <3>4
      <3>5. CASE ~Deploy
        <4>1. rec.pc \in {"assess", "write"} /\ rec.st.prov /\ rec'.gen = rec.gen
          BY <3>1, <3>2, <3>5 DEF Provisions, GoesOn
        <4>2. DeployedSince(rec.gen)
          BY <4>1 DEF Generations
        <4> QED
          BY <1>0, <2>2, <4>1, <4>2
      <3> QED
        BY <3>4, <3>5
    <2> QED
      BY <2>6, <2>7, <2>8, <2>9 DEF Generations, DeployedSince
  <1> QED
    BY <1>1, <1>2

-----------------------------------------------------------------------------
(***************************************************************************)
(* Verdicts                                                                 *)
(***************************************************************************)
LEMMA CatRep ==
    ASSUME TypeOK, Acts
    PROVE  /\ earned \subseteq earned'
           /\ \/ cat'.rep = cat.rep
              \/ ~cat'.rep.ready
              \/ cat'.rep.gen \in earned'
  <1>0. cat \in Catalog /\ NoCatalog.rep = NoReport /\ ~NoReport.ready /\ NewCatalog.rep = NoReport
    BY DEF TypeOK, NoCatalog, NoReport, NewCatalog
  <1>1. CASE OpReport
    <2>1. PICK ready \in BOOLEAN :
            LET r == [gen |-> op.gen, ready |-> ready, failed |-> ~ready]
            IN  \/ cat' = cat /\ earned' = earned
                \/ /\ cat' = [cat EXCEPT !.rep = r]
                   /\ earned' = IF r.ready THEN earned \cup {op.gen} ELSE earned
      BY <1>1 DEF OpReport, WriteCat
    <2>2. CASE cat' = cat /\ earned' = earned
      BY <2>2
    <2>3. CASE /\ cat' = [cat EXCEPT !.rep = [gen |-> op.gen, ready |-> ready, failed |-> ~ready]]
               /\ earned' = IF ready THEN earned \cup {op.gen} ELSE earned
      <3>1. cat'.rep = [gen |-> op.gen, ready |-> ready, failed |-> ~ready]
        BY <1>0, <2>3 DEF Catalog
      <3>2. cat'.rep.ready = ready /\ cat'.rep.gen = op.gen
        BY <3>1
      <3> QED
        BY <2>3, <3>2
    <2> QED
      BY <2>1, <2>2, <2>3
  <1>2. CASE ~OpReport
    <2>1. earned' = earned
      BY <1>2, Frames
    <2>2. /\ Deleted(cat).rep \in {cat.rep, NoReport}
          /\ Unfinalized(cat).rep \in {cat.rep, NoReport}
          /\ Migrated(cat).rep = cat.rep
      BY <1>0 DEF Deleted, Unfinalized, Migrated, Catalog
    <2>3. CASE CreateCatalog \/ MigrateCatalog \/ DeleteCatalog \/ TakeOverRelease \/ OpRelease
               \/ CollectCatalog
      <3>1. cat' \in {cat, NewCatalog, Migrated(cat), Deleted(cat), Unfinalized(cat)}
        BY <2>3 DEF CreateCatalog, MigrateCatalog, DeleteCatalog, TakeOverRelease, OpRelease,
           CollectCatalog, WriteCat
      <3> QED
        BY <1>0, <2>1, <2>2, <3>1
    <2>4. CASE OpBegin \/ EditSelection
      <3>1. cat'.rep = cat.rep
        BY <1>0, <2>4 DEF OpBegin, EditSelection, WriteCat, Catalog
      <3> QED
        BY <2>1, <3>1
    <2> QED
      BY <1>2, <2>1, <2>3, <2>4, Frames DEF CatSteps
  <1> QED
    BY <1>1, <1>2

LEMMA VerdictsStep ==
    ASSUME TypeOK, Passes, Verdicts, Acts \/ Sync
    PROVE  Verdicts'
  <1>1. CASE Sync
    <2>1. /\ UNCHANGED <<hub, cat, rec, earned>>
          /\ view'.hub \in {view.hub, hub} /\ view'.cat \in {view.cat, cat}
      BY <1>1, SyncStep, SyncView
    <2> QED
      BY <2>1 DEF Verdicts
  <1>2. CASE Acts
    <2>0. view' = view /\ earned \subseteq earned'
      BY <1>2, CatRep, Frames
    <2>1. cat'.rep.ready => cat'.rep.gen \in earned'
      BY <1>2, CatRep DEF Verdicts
    <2>2. view'.cat.rep.ready => view'.cat.rep.gen \in earned'
      BY <2>0 DEF Verdicts
    <2>3. view'.hub.st.data => view'.hub.st.dataGen \in earned'
      BY <2>0 DEF Verdicts
    <2>4. hub'.st.data => hub'.st.dataGen \in earned'
      <3>0. hub \in Hub /\ rec.st \in HubStatus
        BY DEF TypeOK, Reconciler
      <3>1. \/ hub'.st = hub.st
            \/ hub'.st.data = rec.st.data /\ hub'.st.dataGen = rec.st.dataGen
            \/ ~hub'.st.data
        <4>1. CASE Begin
          BY <3>0, <4>1 DEF Begin, EnsureFinalizer, Hub
        <4>2. CASE WriteStatus
          <5>1. Published.data = rec.st.data /\ Published.dataGen = rec.st.dataGen
            BY <3>0 DEF Published, HubStatus
          <5> QED
            BY <3>0, <4>2, <5>1 DEF WriteStatus, WriteHub, Hub
        <4>3. CASE Release \/ DeleteHub \/ EditHub
          <5>1. hub'.st = hub.st \/ hub'.st = NoHubStatus
            BY <3>0, <4>3 DEF Release, DeleteHub, EditHub, WriteHub, Gone, Hub
          <5> QED
            BY <5>1 DEF NoHubStatus
        <4>4. CASE hub' = hub
          BY <4>4
        <4> QED
          BY <1>2, <4>1, <4>2, <4>3, <4>4, Frames DEF HubSteps
      <3> QED
        BY <2>0, <3>1 DEF Verdicts
    <2>5. rec'.st.data => rec'.st.dataGen \in earned'
      <3>1. \/ rec' = rec
            \/ rec' = Idle
            \/ Begun(rec')
            \/ Provisions
            \/ TearsDown
        BY <1>2, RecSteps
      <3>2. CASE rec' = rec
        BY <2>0, <3>2 DEF Verdicts
      <3>3. CASE rec' = Idle
        BY <3>3 DEF Idle, NoHubStatus
      <3>4. CASE Begun(rec')
        BY <2>0, <3>4 DEF Begun, Verdicts
      <3>5. CASE TearsDown
        BY <2>0, <3>5 DEF TearsDown, Verdicts
      <3>6. CASE Provisions
        <4>1. ~CatalogReady(NewCatalog)
          BY DEF CatalogReady, NewCatalog, NoCatalog, NoReport
        <4>2. CatalogReady(Migrated(cat)) => Migrated(cat).gen \in earned
          <5>1. Migrated(cat).rep = cat.rep
            BY DEF Migrated, TypeOK, Catalog
          <5> QED
            BY <5>1 DEF CatalogReady, Verdicts
        <4>3. CatalogReady(view.cat) => view.cat.gen \in earned
          BY DEF CatalogReady, Verdicts
        <4> QED
          BY <2>0, <3>6, <4>1, <4>2, <4>3 DEF Provisions, Verdicts
      <3> QED
        BY <3>1, <3>2, <3>3, <3>4, <3>5, <3>6
    <2> QED
      BY <2>1, <2>2, <2>3, <2>4, <2>5 DEF Verdicts
  <1> QED
    BY <1>1, <1>2

-----------------------------------------------------------------------------
(***************************************************************************)
(* The life of the Catalog                                                  *)
(***************************************************************************)
Unmarked == cat.state = "absent" => ~cat.fin /\ ~cat.migrated

\* What becomes of the Catalog's state and finalizer.
LEMMA CatLife ==
    ASSUME TypeOK, Acts
    PROVE  \/ /\ cat'.state = cat.state /\ cat'.fin = cat.fin
              /\ cat'.migrated = cat.migrated \/ cat.state # "absent"
           \/ /\ CreateCatalog /\ rec.pc = "assess"
              /\ cat.state = "absent" /\ view.cat.state = "absent"
              /\ cat'.state = "live" /\ ~cat'.fin
           \/ /\ DeleteCatalog \/ CollectCatalog
              /\ cat.state = "live"
              /\ \/ cat.fin /\ cat'.fin /\ cat'.state = "deleting"
                 \/ ~cat.fin /\ cat' = NoCatalog
           \/ OpBegin /\ cat.state = "live" /\ cat'.state = "live" /\ cat'.fin
           \/ /\ OpRelease \/ TakeOverRelease
              /\ ~cat'.fin
              /\ \/ cat.state = "deleting" /\ cat' = NoCatalog
                 \/ cat.state # "deleting" /\ cat'.state = cat.state
                                           /\ cat'.migrated = cat.migrated
  <1>0. cat \in Catalog
    BY DEF TypeOK
  <1>1. CASE CreateCatalog
    <2>1. NewCatalog.state = "live" /\ ~NewCatalog.fin
      BY DEF NewCatalog, NoCatalog
    <2> QED
      BY <1>1, <2>1 DEF CreateCatalog, WriteCat
  <1>2. CASE MigrateCatalog
    <2>1. Migrated(cat).state = cat.state /\ Migrated(cat).fin = cat.fin
      BY <1>0 DEF Migrated, Catalog
    <2> QED
      BY <1>2, <2>1 DEF MigrateCatalog, WriteCat
  <1>3. CASE DeleteCatalog \/ CollectCatalog
    <2>1. cat' = cat \/ cat' = Deleted(cat)
      BY <1>3 DEF DeleteCatalog, CollectCatalog, WriteCat
    <2>2. \/ Deleted(cat) = cat
          \/ cat.state = "live" /\ ~cat.fin /\ Deleted(cat) = NoCatalog
          \/ /\ cat.state = "live" /\ cat.fin /\ Deleted(cat).fin
             /\ Deleted(cat).state = "deleting"
      BY <1>0 DEF Deleted, Catalog
    <2> QED
      BY <1>3, <2>1, <2>2
  <1>4. CASE OpBegin
    <2>1. CASE cat.state = "live"
      BY <1>0, <1>4, <2>1 DEF OpBegin, WriteCat, Catalog
    <2>2. CASE cat.state # "live"
      BY <1>4, <2>2 DEF OpBegin
    <2> QED
      BY <2>1, <2>2
  <1>5. CASE OpRelease \/ TakeOverRelease
    <2>1. cat' = cat \/ cat' = Unfinalized(cat)
      BY <1>5 DEF OpRelease, TakeOverRelease, WriteCat
    <2>2. /\ ~Unfinalized(cat).fin
          /\ \/ cat.state = "deleting" /\ Unfinalized(cat) = NoCatalog
             \/ /\ cat.state # "deleting" /\ Unfinalized(cat).state = cat.state
                /\ Unfinalized(cat).migrated = cat.migrated
      BY <1>0 DEF Unfinalized, Catalog, NoCatalog
    <2> QED
      BY <1>5, <2>1, <2>2
  <1>6. CASE OpReport
    <2>1. PICK r : cat' = cat \/ cat' = [cat EXCEPT !.rep = r]
      BY <1>6 DEF OpReport, WriteCat
    <2> QED
      BY <1>0, <2>1 DEF Catalog
  <1>7. CASE EditSelection
    <2>1. cat'.state = cat.state /\ cat'.fin = cat.fin /\ cat'.migrated = cat.migrated
      BY <1>0, <1>7 DEF EditSelection, WriteCat, Catalog
    <2> QED
      BY <2>1
  <1>8. CASE cat' = cat
    BY <1>8
  <1> QED
    BY <1>1, <1>2, <1>3, <1>4, <1>5, <1>6, <1>7, <1>8, Frames DEF CatSteps

LEMMA UnmarkedStep ==
    ASSUME TypeOK, Unmarked, Acts \/ Sync
    PROVE  Unmarked'
  <1>1. CASE Sync
    BY <1>1, SyncStep DEF Unmarked
  <1>2. CASE Acts
    <2>1. ~NoCatalog.fin /\ ~NoCatalog.migrated
      BY DEF NoCatalog
    <2> QED
      BY <1>2, <2>1, CatLife DEF Unmarked
  <1> QED
    BY <1>1, <1>2

-----------------------------------------------------------------------------
(***************************************************************************)
(* The ordered teardown                                                     *)
(***************************************************************************)
\* How the operator moves.
OpStays == op'.pc = op.pc /\ op'.todo = op.todo /\ op'.up = op.up /\ ~OpStep /\ ~OpBegin
OpRests ==
    /\ op'.pc = "idle" /\ op'.todo = <<>> /\ ~OpStep
    /\ op'.up => op.up \/ OpStarts
OpTurns ==
    /\ OpBegin /\ op.up /\ op'.up
    /\ \/ cat.state = "live" /\ op'.pc = "ensure" /\ cat'.fin
       \/ cat.state = "deleting" /\ op'.pc = "finalize" /\ op'.todo = <<"proxy", "route">>
OpWorks ==
    /\ OpStep /\ op.up /\ op'.up /\ op'.pc = op.pc
    /\ op.todo # <<>> /\ op'.todo = Tail(op.todo)

LEMMA OpMoves ==
    ASSUME TypeOK, Passes, Acts
    PROVE  OpStays \/ OpRests \/ OpTurns \/ OpWorks
  <1>0. op \in Operator /\ cat \in Catalog
    BY DEF TypeOK
  <1>1. CASE OpBegin
    <2>1. cat.state \in {"live", "deleting"} /\ op.up
      BY <1>1 DEF OpBegin, Due
    <2>2. CASE cat.state = "live"
      <3>1. cat' = [cat EXCEPT !.fin = TRUE]
        BY <1>1, <2>2 DEF OpBegin, WriteCat
      <3>2. op' = [op EXCEPT !.pc = "ensure", !.todo = Ensures, !.gen = cat.gen, !.held = TRUE]
        BY <1>1, <2>2 DEF OpBegin
      <3>3. cat'.fin /\ op'.pc = "ensure" /\ op'.up = op.up
        BY <1>0, <3>1, <3>2 DEF Catalog, Operator
      <3> QED
        BY <1>1, <2>1, <2>2, <3>3 DEF OpTurns
    <2>3. CASE cat.state = "deleting"
      <3>1. op' = [op EXCEPT !.pc = "finalize", !.todo = Finalizes, !.held = TRUE]
        BY <1>1, <2>3 DEF OpBegin
      <3>2. op'.pc = "finalize" /\ op'.up = op.up /\ op'.todo = <<"proxy", "route">>
        BY <1>0, <3>1 DEF Operator, Finalizes
      <3> QED
        BY <1>1, <2>1, <2>3, <3>2 DEF OpTurns
    <2> QED
      BY <2>1, <2>2, <2>3
  <1>2. CASE OpStep
    <2>1. op'.pc = op.pc /\ op'.up = op.up /\ op'.todo = Tail(op.todo) /\ op.up /\ op.todo # <<>>
      BY <1>0, <1>2 DEF OpStep, Operator
    <2> QED
      BY <1>2, <2>1 DEF OpWorks
  <1>3. ASSUME ~OpBegin, ~OpStep
        PROVE  OpStays \/ OpRests
    <2>1. \/ op' = op
          \/ \E b : op' = [op EXCEPT !.held = b]
          \/ op' = Down
          \/ OpStarts /\ \E b : op' = [Down EXCEPT !.up = TRUE, !.domain = b]
          \/ op' = Rested /\ op.up
      <3>1. CASE Reconcile
        BY <3>1 DEF Reconcile, EnsureCatalog, Begin, BeginFails, BeginNothing,
           Deploy, DeployFails, ChildrenDown, CreateCatalog, MigrateCatalog, KeepCatalog,
           EnsureCatalogFails, WriteStatus, Release, DeleteCatalog, Check, TakeOver,
           TakeOverRelease, CallFails, Outdated
      <3>2. CASE OperatorSteps
        BY <1>3, <3>2 DEF OperatorSteps, OpReport, OpRelease
      <3>3. CASE Environment
        BY <3>3 DEF Environment, OpStarts, OpReady, OpUnready, OpStops, OpMissed,
           RegistryStarts, RegistryStops, LegacyRemoved, LegacyReplaced, EditHub,
           EditSelection, DeleteHub, CollectCatalog, CollectDeployment, Outdated
      <3> QED
        BY <3>1, <3>2, <3>3 DEF Acts
    <2>2. CASE op' = op
      BY <1>3, <2>2 DEF OpStays
    <2>3. CASE \E b : op' = [op EXCEPT !.held = b]
      BY <1>0, <1>3, <2>3 DEF OpStays, Operator
    <2>4. CASE op' = Down
      BY <1>3, <2>4 DEF OpRests, Down
    <2>5. CASE OpStarts /\ \E b : op' = [Down EXCEPT !.up = TRUE, !.domain = b]
      BY <1>3, <2>5 DEF OpRests, Down
    <2>6. CASE op' = Rested /\ op.up
      BY <1>3, <2>6 DEF OpRests, Rested, Down
    <2> QED
      BY <2>1, <2>2, <2>3, <2>4, <2>5, <2>6
  <1> QED
    BY <1>1, <1>2, <1>3

\* A gone AIHub, or one whose deletion has been noticed, is not provisioned for again.
LEMMA LeavingStays ==
    ASSUME TypeOK, Passes, HubGuards, Acts, hub.state = "gone" \/ view.hub.state # "live"
    PROVE  /\ hub'.state = "gone" \/ view'.hub.state # "live"
           /\ ~Begin /\ ~BeginFails
  <1>1. hub.state = "gone" => hub'.state = "gone"
    <2> SUFFICES ASSUME hub.state = "gone" PROVE hub'.state = "gone"
      OBVIOUS
    <2>0. hub \in Hub
      BY DEF TypeOK
    <2>1. CASE Begin \/ WriteStatus
      BY <2>0, <2>1 DEF Begin, EnsureFinalizer, WriteStatus, WriteHub, Hub
    <2>2. CASE Release
      BY <2>0, <2>2 DEF Release, WriteHub, Gone, Hub
    <2>3. ~EditHub /\ ~DeleteHub
      BY DEF EditHub, DeleteHub
    <2> QED
      BY <2>1, <2>2, <2>3, Frames DEF HubSteps
  <1>2. ~Begin
    <2> SUFFICES ASSUME Begin PROVE FALSE
      OBVIOUS
    <2>1. view.hub.state = "live" /\ (view.hub.fin \/ view.hub = hub)
      BY DEF Begin, TypeOK
    <2> QED
      BY <2>1 DEF HubGuards
  <1>3. ~BeginFails
    BY DEF BeginFails, HubGuards
  <1> QED
    BY <1>1, <1>2, <1>3, Frames

LEMMA TodoLists ==
    /\ Tail(<<"route", "proxy", "release">>) = <<"proxy", "release">>
    /\ Tail(<<"proxy", "release">>) = <<"release">>
    /\ Head(<<"route", "proxy", "release">>) = "route"
    /\ Head(<<"proxy", "release">>) = "proxy"
    /\ Tail(<<"proxy", "route">>) = <<"route">> /\ Tail(<<"route">>) = <<>>
    /\ Head(<<"proxy", "route">>) = "proxy" /\ Head(<<"route">>) = "route"
    /\ <<"route", "proxy", "release">> # <<"proxy", "release">>
    /\ <<"route", "proxy", "release">> # <<"release">>
    /\ <<"proxy", "release">> # <<"release">>
    /\ <<"proxy", "route">> # <<"route">> /\ <<"proxy", "route">> # <<>> /\ <<"route">> # <<>>
  OBVIOUS

\* Whatever changes the resources of a Catalog that is not being ensured deletes.
LEMMA ExtShrinks ==
    ASSUME TypeOK, Passes, Acts, op.pc # "ensure"
    PROVE  ext' \subseteq ext
  BY ExtMoves

\* Where the reconciler comes to in a teardown.
LEMMA TeardownMoves ==
    ASSUME TypeOK, Passes, Acts
    PROVE  \/ rec' = rec
           \/ rec'.pc \notin {"check", "takeover"}
           \/ DeleteCatalog /\ rec'.pc = "check"
           \/ rec'.pc = "takeover" /\ Check /\ rec'.todo = <<"route", "proxy", "release">>
           \/ /\ rec'.pc = "takeover" /\ TakeOver /\ rec.pc = "takeover"
              /\ rec'.todo = Tail(rec.todo)
              /\ rec'.todo \in {<<"proxy", "release">>, <<"release">>}
  <1>1. rec' = rec \/ rec' = Idle \/ Begun(rec') \/ Provisions \/ TearsDown
    BY RecSteps
  <1>2. Idle.pc = "idle"
    BY DEF Idle
  <1> QED
    BY <1>1, <1>2 DEF Begun, Provisions, GoesOn, TearsDown

LEMMA DeletionsStep ==
    ASSUME TypeOK, Passes, HubGuards, Unmarked, Deletions, Acts
    PROVE  Deletions'
  <1>1. view' = view
    BY Frames
  <1>2. OpStays \/ OpRests \/ OpTurns \/ OpWorks
    BY OpMoves
  <1>3. NoCatalog.state = "absent" /\ ~NoCatalog.fin
    BY DEF NoCatalog
  <1>4. ~op'.up => op'.pc = "idle"
    BY <1>2 DEF OpStays, OpRests, OpTurns, OpWorks, Deletions
  <1>5. view'.cat.state = "deleting" => cat'.state # "live"
    BY <1>1, <1>3, CatLife DEF Deletions
  \* Once the Catalog is deleted the reconciler does not provision.
  <1>6. cat'.state = "deleting" \/ op'.pc = "finalize" =>
          /\ hub'.state = "gone" \/ view'.hub.state # "live"
          /\ rec'.pc \notin Provisioning
    <2>1. CASE cat.state = "deleting" \/ op.pc = "finalize"
      <3>1. /\ hub.state = "gone" \/ view.hub.state # "live"
            /\ rec.pc \notin Provisioning
        BY <2>1 DEF Deletions
      <3> QED
        BY <3>1, LeavingStays, RecPc
    <2>2. CASE (DeleteCatalog \/ CollectCatalog) /\ cat.state = "live"
      <3>1. hub.state = "gone" \/ view.hub.state # "live"
        BY <2>2 DEF DeleteCatalog, CollectCatalog, Cleanup
      <3>2. rec.pc \notin Provisioning
        BY <2>2 DEF DeleteCatalog, CollectCatalog, Cleanup, HubGuards, Provisioning
      <3> QED
        BY <3>1, <3>2, LeavingStays, RecPc
    <2>3. CASE /\ cat.state # "deleting" /\ op.pc # "finalize"
               /\ ~((DeleteCatalog \/ CollectCatalog) /\ cat.state = "live")
      <3>1. cat'.state # "deleting"
        BY <1>3, <2>3, CatLife
      <3>2. op'.pc # "finalize"
        BY <1>2, <2>3 DEF OpStays, OpRests, OpTurns, OpWorks
      <3> QED
        BY <3>1, <3>2
    <2> QED
      BY <2>1, <2>2, <2>3
  <1>7. op'.pc = "finalize" => cat'.state # "live"
    <2> SUFFICES ASSUME op'.pc = "finalize" PROVE cat'.state # "live"
      OBVIOUS
    <2>1. CASE OpTurns
      <3>1. cat.state = "deleting"
        BY <2>1 DEF OpTurns
      <3> QED
        BY <1>3, <3>1, CatLife
    <2>2. CASE ~OpTurns
      <3>1. op.pc = "finalize"
        BY <1>2, <2>2 DEF OpStays, OpRests, OpWorks
      <3>2. cat.state # "live" /\ rec.pc \notin Provisioning
        BY <3>1 DEF Deletions
      <3> QED
        BY <1>3, <3>2, CatLife DEF Provisioning
    <2> QED
      BY <2>1, <2>2
  <1>8. rec'.pc \in {"check", "takeover"} => cat'.state # "live"
    <2> SUFFICES ASSUME rec'.pc \in {"check", "takeover"} PROVE cat'.state # "live"
      OBVIOUS
    <2>1. CASE DeleteCatalog
      <3>1. view.cat.state # "absent"
        BY <2>1 DEF DeleteCatalog, NothingToDelete
      <3>2. CASE view.cat.state = "live"
        <4>1. cat' = Deleted(cat)
          BY <2>1, <3>2 DEF DeleteCatalog, WriteCat
        <4> QED
          BY <1>3, <4>1 DEF Deleted, TypeOK, Catalog
      <3>3. CASE view.cat.state = "deleting"
        BY <2>1, <3>3 DEF DeleteCatalog, WriteCat, Deletions
      <3> QED
        BY <3>1, <3>2, <3>3 DEF TypeOK, Catalog
    <2>2. CASE ~DeleteCatalog
      <3>1. rec.pc \in {"check", "takeover"}
        BY <2>2, TeardownMoves DEF Check
      <3>2. cat.state # "live" /\ rec.pc # "assess"
        BY <3>1 DEF Deletions
      <3> QED
        BY <1>3, <3>2, CatLife
    <2> QED
      BY <2>1, <2>2
  <1> QED
    BY <1>4, <1>5, <1>6, <1>7, <1>8 DEF Deletions

\* A takeover that begins beside no operator meets none in the middle of a pass.
LEMMA TeardownStep ==
    ASSUME TypeOK, Passes, HubGuards, Unmarked, Deletions, ~raced => OrderedTeardown,
           Acts, ~raced'
    PROVE  OrderedTeardown'
  <1>1. ~raced /\ (Check /\ rec'.pc = "takeover" => ~op.up)
    BY RacedMoves DEF TypeOK, Check
  <1>0. OrderedTeardown
    BY <1>1
  <1>2. OpStays \/ OpRests \/ OpTurns \/ OpWorks
    BY OpMoves
  <1>3. NoCatalog.state = "absent" /\ ~NoCatalog.fin
    BY DEF NoCatalog
  <1>4. ~cat'.fin => ext' = {} /\ op'.pc # "ensure"
    <2> SUFFICES ASSUME ~cat'.fin PROVE ext' = {} /\ op'.pc # "ensure"
      OBVIOUS
    <2>1. CASE ~cat.fin
      <3>1. ext = {} /\ op.pc # "ensure"
        BY <1>0, <2>1 DEF OrderedTeardown
      <3>2. ext' = {}
        BY <3>1, ExtShrinks
      <3> QED
        BY <1>2, <3>1, <3>2 DEF OpStays, OpRests, OpTurns, OpWorks
    <2>2. CASE cat.fin
      <3>1. OpRelease \/ TakeOverRelease \/ cat' = NoCatalog
        BY <2>2, CatLife DEF Unmarked
      <3>2. OpRelease \/ TakeOverRelease
        BY <2>2, <3>1, CatLife, <1>3
      <3>3. CASE OpRelease
        <4>1. op.pc = "finalize" /\ op.todo = <<>> /\ ext' = ext
          BY <3>3 DEF OpRelease
        <4>2. op'.pc = "idle"
          BY <3>3 DEF OpRelease, Rested, Down
        <4> QED
          BY <1>0, <4>1, <4>2 DEF OrderedTeardown
      <3>4. CASE TakeOverRelease
        <4>1. rec.pc = "takeover" /\ Head(rec.todo) = "release" /\ ext' = ext
          BY <3>4 DEF TakeOverRelease
        <4>2. rec.todo = <<"release">>
          BY <4>1, TodoLists DEF Passes
        <4>3. ext = {} /\ op.pc # "ensure"
          BY <1>0, <4>1, <4>2 DEF OrderedTeardown
        <4>4. op'.pc = op.pc
          <5>1. op' = op \/ \E c : op' = Outdated(c)
            BY <3>4 DEF TakeOverRelease
          <5> QED
            BY <5>1 DEF Outdated, TypeOK, Operator
        <4> QED
          BY <4>1, <4>3, <4>4
      <3> QED
        BY <3>2, <3>3, <3>4
    <2> QED
      BY <2>1, <2>2 DEF TypeOK, Catalog
  <1>5. op'.pc = "finalize" => /\ op'.todo = <<"route">> => "proxy" \notin ext'
                               /\ op'.todo = <<>> => ext' = {}
    <2> SUFFICES ASSUME op'.pc = "finalize"
                 PROVE  /\ op'.todo = <<"route">> => "proxy" \notin ext'
                        /\ op'.todo = <<>> => ext' = {}
      OBVIOUS
    <2>1. CASE OpTurns
      <3>1. cat.state = "deleting" /\ op'.todo = <<"proxy", "route">>
        BY <2>1 DEF OpTurns, Deletions
      <3> QED
        BY <3>1, TodoLists
    <2>2. CASE ~OpTurns
      <3>1. op.pc = "finalize"
        BY <1>2, <2>2 DEF OpStays, OpRests, OpWorks
      <3>2. ext' \subseteq ext
        BY <3>1, ExtShrinks
      <3>4. CASE OpStays
        BY <1>0, <3>1, <3>2, <3>4 DEF OpStays, OrderedTeardown
      <3>5. CASE OpWorks
        <4>1. /\ op.todo \in {<<"proxy", "route">>, <<"route">>}
              /\ op'.todo = Tail(op.todo) /\ ext' = ext \ {Head(op.todo)}
          BY <3>1, <3>5 DEF OpWorks, Passes, OpStep
        <4>2. CASE op.todo = <<"proxy", "route">>
          BY <4>1, <4>2, TodoLists
        <4>3. CASE op.todo = <<"route">>
          <5>1. "proxy" \notin ext /\ ext \subseteq {"route", "proxy"}
            BY <1>0, <3>1, <4>3 DEF OrderedTeardown, TypeOK, Resource
          <5> QED
            BY <4>1, <4>3, <5>1, TodoLists
        <4> QED
          BY <4>1, <4>2, <4>3
      <3> QED
        BY <1>2, <2>2, <3>4, <3>5 DEF OpRests
    <2> QED
      BY <2>1, <2>2
  <1>6. rec'.pc = "takeover" => /\ op'.pc # "ensure"
                                /\ rec'.todo = <<"proxy", "release">> => "route" \notin ext'
                                /\ rec'.todo = <<"release">> => ext' = {}
    <2> SUFFICES ASSUME rec'.pc = "takeover"
                 PROVE  /\ op'.pc # "ensure"
                        /\ rec'.todo = <<"proxy", "release">> => "route" \notin ext'
                        /\ rec'.todo = <<"release">> => ext' = {}
      OBVIOUS
    <2>1. CASE Check /\ rec'.todo = <<"route", "proxy", "release">>
      <3>1. op.pc = "idle" /\ op' = op
        BY <1>1, <2>1 DEF Check, Deletions
      <3> QED
        BY <2>1, <3>1, TodoLists
    <2>2. CASE rec.pc = "takeover" /\ (rec' = rec \/ TakeOver)
      <3>1. op.pc # "ensure" /\ cat.state # "live"
        BY <1>0, <2>2 DEF OrderedTeardown, Deletions
      <3>2. ext' \subseteq ext
        BY <3>1, ExtShrinks
      <3>3. op'.pc # "ensure"
        BY <1>2, <3>1 DEF OpStays, OpRests, OpTurns, OpWorks
      <3>4. CASE rec' = rec
        BY <1>0, <2>2, <3>2, <3>3, <3>4 DEF OrderedTeardown
      <3>5. CASE /\ TakeOver /\ rec'.todo = Tail(rec.todo)
                 /\ rec'.todo \in {<<"proxy", "release">>, <<"release">>}
        <4>1. ext' = ext \ {Head(rec.todo)} /\ Head(rec.todo) \in Resource
          BY <3>5 DEF TakeOver
        <4>2. CASE rec.todo = <<"route", "proxy", "release">>
          BY <3>3, <3>5, <4>1, <4>2, TodoLists
        <4>3. CASE rec.todo = <<"proxy", "release">>
          <5>1. "route" \notin ext /\ ext \subseteq {"route", "proxy"}
            BY <1>0, <2>2, <4>3 DEF OrderedTeardown, TypeOK, Resource
          <5> QED
            BY <3>3, <3>5, <4>1, <4>3, <5>1, TodoLists
        <4>4. rec.todo # <<"release">>
          BY <4>1 DEF Resource
        <4> QED
          BY <2>2, <4>2, <4>3, <4>4 DEF Passes
      <3> QED
        BY <2>2, <3>4, <3>5, TeardownMoves DEF Check
    <2> QED
      BY <2>1, <2>2, TeardownMoves
  <1> QED
    BY <1>4, <1>5, <1>6 DEF OrderedTeardown

LEMMA TeardownSync ==
    ASSUME TypeOK, HubGuards, Deletions, ~raced => OrderedTeardown, Sync
    PROVE  Deletions' /\ (~raced' => OrderedTeardown')
  <1>1. /\ UNCHANGED <<hub, cat, dep, ext, rec, op, raced>>
        /\ view'.hub \in {view.hub, hub} /\ view'.cat \in {view.cat, cat}
    BY SyncStep, SyncView
  <1>2. view'.cat.state = "deleting" => cat'.state # "live"
    BY <1>1 DEF Deletions
  <1>3. hub.state = "gone" \/ view.hub.state # "live"
          => hub'.state = "gone" \/ view'.hub.state # "live"
    BY <1>1 DEF HubGuards
  <1>4. Deletions'
    BY <1>1, <1>2, <1>3 DEF Deletions, Provisioning
  <1> QED
    BY <1>1, <1>4 DEF OrderedTeardown

-----------------------------------------------------------------------------
(***************************************************************************)
(* The identities of the Deployments                                        *)
(***************************************************************************)
LEMMA IdentitiesStep ==
    ASSUME TypeOK, Identities, Acts \/ Sync
    PROVE  Identities'
  <1> SUFFICES ASSUME NEW c \in Child
               PROVE  /\ view'.dep[c].uid <= dep'[c].uid
                      /\ view'.dep[c].uid = dep'[c].uid /\ view'.dep[c].phase = "legacy"
                            => dep'[c].phase # "current"
    BY DEF Identities
  <1>0. view.dep[c].uid \in Nat /\ dep[c].uid \in Nat
    BY DEF TypeOK, ChildDeployment
  <1>1. CASE Sync
    <2>1. dep' = dep /\ view'.dep[c] \in {view.dep[c], dep[c]}
      BY <1>1, SyncStep, SyncView
    <2> QED
      BY <1>0, <2>1 DEF Identities
  <1>2. CASE Acts
    <2>1. view' = view
      BY <1>2, Frames
    <2>2. /\ view.dep[c].uid <= dep[c].uid
          /\ view.dep[c].uid = dep[c].uid /\ view.dep[c].phase = "legacy"
                => dep[c].phase # "current"
      BY DEF Identities
    <2> QED
      BY <1>0, <1>2, <2>1, <2>2, DepLife
  <1> QED
    BY <1>1, <1>2

-----------------------------------------------------------------------------
(***************************************************************************)
(* The theorems                                                             *)
(***************************************************************************)
LEMMA InitStep == Init => Consistent
  <1> SUFFICES ASSUME Init PROVE Consistent
    OBVIOUS
  <1>1. PICK left \in {"nothing", "foreign", "legacy"} :
          /\ cat = IF left = "nothing" THEN NoCatalog
                   ELSE [NoCatalog EXCEPT !.state = "live", !.gen = 1,
                                          !.owned = (left = "legacy")]
          /\ dep = [c \in Child |-> IF left = "legacy" /\ c = "registry"
                                    THEN LegacyChild ELSE NoChild]
    BY DEF Init
  <1>2. /\ cat \in Catalog /\ ~cat.fin /\ ~cat.migrated /\ ~cat.rep.ready
        /\ cat.state \in {"absent", "live"}
    <2>1. /\ NoCatalog \in Catalog /\ ~NoCatalog.fin /\ ~NoCatalog.migrated
          /\ ~NoCatalog.rep.ready /\ NoCatalog.state = "absent"
      BY Constants DEF NoCatalog, NoReport
    <2>2. (left = "legacy") \in BOOLEAN
      OBVIOUS
    <2> QED
      BY <1>1, <2>1, <2>2 DEF Catalog
  <1>3. dep \in [Child -> ChildDeployment]
    BY <1>1, Constants
  <1>4. /\ hub \in Hub /\ hub.state = "live" /\ ~hub.fin /\ hub.gen = 1 /\ hub.st = NoHubStatus
    BY Constants DEF Init, Hub
  <1>5. /\ view = [hub |-> hub, cat |-> cat, dep |-> dep] /\ stale = {}
        /\ rec = Idle /\ op = Down /\ ext = {} /\ earned = {} /\ queue = TRUE
        /\ raced = FALSE
        /\ count = [edits |-> 0, flaps |-> 0, faults |-> 0]
    BY DEF Init
  <1>6. Idle.pc = "idle" /\ Idle.st = NoHubStatus
    BY DEF Idle
  <1>7. Down.pc = "idle" /\ ~Down.up /\ Down.todo = <<>>
    BY DEF Down
  <1>8. NoHubStatus.obs = 0 /\ ~NoHubStatus.prov /\ ~NoHubStatus.data
    BY DEF NoHubStatus
  <1>9. TypeOK
    <2>1. view \in [hub : Hub, cat : Catalog, dep : [Child -> ChildDeployment]]
      BY <1>2, <1>3, <1>4, <1>5
    <2>2. count \in [edits : 0 .. MaxEvents, flaps : 0 .. MaxEvents, faults : 0 .. MaxEvents]
      BY <1>5, BoundsAssumption
    <2> QED
      BY <1>2, <1>3, <1>4, <1>5, <2>1, <2>2, Constants DEF TypeOK
  <1>10. HubGuards /\ Passes
    BY <1>4, <1>5, <1>6, <1>7 DEF HubGuards, Passes, Provisioning, Finalizing
  <1>11. Generations
    BY <1>4, <1>5, <1>6, <1>8 DEF Generations, ObservedIsDeployed, Provisioning
  <1>12. Verdicts
    BY <1>2, <1>4, <1>5, <1>6, <1>8 DEF Verdicts
  <1>13. OrderedTeardown /\ Deletions
    BY <1>2, <1>5, <1>6, <1>7 DEF OrderedTeardown, Deletions
  <1>14. Identities
    <2>1. \A c \in Child : dep[c].uid \in Nat /\ dep[c].phase # "current" /\ view.dep[c] = dep[c]
      BY <1>1, <1>3, <1>5 DEF NoChild, LegacyChild, ChildDeployment
    <2> QED
      BY <2>1 DEF Identities
  <1> QED
    BY <1>2, <1>9, <1>10, <1>11, <1>12, <1>13, <1>14 DEF Consistent

LEMMA ConsistentStep ==
    ASSUME Consistent, [Next]_vars
    PROVE  Consistent'
  <1>1. /\ TypeOK /\ HubGuards /\ Passes /\ Generations /\ Verdicts /\ Unmarked
        /\ Deletions /\ Identities /\ (~raced => OrderedTeardown)
    BY DEF Consistent, Unmarked
  <1>2. CASE Next
    <2>1. Sync \/ Acts
      BY <1>2 DEF Next, Acts
    <2>2. TypeOK' /\ Passes'
      BY <1>1, <2>1, TypeStep
    <2>3. HubGuards'
      BY <1>1, <2>1, HubGuardsStep
    <2>4. Generations'
      BY <1>1, <2>1, GenerationsStep
    <2>5. Verdicts'
      BY <1>1, <2>1, VerdictsStep
    <2>6. Unmarked'
      BY <1>1, <2>1, UnmarkedStep
    <2>7. Deletions'
      BY <1>1, <2>1, DeletionsStep, TeardownSync
    <2>8. Identities'
      BY <1>1, <2>1, IdentitiesStep
    <2>9. ~raced' => OrderedTeardown'
      BY <1>1, <2>1, TeardownStep, TeardownSync
    <2> QED
      BY <2>2, <2>3, <2>4, <2>5, <2>6, <2>7, <2>8, <2>9 DEF Consistent, Unmarked
  <1>3. CASE UNCHANGED vars
    <2> USE DEF vars
    <2>1. TypeOK' /\ Passes' /\ HubGuards' /\ Verdicts' /\ Unmarked'
      BY <1>1, <1>3 DEF TypeOK, Passes, HubGuards, Verdicts, Unmarked
    <2>2. Generations'
      BY <1>1, <1>3 DEF Generations, ObservedIsDeployed, DeployedSince
    <2>3. Deletions' /\ Identities' /\ (~raced' => OrderedTeardown')
      BY <1>1, <1>3 DEF Deletions, Identities, OrderedTeardown
    <2> QED
      BY <2>1, <2>2, <2>3 DEF Consistent, Unmarked
  <1> QED
    BY <1>2, <1>3

\* The reconciler, its caches and the catalog operator stay consistent: no reconcile
\* provisions without the finalizer, statuses follow what was deployed and reported,
\* copies tell selectors as long as they tell UIDs, and the teardown is ordered unless
\* a takeover began beside a live operator.
THEOREM ConsistencyIsKept == Spec => []Consistent
  <1>1. Consistent /\ [Next]_vars => Consistent'
    BY ConsistentStep
  <1> QED
    BY InitStep, <1>1, PTL DEF Spec

\* Nothing of the Catalog outlives the AIHub and the Catalog, whoever finalized it and
\* whichever informers lag, provided that no takeover of takeOverCatalogFinalization
\* began beside a live operator.
THEOREM TeardownLeaksNothing == Spec => []NoLeakWithoutRace
  <1>1. Consistent => NoLeakWithoutRace
    BY DEF Consistent, OrderedTeardown, NoLeak, NoLeakWithoutRace
  <1> QED
    BY <1>1, ConsistencyIsKept, PTL

\* No status of the AIHub reports provisioning for a generation that was not
\* deployed.
THEOREM ObservedMeansDeployed == Spec => []ObservedIsDeployed
  <1>1. Consistent => ObservedIsDeployed
    BY DEF Consistent, Generations
  <1> QED
    BY <1>1, ConsistencyIsKept, PTL

\* No status of the AIHub reports the Catalog's data ready for a generation of the
\* Catalog for which its own reconciler did not.
THEOREM DataReadyMeansEarned == Spec => []DataReadyIsEarned
  <1>1. Consistent => DataReadyIsEarned
    BY DEF Consistent, Verdicts, DataReadyIsEarned
  <1> QED
    BY <1>1, ConsistencyIsKept, PTL

SelectionKept ==
    cat.migrated /\ cat'.state # "absent" /\ cat'.sel # cat.sel
        => count'.edits = count.edits + 1

LegacyOnly ==
    \A c \in Child : dep'[c].phase = "terminating"
        => dep[c].phase \in {"legacy", "terminating"}

\* However outdated AIHub's copy is, only the administrator changes the selections of
\* a Catalog that carries the migration marker.
THEOREM SelectionIsKept == Spec => MigratedSelectionIsKept
  <1>1. Consistent /\ [Next]_vars => [SelectionKept]_vars
    <2> SUFFICES ASSUME Consistent, Next PROVE SelectionKept
      OBVIOUS
    <2> SUFFICES ASSUME cat.migrated, cat'.state # "absent", cat'.sel # cat.sel
                 PROVE  count'.edits = count.edits + 1
      BY DEF SelectionKept
    <2>0. TypeOK /\ cat \in Catalog /\ cat.state # "absent"
      BY DEF Consistent, TypeOK
    <2>1. CatSteps
      BY <2>0, SyncStep, Frames DEF Next, Acts
    <2>2. ~CreateCatalog
      BY <2>0 DEF CreateCatalog
    <2>3. ~MigrateCatalog
      <3>1. MigrateCatalog => view.cat = cat /\ ~view.cat.migrated
        BY <2>0 DEF MigrateCatalog, MigrationAllowed, NeedsMigration, TypeOK
      <3> QED
        BY <3>1
    <2>4. /\ Deleted(cat).sel = cat.sel \/ Deleted(cat).state = "absent"
          /\ Unfinalized(cat).sel = cat.sel \/ Unfinalized(cat).state = "absent"
      BY <2>0 DEF Deleted, Unfinalized, Catalog, NoCatalog
    <2>5. ~DeleteCatalog /\ ~TakeOverRelease /\ ~OpRelease /\ ~CollectCatalog
      BY <2>4 DEF DeleteCatalog, TakeOverRelease, OpRelease, CollectCatalog, WriteCat
    <2>6. ~OpBegin
      BY <2>0 DEF OpBegin, WriteCat, Catalog
    <2>7. ~OpReport
      <3>1. OpReport => \E r : cat' = cat \/ cat' = [cat EXCEPT !.rep = r]
        BY DEF OpReport, WriteCat
      <3> QED
        BY <2>0, <3>1 DEF Catalog
    <2>8. EditSelection
      BY <2>1, <2>2, <2>3, <2>5, <2>6, <2>7 DEF CatSteps
    <2> QED
      BY <2>0, <2>8 DEF EditSelection, Edited, TypeOK
  <1>2. Spec => [][SelectionKept]_vars
    BY <1>1, ConsistencyIsKept, PTL DEF Spec
  <1>3. MigratedSelectionIsKept <=> [][SelectionKept]_vars
    BY DEF MigratedSelectionIsKept, SelectionKept
  <1> QED
    BY <1>2, <1>3

\* However outdated AIHub's copies are, it deletes no Deployment but a legacy one: the
\* UID precondition of the Delete suffices, although the selector is read before it.
THEOREM LegacyIsDeleted == Spec => OnlyLegacyIsDeleted
  <1>1. Consistent /\ [Next]_vars => [LegacyOnly]_vars
    <2> SUFFICES ASSUME Consistent, Next, NEW c \in Child, dep'[c].phase = "terminating"
                 PROVE  dep[c].phase \in {"legacy", "terminating"}
      BY DEF LegacyOnly
    <2>0. TypeOK /\ dep[c] \in ChildDeployment /\ Identities
      BY DEF Consistent, TypeOK
    <2>1. CASE Sync
      BY <2>0, <2>1, SyncStep
    <2>2. CASE Acts
      <3>1. CASE Begin /\ LiveDeployment(c).phase = "legacy" /\ SameObject(c)
        <4>1. CASE view.dep[c].phase = "none"
          BY <3>1, <4>1 DEF LiveDeployment
        <4>2. CASE view.dep[c].phase # "none"
          <5>1. view.dep[c].phase = "legacy" /\ view.dep[c].uid = dep[c].uid
            BY <3>1, <4>2 DEF LiveDeployment, SameObject
          <5>2. dep[c].phase # "current" /\ dep[c].phase # "none"
            BY <2>0, <3>1, <5>1 DEF Identities, SameObject
          <5> QED
            BY <2>0, <5>2 DEF ChildDeployment
        <4> QED
          BY <4>1, <4>2
      <3> QED
        BY <2>0, <2>2, <3>1, DepLife
    <2> QED
      BY <2>1, <2>2 DEF Next, Acts
  <1>2. Spec => [][LegacyOnly]_vars
    BY <1>1, ConsistencyIsKept, PTL DEF Spec
  <1>3. OnlyLegacyIsDeleted <=> [][LegacyOnly]_vars
    BY DEF OnlyLegacyIsDeleted, LegacyOnly
  <1> QED
    BY <1>2, <1>3
=============================================================================
