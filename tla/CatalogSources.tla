---------------------------- MODULE CatalogSources ----------------------------
(***************************************************************************)
(* What the catalog operator reads from administrators and how it follows   *)
(* it: the user sources ConfigMaps it creates once and strips of the old    *)
(* default source, labelled source ConfigMaps, HuggingFace secrets, the     *)
(* postgres secret, the admin groups of the Auth CR, and the generated      *)
(* objects it repairs. A pass is one run of ensureCatalogResources after    *)
(* image resolution (module CatalogActivation) has succeeded.               *)
(*                                                                          *)
(* ConfigMaps, the Auth CR and generated objects are read through informer  *)
(* caches, secrets from the API server. seen holds the informers' copies;   *)
(* Sync delivers an event, which queues a request when the watch selects it.*)
(***************************************************************************)
EXTENDS Naturals, FiniteSets

CONSTANTS
    NMaps,          \* user sources ConfigMaps, in the order of the loop; the last
                    \* one is serving-runtime-catalog-sources
    HfSecrets,      \* names of HuggingFace secrets, numbers in name order
    EnvVars,        \* environment variables that valid hf-source labels yield
    Passwords,      \* values that the random generator can yield
    Lagging,        \* informers that may be behind when the operator takes a step
    MaxEvents       \* bound: edits of administrators, drifts, API errors, crashes

ASSUME MapsAssumption == NMaps \in Nat \ {0}
ASSUME SecretsAssumption == HfSecrets \subseteq Nat /\ IsFiniteSet(HfSecrets)
ASSUME BoundsAssumption == MaxEvents \in Nat
ASSUME PasswordsAssumption == IsFiniteSet(Passwords) /\ Cardinality(Passwords) > 4

VARIABLES
    world,      \* the objects of the API server
    seen,       \* the informers' copies of them
    pass,       \* the running pass: program counter and locals
    queued,     \* is a request queued?
    events      \* bound used so far

vars == <<world, seen, pass, queued, events>>

Maps == 1 .. NMaps

\* A user sources ConfigMap. mine: it carries the operator's labels (kept when it
\* is deleted: the last event shows it); default: it lists default_catalog;
\* parses: strict parsing accepts it; edits: edits of administrators it holds.
Map == [exists : BOOLEAN, mine : BOOLEAN, default : BOOLEAN, parses : BOOLEAN,
        edits : Nat]
NewMap == [exists |-> TRUE, mine |-> TRUE, default |-> FALSE, parses |-> TRUE, edits |-> 0]
NoMap == [NewMap EXCEPT !.exists = FALSE]

\* The postgres secret. full: name, user and salt are set; ours: labels and owner.
UserPassword == "user password"
Blank == "no password"
Password == Passwords \cup {UserPassword, Blank}
Secret == [exists : BOOLEAN, password : Password, full : BOOLEAN, ours : BOOLEAN]
NoSecret == [exists |-> FALSE, password |-> Blank, full |-> FALSE, ours |-> FALSE]

\* A HuggingFace secret: what its label yields, and its apiKey (0: missing).
HfSecret == [label : EnvVars, key : 0 .. 2] \cup [label : {"unlabelled", "invalid"}, key : {1}]
NoHf == [s \in HfSecrets |-> [label |-> "unlabelled", key |-> 1]]

\* What a pass renders into the catalog Deployment: the served API keys and the
\* hash of their values, the mounted labelled source, the postgres secret's hash.
Served == [EnvVars -> [from : HfSecrets, key : 1 .. 2] \cup {[from |-> 0, key |-> 0]}]
Deployment == [hf : Served, mounted : BOOLEAN, hash : Password]
NoDeployment == [hf |-> [e \in EnvVars |-> [from |-> 0, key |-> 0]],
                 mounted |-> FALSE, hash |-> Blank]

\* Generated objects somebody may change: one that a watch covers, a deny-all
\* NetworkPolicy that got rules, the HTTPRoute, which no watch covers.
Owned == {"service", "denyAll", "httproute"}

World ==
    [maps : [Maps -> Map], source : {"absent", "plain", "labelled"},
     auth : BOOLEAN, secret : Secret, hf : [HfSecrets -> HfSecret],
     dep : Deployment, pg : Password, binding : BOOLEAN, drift : SUBSET Owned]

\* auth, dep: what this pass discovered and renders; i and latch: the ConfigMap of
\* the loop and noDefaultSource; map and secret: the copies that were read.
Pass ==
    [pc : {"idle", "secret", "secretput", "secretget", "secretnew", "map", "mapput", "dep",
           "binding", "pg", "rest"},
     auth : BOOLEAN, dep : Deployment, i : Maps, latch : BOOLEAN, map : Map,
     secret : Secret, changed : BOOLEAN]

Idle == [pc |-> "idle", auth |-> FALSE, dep |-> NoDeployment, i |-> 1, latch |-> FALSE,
         map |-> NoMap, secret |-> NoSecret, changed |-> FALSE]

-----------------------------------------------------------------------------
(***************************************************************************)
(* Discovery                                                                *)
(***************************************************************************)
\* discoverHFSecrets: secrets come in name order; a label that does not match, or
\* no apiKey, is skipped; the first secret that yields a variable serves it.
Claims(s, e) == world.hf[s].label = e /\ world.hf[s].key # 0

ServedHf ==
    [e \in EnvVars |->
       LET claims == {s \in HfSecrets : Claims(s, e)}
           first == CHOOSE s \in claims : \A t \in claims : s <= t
       IN  IF claims = {} THEN [from |-> 0, key |-> 0]
           ELSE [from |-> first, key |-> world.hf[first].key]]

\* discoverLabeledSources: is the labelled ConfigMap mounted?
Mounted == seen.source = "labelled"

\* fetchAuthConfig: does the Auth CR name admin groups?
AdminGroups == seen.auth

\* ensureCatalogResources up to the parameters of the templates.
Begin ==
    /\ pass.pc = "idle"
    /\ queued
    /\ queued' = FALSE
    /\ pass' = [Idle EXCEPT !.pc = "secret", !.auth = AdminGroups,
                            !.dep = [hf |-> ServedHf, mounted |-> Mounted, hash |-> Blank]]
    /\ UNCHANGED <<world, seen, events>>

\* An error of the API server or a conflict: the pass ends and is retried. A crash
\* ends it too, and the restarted operator queues every Catalog.
GiveUp == pass' = Idle /\ queued' = TRUE

Fails ==
    /\ pass.pc # "idle"
    /\ events < MaxEvents
    /\ events' = events + 1
    /\ GiveUp
    /\ UNCHANGED <<world, seen>>

\* ResourceManager.CreateOrUpdate and CreateOrUpdateNetworkPolicy: compare the
\* cached copy with the desired object; the write carries the cached resource
\* version, so it fails when the copy is behind.
Ensure(k, desired, next) ==
    \/ /\ seen[k] = desired
       /\ pass' = next
       /\ UNCHANGED <<world, queued>>
    \/ /\ seen[k] # desired
       /\ seen[k] = world[k]
       /\ world' = [world EXCEPT ![k] = desired]
       /\ pass' = [next EXCEPT !.changed = TRUE]
       /\ UNCHANGED queued
    \/ /\ seen[k] # desired
       /\ seen[k] # world[k]
       /\ GiveUp
       /\ UNCHANGED world

-----------------------------------------------------------------------------
(***************************************************************************)
(* createOrUpdatePostgresSecret                                             *)
(***************************************************************************)
ReadSecret ==
    /\ pass.pc = "secret"
    /\ pass' = [pass EXCEPT !.pc = IF world.secret.exists THEN "secretput" ELSE "secretget",
                            !.secret = world.secret]
    /\ UNCHANGED <<world, seen, queued, events>>

\* No secret was found. createOrUpdate reads it again and takes the resource version
\* of what is there by now.
ReadSecretAgain ==
    /\ pass.pc = "secretget"
    /\ pass' = [pass EXCEPT !.pc = "secretnew", !.secret = world.secret]
    /\ UNCHANGED <<world, seen, queued, events>>

Fresh == CHOOSE p \in Passwords :
           p \notin {world.secret.password, world.dep.hash, world.pg, pass.secret.password}

\* Only what is missing is filled in.
Filled(s) == [exists |-> TRUE, full |-> TRUE, ours |-> TRUE,
              password |-> IF s.password = Blank THEN Fresh ELSE s.password]

\* A secret that was found is completed, one that was not is generated as a whole.
SecretToPut == IF pass.pc = "secretnew" THEN Filled(NoSecret) ELSE Filled(pass.secret)

\* Bug: the secret is written without the resource version that was read.
SecretUnchecked == TRUE

\* The Update carries the resource version of the copy that was read last; a Create
\* fails when there is a secret.
SecretIsCurrent == world.secret = pass.secret

WriteSecret ==
    /\ pass.pc \in {"secretput", "secretnew"}
    /\ LET put == SecretToPut
           next == [pass EXCEPT !.pc = "map", !.dep.hash = put.password]
       IN \/ /\ put = pass.secret
             /\ pass' = next
             /\ UNCHANGED <<world, queued>>
          \/ /\ put # pass.secret
             /\ SecretIsCurrent
             /\ world' = [world EXCEPT !.secret = put]
             /\ pass' = [next EXCEPT !.changed = TRUE]
             /\ UNCHANGED queued
          \/ /\ put # pass.secret
             /\ ~SecretIsCurrent
             /\ GiveUp
             /\ UNCHANGED world
    /\ UNCHANGED <<seen, events>>

-----------------------------------------------------------------------------
(***************************************************************************)
(* manageUserSourcesConfigmap                                               *)
(***************************************************************************)
\* Bug: the loop runs past the last ConfigMap.
NextMapPastTheEnd(p) ==
    IF p.i > NMaps THEN [p EXCEPT !.pc = "dep"] ELSE [p EXCEPT !.pc = "map", !.i = @ + 1]

NextMap(p) == IF p.i = NMaps THEN [p EXCEPT !.pc = "dep"] ELSE [p EXCEPT !.pc = "map", !.i = @ + 1]

\* CreateIfNotExists of an absent ConfigMap.
CreateMap ==
    /\ pass.pc = "map"
    /\ ~seen.maps[pass.i].exists
    /\ IF world.maps[pass.i].exists
         THEN GiveUp /\ UNCHANGED world
         ELSE /\ world' = [world EXCEPT !.maps[pass.i] = NewMap]
              /\ pass' = NextMap([pass EXCEPT !.changed = TRUE])
              /\ UNCHANGED queued
    /\ UNCHANGED <<seen, events>>

\* removeDefaultSource: strict parsing may fail, which leaves the latch as it is; a
\* ConfigMap without the default source sets it.
ReadMap ==
    /\ pass.pc = "map"
    /\ seen.maps[pass.i].exists
    /\ LET m == seen.maps[pass.i]
       IN  pass' = IF ~pass.latch /\ m.parses /\ m.default
                     THEN [pass EXCEPT !.pc = "mapput", !.map = [m EXCEPT !.default = FALSE]]
                     ELSE NextMap([pass EXCEPT !.latch = @ \/ m.parses])
    /\ UNCHANGED <<world, seen, queued, events>>

\* createOrUpdate of the stripped copy. It reads the object again and takes the
\* resource version from there, not from the object that was stripped.
WriteMap ==
    /\ pass.pc = "mapput"
    /\ LET now == seen.maps[pass.i]
           next == NextMap([pass EXCEPT !.latch = TRUE])
       IN \/ /\ now = pass.map
             /\ pass' = next
             /\ UNCHANGED <<world, queued>>
          \/ /\ now # pass.map
             /\ now.exists /\ now = world.maps[pass.i]
             /\ world' = [world EXCEPT !.maps[pass.i] = pass.map]
             /\ pass' = [next EXCEPT !.changed = TRUE]
             /\ UNCHANGED queued
          \/ /\ now # pass.map
             /\ ~(now.exists /\ now = world.maps[pass.i])
             /\ GiveUp
             /\ UNCHANGED world
    /\ UNCHANGED <<seen, events>>

-----------------------------------------------------------------------------
(***************************************************************************)
(* The generated objects                                                    *)
(***************************************************************************)
ApplyDeployment ==
    /\ pass.pc = "dep"
    /\ Ensure("dep", pass.dep, [pass EXCEPT !.pc = "binding"])
    /\ UNCHANGED <<seen, events>>

\* Bug: the RoleBinding is not deleted when the groups are gone.
AdminRoleBindingKept ==
    /\ pass.pc = "binding"
    /\ Ensure("binding", pass.auth \/ seen.binding, [pass EXCEPT !.pc = "pg"])
    /\ UNCHANGED <<seen, events>>

\* createOrUpdateAdminRoleBinding: without groups the RoleBinding is deleted.
ApplyAdminRoleBinding ==
    /\ pass.pc = "binding"
    /\ Ensure("binding", pass.auth, [pass EXCEPT !.pc = "pg"])
    /\ UNCHANGED <<seen, events>>

ApplyPostgres ==
    /\ pass.pc = "pg"
    /\ Ensure("pg", pass.dep.hash, [pass EXCEPT !.pc = "rest"])
    /\ UNCHANGED <<seen, events>>

\* Bug: NetworkPolicies go through CreateOrUpdate alone.
RepairedByPatch(drift) == drift \cap {"denyAll"}

\* The drift that a pass finds and undoes. An empty rule list is not serialized, so
\* the three-way patch alone would miss rules added to a deny-all policy.
Repaired(drift) == {}

\* Services, roles, routes, policies and the proxy's configuration. A pass that
\* changed anything asks for another one.
ApplyRest ==
    /\ pass.pc = "rest"
    /\ \/ /\ Repaired(seen.drift) = seen.drift
          /\ queued' = (queued \/ pass.changed)
          /\ UNCHANGED world
       \/ /\ Repaired(seen.drift) # seen.drift
          /\ world' = IF seen.drift = world.drift
                        THEN [world EXCEPT !.drift = Repaired(@)] ELSE world
          /\ queued' = TRUE
    /\ pass' = Idle
    /\ UNCHANGED <<seen, events>>

\* The other informers have delivered every event.
Informed == \A k \in DOMAIN seen : seen[k] # world[k] => k \in Lagging

Reconcile ==
    /\ Informed
    /\ \/ Begin \/ ReadSecret \/ ReadSecretAgain \/ WriteSecret
       \/ CreateMap \/ ReadMap \/ WriteMap
       \/ ApplyDeployment \/ ApplyAdminRoleBinding \/ ApplyPostgres \/ ApplyRest

-----------------------------------------------------------------------------
(***************************************************************************)
(* Watches                                                                  *)
(***************************************************************************)
\* SetupWithManager: the ConfigMap watch selects the operator's labels, the source
\* label (of the new object, or of the deleted one) and one ConfigMap by name; the
\* watch of HuggingFace secrets has a cache that holds labelled secrets only.
SelectsMap(i) == world.maps[i].mine \/ i = NMaps

\* Bug: the postgres secret is not watched.
WakesWithoutSecret(k) ==
    CASE k = "maps" -> \E i \in Maps : world.maps[i] # seen.maps[i] /\ SelectsMap(i)
      [] k = "source" -> world.source \in {"labelled", "absent"}
      [] k = "secret" -> FALSE
      [] OTHER -> TRUE

Wakes(k) ==
    CASE k = "maps" -> \E i \in Maps : world.maps[i] # seen.maps[i] /\ SelectsMap(i)
      [] k = "source" -> world.source \in {"labelled", "absent"}
      [] k = "secret" -> world.secret.ours \/ seen.secret.ours
      [] k = "hf" -> \E s \in HfSecrets : /\ world.hf[s] # seen.hf[s]
                                          /\ \/ world.hf[s].label # "unlabelled"
                                             \/ seen.hf[s].label # "unlabelled"
      [] k = "drift" -> seen.drift \ {"httproute"} # world.drift \ {"httproute"}
      [] OTHER -> TRUE

Sync(k) ==
    /\ seen[k] # world[k]
    /\ seen' = [seen EXCEPT ![k] = world[k]]
    /\ queued' = (queued \/ Wakes(k))
    /\ UNCHANGED <<world, pass, events>>

-----------------------------------------------------------------------------
(***************************************************************************)
(* Administrators                                                           *)
(***************************************************************************)
Event ==
    /\ events < MaxEvents
    /\ events' = events + 1
    /\ UNCHANGED <<seen, pass, queued>>

\* A new edit, or a ConfigMap created without the operator's labels.
EditMap(i) ==
    /\ Event
    /\ \E default, parses \in BOOLEAN :
         /\ default => parses
         /\ LET m == world.maps[i]
            IN  world' = [world EXCEPT !.maps[i] =
                            [exists |-> TRUE, mine |-> m.exists /\ m.mine, default |-> default,
                             parses |-> parses, edits |-> m.edits + 1]]

DeleteMap(i) ==
    /\ Event
    /\ world.maps[i].exists
    /\ world' = [world EXCEPT !.maps[i] = [NoMap EXCEPT !.mine = world.maps[i].mine]]

\* A secret of the administrator's own, with neither salt nor owner.
UserSecret == [exists |-> TRUE, password |-> UserPassword, full |-> FALSE, ours |-> FALSE]

EditSecret ==
    /\ Event
    /\ world.secret.exists
    /\ \E s \in {NoSecret, [world.secret EXCEPT !.password = Blank],
                 [world.secret EXCEPT !.password = UserPassword]} :
         world' = [world EXCEPT !.secret = s]

CreateSecret ==
    /\ Event
    /\ ~world.secret.exists
    /\ world' = [world EXCEPT !.secret = UserSecret]

EditHf(s) ==
    /\ Event
    /\ \E h \in HfSecret : h # world.hf[s] /\ world' = [world EXCEPT !.hf[s] = h]

\* A ConfigMap that lost its label is not deleted here: that event is not selected.
EditSource ==
    /\ Event
    /\ \E new \in {"absent", "plain", "labelled"} :
         /\ new # world.source
         /\ {new, world.source} # {"absent", "plain"}
         /\ world' = [world EXCEPT !.source = new]

EditAuth == Event /\ world' = [world EXCEPT !.auth = ~@]

Drift(o) == Event /\ o \notin world.drift /\ world' = [world EXCEPT !.drift = @ \cup {o}]

Administrators ==
    \/ \E i \in Maps : EditMap(i) \/ DeleteMap(i)
    \/ \E s \in HfSecrets : EditHf(s)
    \/ EditSecret \/ CreateSecret \/ EditSource \/ EditAuth
    \/ \E o \in Owned : Drift(o)

-----------------------------------------------------------------------------
\* A cluster without the catalog, or one that an older release left behind: the
\* first ConfigMap still lists the default source, the last one is the
\* administrator's, the secret has neither salt nor owner.
NewCluster == [maps |-> [i \in Maps |-> NoMap], source |-> "absent", auth |-> FALSE,
           secret |-> NoSecret, hf |-> NoHf, dep |-> NoDeployment, pg |-> Blank,
           binding |-> FALSE, drift |-> {}]

Upgraded == [NewCluster EXCEPT
               !.maps = [i \in Maps |-> [NewMap EXCEPT !.default = i = 1, !.mine = i # NMaps]],
               !.secret = UserSecret]

Init ==
    /\ world \in {NewCluster, Upgraded}
    /\ seen = world
    /\ pass = Idle
    /\ queued = TRUE
    /\ events = 0

Next == Reconcile \/ Fails \/ Administrators \/ \E k \in DOMAIN seen : Sync(k)

Spec == Init /\ [][Next]_vars

\* The work queue serves requests and retries failed ones; informers catch up.
FairSpec == Spec /\ WF_vars(Reconcile) /\ \A k \in DOMAIN NewCluster : WF_vars(Sync(k))

-----------------------------------------------------------------------------
(***************************************************************************)
(* Properties                                                               *)
(***************************************************************************)
\* Every variable holds a value of the kind the code gives it: the loop over the
\* ConfigMaps stays in its list, and a password to generate is always found.
TypeOK ==
    /\ world \in World /\ seen \in World /\ pass \in Pass
    /\ queued \in BOOLEAN
    /\ events \in 0 .. MaxEvents

\* The operator never replaces a database password that it generated, nor one that an
\* administrator stored while the secret was being reconciled, with one exception: the
\* password of a secret created since createOrUpdatePostgresSecret found none.
PasswordIsKept ==
    [][world.secret.password # Blank /\ world'.secret.password # world.secret.password
         => \/ world'.secret.password \in {Blank, UserPassword}
            \/ pass.pc = "secretnew" /\ world.secret.password = UserPassword]_vars

\* What administrators add to a user sources ConfigMap is never overwritten.
UserEditsSurvive ==
    [][\A i \in Maps : world.maps[i].exists /\ world'.maps[i].exists
                       => world'.maps[i].edits >= world.maps[i].edits]_vars

\* The catalog Deployment follows the API keys and the labelled source, and both
\* Deployments follow the database password, in whatever order edits, events,
\* failed passes and outdated caches come.
DeploymentFollows ==
    []<>(/\ world.dep.hf = ServedHf
         /\ world.source = "labelled" => world.dep.mounted
         /\ world.source = "absent" => ~world.dep.mounted
         /\ world.dep.hash = world.secret.password
         /\ world.pg = world.secret.password)

\* The admin RoleBinding exists exactly while the Auth CR names admin groups.
AdminsFollow == []<>(world.binding = world.auth)

\* A user sources ConfigMap that is watched returns after it was deleted, the first
\* one is stripped of the default source, and generated objects are repaired.
ObjectsReturn ==
    []<>(/\ \A i \in Maps : world.maps[i].exists \/ ~SelectsMap(i)
         /\ ~(world.maps[1].default /\ world.maps[1].parses /\ SelectsMap(1))
         /\ world.drift \subseteq {"httproute"})
=============================================================================
