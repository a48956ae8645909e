-------------------------- MODULE CatalogSourcesProofs --------------------------
(***************************************************************************)
(* Theorems about CatalogSources, for any number of ConfigMaps, secrets,    *)
(* environment variables and edits, and any set of lagging informers.       *)
(***************************************************************************)
EXTENDS CatalogSources, FiniteSetTheorems, WellFoundedInduction, TLAPS

-----------------------------------------------------------------------------
(***************************************************************************)
(* The choices the operator makes exist                                     *)
(***************************************************************************)
LEMMA Least ==
    ASSUME NEW S, S \subseteq Nat, S # {}
    PROVE  \E s \in S : \A t \in S : s <= t
  <1> DEFINE R == OpToRel(<, Nat)
  <1>1. IsWellFoundedOn(R, Nat)
    BY NatLessThanWellFounded
  <1>2. \A x \in Nat, y \in Nat : y < x => <<y, x>> \in R
    BY DEF OpToRel
  <1> HIDE DEF R
  <1>3. PICK s \in S : \A y \in S : ~ (<<y, s>> \in R)
    BY <1>1, WFMin
  <1>4. ASSUME NEW t \in S PROVE s <= t
    <2>1. ~ (t < s)
      BY <1>2, <1>3, Zenon
    <2> QED
      BY <2>1
  <1> QED
    BY <1>4

\* Of five passwords one is not among any four.
LEMMA FreshExists == Fresh \in Passwords
  <1> DEFINE a == world.secret.password
             b == world.dep.hash
             c == world.pg
             d == pass.secret.password
             A == {a}
             B == A \cup {b}
             C == B \cup {c}
             D == C \cup {d}
  <1>1. IsFiniteSet(A) /\ Cardinality(A) = 1
    BY FS_Singleton
  <1>2. IsFiniteSet(B) /\ Cardinality(B) <= 2
    <2> HIDE DEF A
    <2> QED
      BY <1>1, FS_AddElement
  <1>3. IsFiniteSet(C) /\ Cardinality(C) <= 3
    <2> HIDE DEF B
    <2>1. Cardinality(B) \in Nat
      BY <1>2, FS_CardinalityType
    <2> QED
      BY <1>2, <2>1, FS_AddElement
  <1>4. IsFiniteSet(D) /\ Cardinality(D) <= 4
    <2> HIDE DEF C
    <2>1. Cardinality(C) \in Nat
      BY <1>3, FS_CardinalityType
    <2> QED
      BY <1>3, <2>1, FS_AddElement
  <1>5. \E p \in Passwords : p \notin D
    <2> HIDE DEF D
    <2> SUFFICES ASSUME Passwords \subseteq D PROVE FALSE
      OBVIOUS
    <2>1. Cardinality(Passwords) <= Cardinality(D)
      BY <1>4, FS_Subset
    <2>2. Cardinality(Passwords) \in Nat /\ Cardinality(D) \in Nat
      BY <1>4, PasswordsAssumption, FS_CardinalityType
    <2> QED
      BY <1>4, <2>1, <2>2, PasswordsAssumption
  <1>6. \E p \in Passwords : p \notin {a, b, c, d}
    BY <1>5
  <1> QED
    BY <1>6 DEF Fresh

LEMMA ServedType ==
    ASSUME world \in World
    PROVE  ServedHf \in Served
  <1> SUFFICES ASSUME NEW e \in EnvVars
               PROVE  \/ ServedHf[e] \in [from : HfSecrets, key : 1 .. 2]
                      \/ ServedHf[e] = [from |-> 0, key |-> 0]
    BY DEF ServedHf, Served
  <1> DEFINE claims == {s \in HfSecrets : Claims(s, e)}
             first == CHOOSE s \in claims : \A t \in claims : s <= t
  <1>1. CASE claims = {}
    BY <1>1 DEF ServedHf
  <1>2. CASE claims # {}
    <2>1. first \in claims
      <3>1. claims \subseteq Nat
        BY SecretsAssumption
      <3> HIDE DEF claims
      <3>2. \E s \in claims : \A t \in claims : s <= t
        BY <1>2, <3>1, Least
      <3> QED
        BY <3>2
    <2>2. first \in HfSecrets /\ world.hf[first].key # 0
      BY <2>1 DEF Claims
    <2>3. world.hf[first] \in HfSecret
      BY <2>2 DEF World
    <2>4. world.hf[first].key \in 1 .. 2
      BY <2>2, <2>3 DEF HfSecret
    <2>5. ServedHf[e] = [from |-> first, key |-> world.hf[first].key]
      BY <1>2 DEF ServedHf
    <2> HIDE DEF first
    <2> QED
      BY <2>2, <2>4, <2>5
  <1> QED
    BY <1>1, <1>2

-----------------------------------------------------------------------------
(***************************************************************************)
(* Types                                                                    *)
(***************************************************************************)
LEMMA Values ==
    /\ NewMap \in Map /\ NoMap \in Map
    /\ NoSecret \in Secret /\ UserSecret \in Secret
    /\ NoDeployment \in Deployment
    /\ Idle \in Pass
  <1>1. NewMap \in Map /\ NoMap \in Map
    BY DEF NewMap, NoMap, Map
  <1>2. NoSecret \in Secret /\ UserSecret \in Secret
    BY DEF NoSecret, UserSecret, Secret, Password
  <1>3. NoDeployment \in Deployment
    <2>1. [e \in EnvVars |-> [from |-> 0, key |-> 0]] \in Served
      BY DEF Served
    <2> QED
      BY <2>1 DEF NoDeployment, Deployment, Password
  <1>4. Idle \in Pass
    BY <1>1, <1>2, <1>3, MapsAssumption DEF Idle, Pass, Maps
  <1> QED
    BY <1>1, <1>2, <1>3, <1>4

LEMMA FilledType ==
    ASSUME NEW s \in Secret
    PROVE  Filled(s) \in Secret
  BY FreshExists DEF Filled, Secret, Password

LEMMA NextMapType ==
    ASSUME NEW p \in Pass
    PROVE  NextMap(p) \in Pass
  <1>1. p.i \in Maps /\ p.i \in Nat /\ NMaps \in Nat
    BY MapsAssumption DEF Pass, Maps
  <1>2. CASE p.i = NMaps
    BY <1>2 DEF NextMap, Pass
  <1>3. CASE p.i # NMaps
    <2>1. p.i + 1 \in Maps
      BY <1>1, <1>3 DEF Maps
    <2> QED
      BY <1>3, <2>1 DEF NextMap, Pass
  <1> QED
    BY <1>2, <1>3

\* A step that ensures one generated object.
LEMMA EnsureType ==
    ASSUME TypeOK, NEW k \in {"dep", "binding", "pg"}, NEW desired, NEW next \in Pass,
           [world EXCEPT ![k] = desired] \in World, Ensure(k, desired, next)
    PROVE  world' \in World /\ pass' \in Pass /\ queued' \in BOOLEAN
  <1>1. [next EXCEPT !.changed = TRUE] \in Pass
    BY DEF Pass
  <1> QED
    BY <1>1, Values DEF TypeOK, Ensure, GiveUp

LEMMA MapsWrite ==
    ASSUME NEW w \in World, NEW i \in Maps, NEW m \in Map
    PROVE  [w EXCEPT !.maps[i] = m] \in World
  <1>1. w.maps \in [Maps -> Map]
    BY DEF World
  <1>2. [w.maps EXCEPT ![i] = m] \in [Maps -> Map]
    BY <1>1
  <1>3. [w EXCEPT !.maps[i] = m] = [w EXCEPT !.maps = [w.maps EXCEPT ![i] = m]]
    OBVIOUS
  <1> QED
    BY <1>2, <1>3 DEF World

LEMMA ReconcileStep ==
    ASSUME TypeOK, Reconcile
    PROVE  TypeOK'
  <1>0. /\ world \in World /\ seen \in World /\ pass \in Pass /\ queued \in BOOLEAN
        /\ events \in 0 .. MaxEvents
    BY DEF TypeOK
  <1>1. ASSUME world' \in World, pass' \in Pass, queued' \in BOOLEAN, UNCHANGED <<seen, events>>
        PROVE  TypeOK'
    BY <1>0, <1>1 DEF TypeOK
  <1>2. /\ world.maps[pass.i] \in Map /\ seen.maps[pass.i] \in Map /\ pass.i \in Maps
        /\ pass.map \in Map /\ pass.secret \in Secret /\ pass.dep \in Deployment
        /\ pass.auth \in BOOLEAN /\ world.secret \in Secret
    BY <1>0 DEF World, Pass
  <1>3. CASE Begin
    <2>1. ServedHf \in Served /\ AdminGroups \in BOOLEAN /\ Mounted \in BOOLEAN
      BY <1>0, ServedType DEF AdminGroups, Mounted, World
    <2>2. [hf |-> ServedHf, mounted |-> Mounted, hash |-> Blank] \in Deployment
      BY <2>1 DEF Deployment, Password
    <2>3. pass' \in Pass /\ UNCHANGED <<world, seen, events>> /\ queued' = FALSE
      BY <1>3, <2>1, <2>2, Values DEF Begin, Pass
    <2> QED
      BY <1>0, <1>1, <2>3
  <1>4. CASE ReadSecret
    <2>1. pass' \in Pass /\ UNCHANGED <<world, seen, queued, events>>
      BY <1>0, <1>2, <1>4 DEF ReadSecret, Pass
    <2> QED
      BY <1>0, <1>1, <2>1
  <1>14. CASE ReadSecretAgain
    <2>1. pass' \in Pass /\ UNCHANGED <<world, seen, queued, events>>
      BY <1>0, <1>2, <1>14 DEF ReadSecretAgain, Pass
    <2> QED
      BY <1>0, <1>1, <2>1
  <1>5. CASE WriteSecret
    <2> DEFINE put == SecretToPut
               next == [pass EXCEPT !.pc = "map", !.dep.hash = put.password]
    <2>1. put \in Secret /\ put.password \in Password
      BY <1>2, FilledType, Values DEF SecretToPut, Secret
    <2> HIDE DEF put
    <2>2. [pass.dep EXCEPT !.hash = put.password] \in Deployment
      BY <1>2, <2>1 DEF Deployment
    <2>3. next = [pass EXCEPT !.pc = "map", !.dep = [pass.dep EXCEPT !.hash = put.password]]
      BY <1>0 DEF Pass
    <2>4. next \in Pass
      BY <1>0, <2>2, <2>3 DEF Pass
    <2>5. [next EXCEPT !.changed = TRUE] \in Pass
      <3> HIDE DEF next
      <3> QED
        BY <2>4 DEF Pass
    <2>6. [world EXCEPT !.secret = put] \in World
      BY <1>0, <2>1 DEF World
    <2>7. /\ world' = world \/ world' = [world EXCEPT !.secret = put]
          /\ pass' \in {next, [next EXCEPT !.changed = TRUE], Idle}
          /\ queued' = queued \/ queued' = TRUE
          /\ UNCHANGED <<seen, events>>
      BY <1>5 DEF WriteSecret, GiveUp, put
    <2> HIDE DEF next
    <2> QED
      BY <1>0, <1>1, <2>4, <2>5, <2>6, <2>7, Values
  <1>6. CASE CreateMap
    <2>1. [world EXCEPT !.maps[pass.i] = NewMap] \in World
      BY <1>0, <1>2, MapsWrite, Values
    <2>2. NextMap([pass EXCEPT !.changed = TRUE]) \in Pass
      <3>1. [pass EXCEPT !.changed = TRUE] \in Pass
        BY <1>0 DEF Pass
      <3> QED
        BY <3>1, NextMapType
    <2>3. /\ world' = world \/ world' = [world EXCEPT !.maps[pass.i] = NewMap]
          /\ pass' \in {NextMap([pass EXCEPT !.changed = TRUE]), Idle}
          /\ queued' = queued \/ queued' = TRUE
          /\ UNCHANGED <<seen, events>>
      BY <1>6 DEF CreateMap, GiveUp
    <2> QED
      BY <1>0, <1>1, <2>1, <2>2, <2>3, Values
  <1>7. CASE ReadMap
    <2> DEFINE m == seen.maps[pass.i]
    <2>1. [m EXCEPT !.default = FALSE] \in Map /\ (pass.latch \/ m.parses) \in BOOLEAN
      BY <1>2 DEF Map
    <2>2. [pass EXCEPT !.pc = "mapput", !.map = [m EXCEPT !.default = FALSE]] \in Pass
      BY <1>0, <2>1 DEF Pass
    <2>3. NextMap([pass EXCEPT !.latch = pass.latch \/ m.parses]) \in Pass
      <3>1. [pass EXCEPT !.latch = pass.latch \/ m.parses] \in Pass
        BY <1>0, <2>1 DEF Pass
      <3> QED
        BY <3>1, NextMapType
    <2>4. /\ \/ pass' = [pass EXCEPT !.pc = "mapput", !.map = [m EXCEPT !.default = FALSE]]
             \/ pass' = NextMap([pass EXCEPT !.latch = pass.latch \/ m.parses])
          /\ UNCHANGED <<world, seen, queued, events>>
      BY <1>7 DEF ReadMap
    <2> QED
      BY <1>0, <1>1, <2>2, <2>3, <2>4
  <1>8. CASE WriteMap
    <2> DEFINE next == NextMap([pass EXCEPT !.latch = TRUE])
    <2>1. next \in Pass
      <3>1. [pass EXCEPT !.latch = TRUE] \in Pass
        BY <1>0 DEF Pass
      <3> QED
        BY <3>1, NextMapType
    <2>2. [next EXCEPT !.changed = TRUE] \in Pass
      <3> HIDE DEF next
      <3> QED
        BY <2>1 DEF Pass
    <2>3. [world EXCEPT !.maps[pass.i] = pass.map] \in World
      BY <1>0, <1>2, MapsWrite
    <2>4. /\ world' = world \/ world' = [world EXCEPT !.maps[pass.i] = pass.map]
          /\ pass' \in {next, [next EXCEPT !.changed = TRUE], Idle}
          /\ queued' = queued \/ queued' = TRUE
          /\ UNCHANGED <<seen, events>>
      BY <1>8 DEF WriteMap, GiveUp
    <2> HIDE DEF next
    <2> QED
      BY <1>0, <1>1, <2>1, <2>2, <2>3, <2>4, Values
  <1>9. \A pc \in {"binding", "pg", "rest"} : [pass EXCEPT !.pc = pc] \in Pass
    BY <1>0 DEF Pass
  <1>10. CASE ApplyDeployment
    <2>1. [world EXCEPT !["dep"] = pass.dep] \in World
      BY <1>0, <1>2 DEF World
    <2>2. Ensure("dep", pass.dep, [pass EXCEPT !.pc = "binding"]) /\ UNCHANGED <<seen, events>>
      BY <1>10 DEF ApplyDeployment
    <2> QED
      BY <1>1, <1>9, <2>1, <2>2, EnsureType
  <1>11. CASE ApplyAdminRoleBinding
    <2>1. [world EXCEPT !["binding"] = pass.auth] \in World
      BY <1>0, <1>2 DEF World
    <2>2. Ensure("binding", pass.auth, [pass EXCEPT !.pc = "pg"]) /\ UNCHANGED <<seen, events>>
      BY <1>11 DEF ApplyAdminRoleBinding
    <2> QED
      BY <1>1, <1>9, <2>1, <2>2, EnsureType
  <1>12. CASE ApplyPostgres
    <2>1. pass.dep.hash \in Password
      BY <1>2 DEF Deployment
    <2>2. [world EXCEPT !["pg"] = pass.dep.hash] \in World
      BY <1>0, <2>1 DEF World
    <2>3. Ensure("pg", pass.dep.hash, [pass EXCEPT !.pc = "rest"]) /\ UNCHANGED <<seen, events>>
      BY <1>12 DEF ApplyPostgres
    <2> QED
      BY <1>1, <1>9, <2>2, <2>3, EnsureType
  <1>13. CASE ApplyRest
    <2>1. [world EXCEPT !.drift = {}] \in World
      BY <1>0 DEF World
    <2>2. /\ world' = world \/ world' = [world EXCEPT !.drift = {}]
          /\ pass' = Idle /\ UNCHANGED <<seen, events>>
      BY <1>13 DEF ApplyRest, Repaired
    <2>3. queued' \in BOOLEAN
      BY <1>0, <1>13 DEF ApplyRest
    <2> QED
      BY <1>0, <1>1, <2>1, <2>2, <2>3, Values
  <1> QED
    BY <1>3, <1>4, <1>5, <1>6, <1>7, <1>8, <1>10, <1>11, <1>12, <1>13,
       <1>14 DEF Reconcile

LEMMA AdministratorsStep ==
    ASSUME TypeOK, Administrators
    PROVE  TypeOK'
  <1>0. /\ world \in World /\ seen \in World /\ pass \in Pass /\ queued \in BOOLEAN
        /\ events \in 0 .. MaxEvents /\ MaxEvents \in Nat
    BY BoundsAssumption DEF TypeOK
  <1>1. ASSUME Event, world' \in World PROVE TypeOK'
    BY <1>0, <1>1 DEF TypeOK, Event
  <1>2. ASSUME NEW i \in Maps, EditMap(i) \/ DeleteMap(i) PROVE TypeOK'
    <2>1. PICK m \in Map : world' = [world EXCEPT !.maps[i] = m]
      <3>0. world.maps[i] \in Map /\ world.maps[i].edits + 1 \in Nat
        BY <1>0 DEF World, Map
      <3>1. CASE EditMap(i)
        <4>1. PICK default \in BOOLEAN, parses \in BOOLEAN :
                world' = [world EXCEPT !.maps[i] =
                            [exists |-> TRUE, mine |-> world.maps[i].exists /\ world.maps[i].mine,
                             default |-> default, parses |-> parses,
                             edits |-> world.maps[i].edits + 1]]
          BY <3>1 DEF EditMap
        <4>2. [exists |-> TRUE, mine |-> world.maps[i].exists /\ world.maps[i].mine,
               default |-> default, parses |-> parses,
               edits |-> world.maps[i].edits + 1] \in Map
          BY <3>0 DEF Map
        <4> QED
          BY <4>1, <4>2
      <3>2. CASE DeleteMap(i)
        <4>1. [NoMap EXCEPT !.mine = world.maps[i].mine] \in Map
          BY <3>0, Values DEF Map
        <4> QED
          BY <3>2, <4>1 DEF DeleteMap
      <3> QED
        BY <1>2, <3>1, <3>2
    <2>2. world' \in World
      BY <1>0, <2>1, MapsWrite
    <2> QED
      BY <1>1, <1>2, <2>2 DEF EditMap, DeleteMap
  <1>3. ASSUME NEW s \in HfSecrets, EditHf(s) PROVE TypeOK'
    <2>1. PICK h \in HfSecret : world' = [world EXCEPT !.hf[s] = h]
      BY <1>3 DEF EditHf
    <2>2. [world.hf EXCEPT ![s] = h] \in [HfSecrets -> HfSecret]
      BY <1>0 DEF World
    <2>3. world' = [world EXCEPT !.hf = [world.hf EXCEPT ![s] = h]]
      BY <2>1
    <2>4. world' \in World
      BY <1>0, <2>2, <2>3 DEF World
    <2> QED
      BY <1>1, <1>3, <2>4 DEF EditHf
  <1>4. CASE EditSecret
    <2>1. PICK s \in {NoSecret, [world.secret EXCEPT !.password = Blank],
                      [world.secret EXCEPT !.password = UserPassword]} :
            world' = [world EXCEPT !.secret = s]
      BY <1>4 DEF EditSecret
    <2>2. world.secret \in Secret
      BY <1>0 DEF World
    <2>3. s \in Secret
      BY <2>2, Values DEF Secret, Password
    <2>4. world' \in World
      BY <1>0, <2>1, <2>3 DEF World
    <2> QED
      BY <1>1, <1>4, <2>4 DEF EditSecret
  <1>8. CASE CreateSecret
    <2>1. UserSecret \in Secret
      BY Values
    <2>2. world' \in World
      BY <1>0, <1>8, <2>1 DEF CreateSecret, World
    <2> QED
      BY <1>1, <1>8, <2>2 DEF CreateSecret
  <1>5. CASE EditSource
    <2>1. world' \in World
      BY <1>0, <1>5 DEF EditSource, World
    <2> QED
      BY <1>1, <1>5, <2>1 DEF EditSource
  <1>6. CASE EditAuth
    <2>1. (~world.auth) \in BOOLEAN
      OBVIOUS
    <2>2. world' = [world EXCEPT !.auth = ~world.auth]
      BY <1>6 DEF EditAuth
    <2>3. world' \in World
      BY <1>0, <2>1, <2>2 DEF World
    <2> QED
      BY <1>1, <1>6, <2>3 DEF EditAuth
  <1>7. ASSUME NEW o \in Owned, Drift(o) PROVE TypeOK'
    <2>1. world' \in World
      BY <1>0, <1>7 DEF Drift, World
    <2> QED
      BY <1>1, <1>7, <2>1 DEF Drift
  <1> QED
    BY <1>2, <1>3, <1>4, <1>5, <1>6, <1>7, <1>8 DEF Administrators

LEMMA SyncStep ==
    ASSUME TypeOK, NEW k \in DOMAIN seen, Sync(k)
    PROVE  TypeOK'
  <1>1. k \in {"maps", "source", "auth", "secret", "hf", "dep", "pg", "binding", "drift"}
    BY DEF TypeOK, World
  <1>2. seen' = [seen EXCEPT ![k] = world[k]] /\ UNCHANGED <<world, pass, events>>
    BY DEF Sync
  <1>3. seen' \in World
    BY <1>1, <1>2 DEF TypeOK, World
  <1>4. queued' \in BOOLEAN
    BY DEF Sync, TypeOK
  <1> QED
    BY <1>2, <1>3, <1>4 DEF TypeOK

LEMMA InitType == Init => TypeOK
  <1> SUFFICES ASSUME Init PROVE TypeOK
    OBVIOUS
  <1>1. NewCluster \in World
    <2>1. [i \in Maps |-> NoMap] \in [Maps -> Map]
      BY Values
    <2>2. NoHf \in [HfSecrets -> HfSecret]
      BY DEF NoHf, HfSecret
    <2> QED
      BY <2>1, <2>2, Values DEF NewCluster, World, Password
  <1>2. Upgraded \in World
    <2>1. [i \in Maps |-> [NewMap EXCEPT !.default = i = 1, !.mine = i # NMaps]] \in [Maps -> Map]
      <3> SUFFICES ASSUME NEW i \in Maps
                   PROVE  [NewMap EXCEPT !.default = i = 1, !.mine = i # NMaps] \in Map
        OBVIOUS
      <3>1. (i = 1) \in BOOLEAN /\ (i # NMaps) \in BOOLEAN
        OBVIOUS
      <3> QED
        BY <3>1, Values DEF Map
    <2> QED
      BY <1>1, <2>1, Values DEF Upgraded, World
  <1> QED
    BY <1>1, <1>2, Values, BoundsAssumption DEF Init, TypeOK

LEMMA NextType == TypeOK /\ [Next]_vars => TypeOK'
  <1> SUFFICES ASSUME TypeOK, [Next]_vars PROVE TypeOK'
    OBVIOUS
  <1>1. CASE Fails
    BY <1>1, Values, BoundsAssumption DEF Fails, GiveUp, TypeOK
  <1>2. CASE UNCHANGED vars
    BY <1>2 DEF vars, TypeOK
  <1> QED
    BY <1>1, <1>2, ReconcileStep, AdministratorsStep, SyncStep DEF Next

\* Every pass, edit and event keeps the objects, their cached copies and the pass
\* within what the code can produce.
THEOREM TypeCorrect == Spec => []TypeOK
  BY InitType, NextType, PTL DEF Spec

-----------------------------------------------------------------------------
(***************************************************************************)
(* The database password                                                    *)
(***************************************************************************)
\* A pass that found no secret meets none but an administrator's.
OnlyTheirs ==
    /\ ~world.secret.exists => world.secret.password = Blank
    /\ pass.pc \in {"secretget", "secretnew"} => world.secret.password \in {Blank, UserPassword}

Kept ==
    world.secret.password # Blank /\ world'.secret.password # world.secret.password
        => \/ world'.secret.password \in {Blank, UserPassword}
           \/ pass.pc = "secretnew" /\ world.secret.password = UserPassword

\* The steps that leave the secret alone.
LEMMA SecretUntouched ==
    ASSUME TypeOK, Next, ~WriteSecret, ~EditSecret, ~CreateSecret
    PROVE  world'.secret = world.secret
  <1>0. world \in World
    BY DEF TypeOK
  <1>1. ASSUME Reconcile PROVE world'.secret = world.secret
    <2>1. CASE Begin \/ ReadSecret \/ ReadSecretAgain \/ ReadMap
      BY <2>1 DEF Begin, ReadSecret, ReadSecretAgain, ReadMap
    <2>2. CASE CreateMap \/ WriteMap
      <3>1. world' = world \/ \E i, m : world' = [world EXCEPT !.maps[i] = m]
        <4>1. CASE CreateMap
          BY <4>1 DEF CreateMap
        <4>2. CASE WriteMap
          <5>1. world' = world \/ world' = [world EXCEPT !.maps[pass.i] = pass.map]
            BY <4>2 DEF WriteMap
          <5> QED
            BY <5>1
        <4> QED
          BY <2>2, <4>1, <4>2
      <3> QED
        BY <1>0, <3>1 DEF World
    <2>3. CASE ApplyDeployment \/ ApplyAdminRoleBinding \/ ApplyPostgres
      <3>1. world' = world \/ \E k \in {"dep", "binding", "pg"} :
                                \E x : world' = [world EXCEPT ![k] = x]
        BY <2>3 DEF ApplyDeployment, ApplyAdminRoleBinding, ApplyPostgres, Ensure
      <3> QED
        BY <1>0, <3>1 DEF World
    <2>4. CASE ApplyRest
      <3>1. world' = world \/ \E x : world' = [world EXCEPT !.drift = x]
        BY <2>4 DEF ApplyRest
      <3> QED
        BY <1>0, <3>1 DEF World
    <2> QED
      BY <1>1, <2>1, <2>2, <2>3, <2>4 DEF Reconcile
  <1>2. ASSUME Administrators PROVE world'.secret = world.secret
    <2>1. \/ \E i, m : world' = [world EXCEPT !.maps[i] = m]
          \/ \E s, h : world' = [world EXCEPT !.hf[s] = h]
          \/ \E x : world' = [world EXCEPT !.source = x]
          \/ \E x : world' = [world EXCEPT !.auth = x]
          \/ \E x : world' = [world EXCEPT !.drift = x]
      BY <1>2 DEF Administrators, EditMap, DeleteMap, EditHf, EditSource, EditAuth, Drift
    <2> QED
      BY <1>0, <2>1 DEF World
  <1>3. CASE Fails \/ \E k \in DOMAIN seen : Sync(k)
    BY <1>3 DEF Fails, Sync
  <1> QED
    BY <1>1, <1>2, <1>3 DEF Next

\* What an administrator makes of the secret.
LEMMA AdminSecret ==
    ASSUME TypeOK, EditSecret \/ CreateSecret
    PROVE  /\ world'.secret.password \in {Blank, UserPassword}
           /\ ~world'.secret.exists => world'.secret.password = Blank
           /\ pass' = pass
  <1>0. world \in World /\ world.secret \in Secret
    BY DEF TypeOK, World
  <1>1. PICK s \in {NoSecret, [world.secret EXCEPT !.password = Blank],
                    [world.secret EXCEPT !.password = UserPassword], UserSecret} :
          world' = [world EXCEPT !.secret = s] /\ (s.exists \/ s = NoSecret)
    BY <1>0 DEF EditSecret, CreateSecret, UserSecret, Secret
  <1>2. s.password \in {Blank, UserPassword} /\ (~s.exists => s.password = Blank)
    BY <1>0, <1>1 DEF Secret, NoSecret, UserSecret
  <1>3. world'.secret = s
    BY <1>0, <1>1 DEF World
  <1> QED
    BY <1>2, <1>3 DEF EditSecret, CreateSecret, Event

\* What the operator makes of it.
LEMMA PutSecret ==
    ASSUME TypeOK, WriteSecret
    PROVE  /\ \/ world' = world
              \/ /\ world.secret = pass.secret /\ world'.secret = SecretToPut
                 /\ world'.secret.exists
           /\ pass'.pc \in {"idle", "map"}
  <1>0. world \in World /\ pass \in Pass
    BY DEF TypeOK
  <1>1. \/ world' = world
        \/ world.secret = pass.secret /\ world' = [world EXCEPT !.secret = SecretToPut]
    BY DEF WriteSecret, SecretIsCurrent
  <1>2. SecretToPut.exists
    BY DEF SecretToPut, Filled
  <1>3. pass'.pc \in {"idle", "map"}
    <2> DEFINE next == [pass EXCEPT !.pc = "map", !.dep.hash = SecretToPut.password]
    <2>1. pass' \in {next, [next EXCEPT !.changed = TRUE], Idle}
      BY DEF WriteSecret, GiveUp
    <2>2. next.pc = "map" /\ "pc" \in DOMAIN next
      BY <1>0 DEF Pass
    <2> HIDE DEF next
    <2> QED
      BY <2>1, <2>2 DEF Idle
  <1> QED
    BY <1>0, <1>1, <1>2, <1>3 DEF World

\* Where a pass comes to.
LEMMA PassMoves ==
    ASSUME TypeOK, Next, pass'.pc \in {"secretget", "secretnew"}
    PROVE  \/ pass' = pass
           \/ ReadSecret /\ ~world.secret.exists
           \/ ReadSecretAgain
  <1>0. pass \in Pass /\ Idle.pc = "idle"
    BY DEF TypeOK, Idle
  <1>1. CASE Reconcile
    <2>1. CASE Begin
      BY <2>1 DEF Begin, Idle
    <2>2. CASE ReadSecret
      BY <1>0, <2>2 DEF ReadSecret, Pass
    <2>3. CASE WriteSecret
      BY <2>3, PutSecret
    <2>4. \A p \in Pass : NextMap(p).pc \in {"dep", "map"}
      BY DEF NextMap, Pass
    <2>5. CASE CreateMap
      <3>1. [pass EXCEPT !.changed = TRUE] \in Pass
        BY <1>0 DEF Pass
      <3> QED
        BY <1>0, <2>4, <2>5, <3>1 DEF CreateMap, GiveUp
    <2>6. CASE ReadMap
      <3>1. PICK m \in Map : \/ pass' = NextMap([pass EXCEPT !.latch = pass.latch \/ m.parses])
                             \/ \E x : pass' = [pass EXCEPT !.pc = "mapput", !.map = x]
        BY <1>0, <2>6 DEF ReadMap, TypeOK, World, Pass
      <3>2. (pass.latch \/ m.parses) \in BOOLEAN
        OBVIOUS
      <3>3. [pass EXCEPT !.latch = pass.latch \/ m.parses] \in Pass
        BY <1>0, <3>2 DEF Pass
      <3> QED
        BY <1>0, <2>4, <3>1, <3>3 DEF Pass
    <2>7. CASE WriteMap
      <3>1. [pass EXCEPT !.latch = TRUE] \in Pass
        BY <1>0 DEF Pass
      <3> DEFINE next == NextMap([pass EXCEPT !.latch = TRUE])
      <3>2. next.pc \in {"dep", "map"} /\ next \in Pass
        BY <2>4, <3>1, NextMapType
      <3>3. pass' \in {next, [next EXCEPT !.changed = TRUE], Idle}
        BY <2>7 DEF WriteMap, GiveUp
      <3> HIDE DEF next
      <3> QED
        BY <1>0, <3>2, <3>3 DEF Pass
    <2>8. CASE ApplyDeployment \/ ApplyAdminRoleBinding \/ ApplyPostgres \/ ApplyRest
      <3>1. PICK pc \in {"binding", "pg", "rest"} :
              pass' \in {[pass EXCEPT !.pc = pc], Idle,
                         [[pass EXCEPT !.pc = pc] EXCEPT !.changed = TRUE]}
        BY <2>8 DEF ApplyDeployment, ApplyAdminRoleBinding, ApplyPostgres, ApplyRest,
           Ensure, GiveUp
      <3> QED
        BY <1>0, <3>1 DEF Pass
    <2> QED
      BY <1>1, <2>1, <2>2, <2>3, <2>5, <2>6, <2>7, <2>8 DEF Reconcile
  <1>2. CASE Administrators
    BY <1>2 DEF Administrators, EditMap, DeleteMap, EditHf, EditSecret, CreateSecret, EditSource,
       EditAuth, Drift, Event
  <1>3. CASE Fails \/ \E k \in DOMAIN seen : Sync(k)
    BY <1>0, <1>3 DEF Fails, GiveUp, Sync
  <1> QED
    BY <1>1, <1>2, <1>3 DEF Next

LEMMA OnlyTheirsStep ==
    ASSUME TypeOK, OnlyTheirs, Next
    PROVE  OnlyTheirs'
  <1>1. CASE EditSecret \/ CreateSecret
    BY <1>1, AdminSecret DEF OnlyTheirs
  <1>2. CASE WriteSecret
    BY <1>2, PutSecret DEF OnlyTheirs
  <1>3. CASE ~EditSecret /\ ~CreateSecret /\ ~WriteSecret
    <2>1. world'.secret = world.secret
      BY <1>3, SecretUntouched
    <2>2. ReadSecretAgain => pass.pc = "secretget"
      BY DEF ReadSecretAgain
    <2> QED
      BY <2>1, <2>2, PassMoves DEF OnlyTheirs
  <1> QED
    BY <1>1, <1>2, <1>3

\* A password that is set is only replaced by an administrator, whatever the operator
\* had read of the secret before, but for the password of a secret that an
\* administrator created since createOrUpdatePostgresSecret found none.
THEOREM PasswordsAreKept == Spec => PasswordIsKept
  <1>1. Init => OnlyTheirs
    <2>1. /\ NewCluster.secret = NoSecret /\ Upgraded.secret = UserSecret
          /\ NoSecret.password = Blank /\ UserSecret.exists /\ Idle.pc = "idle"
      BY DEF NewCluster, Upgraded, NoSecret, UserSecret, Idle
    <2> QED
      BY <2>1 DEF Init, OnlyTheirs
  <1>2. TypeOK /\ OnlyTheirs /\ [Next]_vars => OnlyTheirs'
    <2>1. CASE UNCHANGED vars
      BY <2>1 DEF vars, OnlyTheirs
    <2> QED
      BY <2>1, OnlyTheirsStep
  <1>3. TypeOK /\ OnlyTheirs /\ [Next]_vars => [Kept]_vars
    <2> SUFFICES ASSUME TypeOK, OnlyTheirs, Next PROVE Kept
      OBVIOUS
    <2>1. CASE WriteSecret
      <3>1. CASE pass.pc = "secretnew"
        BY <3>1 DEF OnlyTheirs, Kept
      <3>2. CASE pass.pc # "secretnew"
        <4>1. SecretToPut = Filled(pass.secret)
          BY <3>2 DEF SecretToPut
        <4>2. pass.secret.password # Blank => Filled(pass.secret).password = pass.secret.password
          BY DEF Filled
        <4> QED
          BY <2>1, <4>1, <4>2, PutSecret DEF Kept
      <3> QED
        BY <3>1, <3>2
    <2>2. CASE EditSecret \/ CreateSecret
      BY <2>2, AdminSecret DEF Kept
    <2>3. CASE ~WriteSecret /\ ~EditSecret /\ ~CreateSecret
      BY <2>3, SecretUntouched DEF Kept
    <2> QED
      BY <2>1, <2>2, <2>3
  <1>4. Spec => [][Kept]_vars
    BY <1>1, <1>2, <1>3, TypeCorrect, PTL DEF Spec
  <1>5. PasswordIsKept <=> [][Kept]_vars
    BY DEF PasswordIsKept, Kept
  <1> QED
    BY <1>4, <1>5
=============================================================================
