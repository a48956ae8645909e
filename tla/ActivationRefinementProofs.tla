---------------------- MODULE ActivationRefinementProofs ----------------------
(***************************************************************************)
(* The readiness that a Catalog reports is earned, and the activation       *)
(* protocol implements the life cycle of an attempt, for every value of the *)
(* constants of CatalogActivation.                                          *)
(***************************************************************************)
EXTENDS CatalogActivationProofs

-----------------------------------------------------------------------------
(***************************************************************************)
(* What the operators do to the record and to readiness                     *)
(***************************************************************************)
\* A ready pod more does not make a record less genuine.
LEMMA GenuineGrows ==
    ASSUME NEW act, NEW p, NEW q, p \subseteq q, Genuine(act, p)
    PROVE  Genuine(act, q)
  BY DEF Genuine

\* Nor does it take a claim back.
LEMMA ClaimsGrow ==
    ASSUME NEW st, NEW sp, NEW p, NEW q, p \subseteq q, Claims(st, sp, p)
    PROVE  Claims(st, sp, q)
  BY DEF Claims

\* The reducer's Ready condition, and the conditions it leaves alone.
LEMMA ReduceReady ==
    ASSUME NEW st \in Status, NEW gen \in Nat
    PROVE  /\ Reduce(st, gen).conds.ready.gen = gen
           /\ Reduce(st, gen).conds.ready.st = "True" =>
                 IsReady(st.conds, st.act, gen)
           /\ Reduce(st, gen).conds.resolved = st.conds.resolved
  <1> DEFINE d == Cond(Truth(IsDegraded(st.conds, gen)), "", gen)
             r == Cond(Truth(IsReady(st.conds, st.act, gen)), "", gen)
  <1>1. r.gen = gen /\ (r.st = "True" => IsReady(st.conds, st.act, gen))
    BY DEF Cond, Truth
  <1> HIDE DEF d, r
  <1>2. ReduceConds(st.conds, st.act, gen)
          = [st.conds EXCEPT !.degraded = d, !.ready = r]
    BY DEF ReduceConds, d, r
  <1>3. st.conds \in Conds
    BY DEF Status
  <1>4. /\ ReduceConds(st.conds, st.act, gen).ready = r
        /\ ReduceConds(st.conds, st.act, gen).resolved = st.conds.resolved
    BY <1>2, <1>3 DEF Conds
  <1>5. Reduce(st, gen).conds = ReduceConds(st.conds, st.act, gen)
    BY DEF Reduce, Status
  <1> QED
    BY <1>1, <1>4, <1>5

\* A reduced status claims readiness of what it answers.
LEMMA ReduceClaims ==
    ASSUME NEW st \in Status, NEW gen \in Nat, NEW sp \in CatalogSpec, NEW proven,
           gen <= sp.gen, Genuine(st.act, proven), Answers(st, gen, sp)
    PROVE  /\ Claims(Reduce(st, gen), sp, proven)
           /\ Answers(Reduce(st, gen), gen, sp)
  <1>1. Reduce(st, gen).act = st.act /\ Reduce(st, gen).images = st.images
    BY ReduceType
  <1>2. IsReady(st.conds, st.act, gen) =>
           st.conds.resolved.st = "True" /\ st.act.state = "Succeeded"
    BY DEF IsReady, SelectionStatus
  <1> QED
    BY <1>1, <1>2, ReduceReady DEF Claims, Answers, Genuine

\* Without an available workload nothing is claimed.
LEMMA DownClaims ==
    ASSUME NEW st \in Status, NEW gen \in Nat, NEW sp, NEW proven,
           gen <= sp.gen, st.conds.workload.st # "True"
    PROVE  Claims(Reduce(st, gen), sp, proven)
  BY ReduceReady DEF Claims, IsReady

\* handleReconcileErrors claims nothing, and leaves the resolution alone.
LEMMA UnavailableClaims ==
    ASSUME NEW st \in Status, NEW gen \in Nat, NEW sp, NEW proven, gen <= sp.gen
    PROVE  /\ Unavailable(st, gen) \in Status
           /\ Unavailable(st, gen).act = st.act
           /\ Unavailable(st, gen).images = st.images
           /\ Claims(Unavailable(st, gen), sp, proven)
  <1> DEFINE c == Cond("False", "ResourcesUnavailable", gen)
             x == [st EXCEPT !.conds.workload = c]
  <1>1. c \in Condition /\ c.st = "False"
    BY CondType DEF TruthValue, Reason, Cond
  <1> HIDE DEF c
  <1>2. [st.conds EXCEPT !.workload = c] \in Conds
    BY <1>1 DEF Status, Conds
  <1>3. x = [st EXCEPT !.conds = [st.conds EXCEPT !.workload = c]]
    BY DEF Status
  <1>4. /\ x \in Status /\ x.act = st.act /\ x.images = st.images
        /\ x.conds.workload = c
    BY <1>2, <1>3 DEF Status, Conds
  <1>5. Unavailable(st, gen) = Reduce(x, gen)
    BY DEF Unavailable, c
  <1> HIDE DEF x
  <1> QED
    BY <1>1, <1>4, <1>5, ReduceType, DownClaims

\* resolveCatalogDataImages reports the pair it resolved.
LEMMA ResolvedImages ==
    ASSUME NEW st \in Status, NEW out \in [Targets -> OutcomeType], NEW gen \in Nat
    PROVE  Resolved(st, out, gen).conds.resolved.st = "True" =>
              Resolved(st, out, gen).images = [t \in Targets |-> out[t].image]
  <1> DEFINE agg == Aggregate([t \in Targets |-> out[t].res], gen)
             images == IF agg.st = "True" THEN [t \in Targets |-> out[t].image]
                       ELSE NoImages
             conds == [st.conds EXCEPT
                         !.res      = [t \in Targets |-> out[t].res],
                         !.health   = [t \in Targets |-> out[t].health],
                         !.resolved = agg,
                         !.blocked  = Cond(Truth(Faulty(out)), "", gen),
                         !.workload = IF images # st.images
                                      THEN Cond("False", "ImagesUpdating", gen)
                                      ELSE @]
             x == [st EXCEPT !.images = images, !.conds = conds]
  <1>1. /\ [t \in Targets |-> out[t].res] \in [Targets -> Condition]
        /\ [t \in Targets |-> out[t].health] \in [Targets -> Condition]
        /\ [t \in Targets |-> out[t].image] \in [Targets -> Image]
    BY DEF OutcomeType
  <1>2. agg \in Condition
    BY <1>1, AggregateType
  <1>3. images \in [Targets -> Image \cup {"none"}]
    BY <1>1 DEF NoImages
  <1>4. /\ Cond(Truth(Faulty(out)), "", gen) \in Condition
        /\ Cond("False", "ImagesUpdating", gen) \in Condition
    <2>1. Truth(Faulty(out)) \in TruthValue /\ "" \in Reason
      BY DEF Truth, TruthValue, Reason
    <2>2. "False" \in TruthValue /\ "ImagesUpdating" \in Reason
      BY DEF TruthValue, Reason
    <2> QED
      BY <2>1, <2>2, CondType
  <1>5. agg.st = "True" => images = [t \in Targets |-> out[t].image]
    OBVIOUS
  <1> HIDE DEF agg, images
  <1>6. conds \in Conds /\ conds.resolved = agg
    BY <1>1, <1>2, <1>4 DEF Status, Conds
  <1> HIDE DEF conds
  <1>7. x \in Status /\ x.images = images /\ x.conds = conds
    BY <1>3, <1>6 DEF Status
  <1>8. Resolved(st, out, gen) = Reduce(x, gen)
    BY DEF Resolved, conds, images, agg, x
  <1> HIDE DEF x
  <1> QED
    BY <1>5, <1>6, <1>7, <1>8, ReduceType, ReduceReady

\* prepareActivation: the record is of the request, genuine if the one read was;
\* the success record is carried over and a new attempt has none of its own.
LEMMA PreparedRecord ==
    ASSUME NEW st \in Status, NEW req \in Request, NEW gen \in Nat,
           NEW id \in Nat \ {0}, NEW proven, Genuine(st.act, proven)
    PROVE  LET new == Prepared(st, req, gen, id)
           IN  /\ new.images = st.images
               /\ new.conds.resolved = st.conds.resolved
               /\ new.act.attempt # 0
               /\ new.act.request = req /\ new.act.images = req.images
               /\ new.act.last = st.act.last
               /\ \/ new.act.attempt = st.act.attempt
                  \/ /\ new.act.attempt = id
                     /\ new.act.state \in {"Pending", "Failed"}
               /\ Genuine(new.act, proven)
  <1> DEFINE act == IF IsNewRequest(st.act, req)
                    THEN NewAttempt(st.act, req, id) ELSE st.act
             unr == Unresolved(act, st.conds.resolved)
  <1>1. st.act \in Activation
    BY DEF Status
  <1>2. NewAttempt(st.act, req, id) \in Activation
    BY <1>1, DeadlineAssumption DEF NewAttempt, Activation, Request, Never
  <1>3. act \in Activation
    BY <1>1, <1>2
  <1>4. /\ act.attempt # 0 /\ act.request = req /\ act.images = req.images
        /\ act.last = st.act.last
        /\ Genuine(act, proven)
        /\ \/ act.attempt = st.act.attempt
           \/ act.attempt = id /\ act.state = "Pending"
    <2>1. CASE IsNewRequest(st.act, req)
      <3>1. act = [attempt |-> id, request |-> req, images |-> req.images,
                   state |-> "Pending", reason |-> "ActivationPending",
                   started |-> 0, recovered |-> Never, last |-> st.act.last]
        BY <2>1 DEF NewAttempt
      <3> HIDE DEF act
      <3> QED
        BY <3>1 DEF Genuine
    <2>2. CASE ~IsNewRequest(st.act, req)
      <3>1. act = st.act /\ st.act.attempt # 0 /\ st.act.request = req
        BY <2>2 DEF IsNewRequest
      <3> HIDE DEF act
      <3> QED
        BY <3>1 DEF Genuine
    <2> QED
      BY <2>1, <2>2
  <1> HIDE DEF act
  <1>5. /\ unr \in Activation
        /\ unr.attempt = act.attempt /\ unr.request = act.request
        /\ unr.images = act.images /\ unr.last = act.last
        /\ unr.state = act.state \/ unr.state \in {"Pending", "Failed"}
    BY <1>3 DEF Unresolved, Activation
  <1> HIDE DEF unr
  <1>6. Genuine(unr, proven)
    BY <1>4, <1>5 DEF Genuine
  <1> DEFINE x == [st EXCEPT !.act = unr]
  <1>7. /\ x \in Status /\ x.act = unr
        /\ x.images = st.images /\ x.conds = st.conds
    BY <1>5 DEF Status
  <1>8. Prepared(st, req, gen, id) = Reduce(x, gen)
    BY DEF Prepared, act, unr
  <1> HIDE DEF x
  <1>9. /\ Prepared(st, req, gen, id).act = unr
        /\ Prepared(st, req, gen, id).images = st.images
        /\ Prepared(st, req, gen, id).conds.resolved = st.conds.resolved
    <2>1. Reduce(x, gen).act = x.act /\ Reduce(x, gen).images = x.images
      BY <1>7, ReduceType
    <2>2. Reduce(x, gen).conds.resolved = x.conds.resolved
      BY <1>7, ReduceReady
    <2> QED
      BY <1>7, <1>8, <2>1, <2>2, Zenon
  <1> QED
    BY <1>4, <1>5, <1>6, <1>9

\* prepareActivation, in a pass that read the specification rd: it answers the
\* user's specification, as far as rd is current.
LEMMA PreparedClaims ==
    ASSUME NEW st \in Status, NEW req \in Request, NEW rd \in CatalogSpec,
           NEW id \in Nat \ {0}, NEW proven, NEW sp \in CatalogSpec,
           Genuine(st.act, proven),
           st.conds.resolved.st = "True" => st.images = req.images,
           req.sel = rd.sel,
           rd.gen <= sp.gen, rd.gen = sp.gen => rd.sel = sp.sel
    PROVE  LET new == Prepared(st, req, rd.gen, id)
           IN  Claims(new, sp, proven) /\ Answers(new, rd.gen, sp)
  <1> DEFINE new == Prepared(st, req, rd.gen, id)
             act == IF IsNewRequest(st.act, req)
                    THEN NewAttempt(st.act, req, id) ELSE st.act
             x   == [st EXCEPT !.act = Unresolved(act, st.conds.resolved)]
  <1>1. rd.gen \in Nat
    BY DEF CatalogSpec
  <1>2. new = Reduce(x, rd.gen)
    BY DEF Prepared
  <1>3. /\ new.images = st.images /\ new.conds.resolved = st.conds.resolved
        /\ new.act.attempt # 0
        /\ new.act.request = req /\ new.act.images = req.images
        /\ Genuine(new.act, proven)
    <2> DEFINE g == rd.gen
    <2> HIDE DEF g
    <2>1. g \in Nat /\ new = Prepared(st, req, g, id)
      BY <1>1 DEF g
    <2> HIDE DEF new
    <2> QED
      BY <2>1, PreparedRecord
  <1>4. x \in Status
    <2>1. st.act \in Activation
      BY DEF Status
    <2>2. NewAttempt(st.act, req, id) \in Activation
      BY <2>1, DeadlineAssumption DEF NewAttempt, Activation, Request, Never
    <2>3. act \in Activation
      BY <2>1, <2>2
    <2> HIDE DEF act
    <2>4. Unresolved(act, st.conds.resolved) \in Activation
      BY <2>3 DEF Unresolved, Activation
    <2> QED
      BY <2>4 DEF Status
  <1> HIDE DEF new, x, act
  <1>5. new.act = x.act /\ new.images = x.images
        /\ new.conds.resolved = x.conds.resolved
    BY <1>1, <1>2, <1>4, ReduceType, ReduceReady
  <1>6. Answers(x, rd.gen, sp) /\ Genuine(x.act, proven)
    BY <1>3, <1>5 DEF Answers
  <1> QED
    BY <1>1, <1>2, <1>4, <1>6, ReduceClaims DEF new

\* observeActivation: a success is recorded only when the workload is ready, and
\* never of a failed attempt.
LEMMA ObservedActivationRecord ==
    ASSUME NEW act \in Activation, NEW failure, NEW ready \in BOOLEAN, NEW proven,
           Genuine(act, proven), act.attempt # 0, ready => act.attempt \in proven
    PROVE  LET new == ObservedActivation(act, failure, ready)
           IN  /\ new.request = act.request /\ new.images = act.images
               /\ Genuine(new, proven)
               /\ new.last # act.last =>
                     /\ new.last = new.attempt
                     /\ new.attempt \in proven
                     /\ act.state # "Failed"
  <1>1. /\ Retrying(act).attempt = act.attempt /\ Retrying(act).request = act.request
        /\ Retrying(act).images = act.images /\ Retrying(act).last = act.last
        /\ Retrying(act).state \in {"Failed", "Pending"}
    BY DEF Retrying, Activation
  <1>2. /\ Succeeded(act).attempt = act.attempt
        /\ Succeeded(act).request = act.request
        /\ Succeeded(act).images = act.images /\ Succeeded(act).last = act.attempt
        /\ Succeeded(act).state = "Succeeded"
    BY DEF Succeeded, Activation
  <1>3. ASSUME NEW r
        PROVE  LET x == [act EXCEPT !.state = "Failed", !.reason = r]
               IN  /\ x.attempt = act.attempt /\ x.request = act.request
                   /\ x.images = act.images /\ x.last = act.last
                   /\ x.state = "Failed"
    BY DEF Activation
  <1> DEFINE new == ObservedActivation(act, failure, ready)
  <1>4. \/ new = act
        \/ /\ new.attempt = act.attempt /\ new.request = act.request
           /\ new.images = act.images /\ new.last = act.last
           /\ new.state \in {"Failed", "Pending"}
        \/ act.state # "Failed" /\ ready /\ new = Succeeded(act)
    BY <1>1, <1>3 DEF ObservedActivation
  <1> HIDE DEF new
  <1>5. /\ new.attempt = act.attempt
        /\ new.request = act.request /\ new.images = act.images
        /\ Genuine(new, proven)
        /\ new.last # act.last =>
              /\ new.last = new.attempt
              /\ new.attempt \in proven
              /\ act.state # "Failed"
    BY <1>2, <1>4 DEF Genuine
  <1> QED
    BY <1>5 DEF new

\* updateStatus, on a status that answers the request of the pass.
LEMMA ObservedClaims ==
    ASSUME TypeOK, NEW st \in Status, NEW gen \in Nat, NEW sp \in CatalogSpec,
           Genuine(st.act, ghost.proven), Answers(st, gen, sp), gen <= sp.gen,
           pod.phase = "ready" => pod.attempt \in ghost.proven
    PROVE  LET new == Observed(st, gen)
           IN  /\ new \in Status
               /\ new.images = st.images
               /\ new.act.attempt = st.act.attempt
               /\ new.act.request = st.act.request
               /\ new.act.images = st.act.images
               /\ Genuine(new.act, ghost.proven)
               /\ new.act.last # st.act.last =>
                     /\ new.act.last = new.act.attempt
                     /\ new.act.attempt \in ghost.proven
                     /\ st.act.state # "Failed"
               /\ Claims(new, sp, ghost.proven)
  <1> DEFINE ready == Validated(st.act)
             act   == ObservedActivation(st.act, PodFailure(st.act), ready)
             conds == [st.conds EXCEPT
                    !.actReady  = Cond(Truth(act.state = "Succeeded" /\ ready),
                                       "", gen),
                    !.actFailed = IF act.state # "Pending" \/ @.st = "None"
                                  THEN Cond(Truth(act.state = "Failed"), "", gen)
                                  ELSE @,
                    !.workload  = IF DeploymentAvailable(st.images)
                                  THEN Cond("True", "DeploymentAvailable", gen)
                                  ELSE Cond("False", "DeploymentUnavailable", gen)]
             x == [st EXCEPT !.act = act, !.conds = conds]
  <1>1. ready \in BOOLEAN /\ (ready => st.act.attempt \in ghost.proven)
    BY DEF Validated, PodOf, DeploymentAvailable
  <1>2. st.act \in Activation /\ st.act.attempt # 0
    BY DEF Status, Answers
  <1> HIDE DEF ready
  <1>3. /\ act \in Activation
        /\ act.attempt = st.act.attempt
        /\ act.request = st.act.request /\ act.images = st.act.images
        /\ Genuine(act, ghost.proven)
        /\ act.last # st.act.last =>
              /\ act.last = act.attempt
              /\ act.attempt \in ghost.proven
              /\ st.act.state # "Failed"
    BY <1>1, <1>2, ObservedActivationType, ObservedActivationRecord
  <1> HIDE DEF act
  <1>4. ASSUME NEW b PROVE Truth(b) \in TruthValue
    BY DEF Truth, TruthValue
  <1>5. /\ {"", "DeploymentAvailable", "DeploymentUnavailable"} \subseteq Reason
        /\ {"True", "False"} \subseteq TruthValue
    BY DEF Reason, TruthValue
  <1>6. /\ Cond(Truth(act.state = "Succeeded" /\ ready), "", gen) \in Condition
        /\ Cond(Truth(act.state = "Failed"), "", gen) \in Condition
        /\ Cond("True", "DeploymentAvailable", gen) \in Condition
        /\ Cond("False", "DeploymentUnavailable", gen) \in Condition
    BY <1>4, <1>5, CondType
  <1>7. conds \in Conds /\ conds.resolved = st.conds.resolved
    BY <1>6 DEF Status, Conds
  <1> HIDE DEF conds
  <1>8. x \in Status /\ x.act = act /\ x.conds = conds /\ x.images = st.images
    BY <1>3, <1>7 DEF Status
  <1>9. Observed(st, gen) = Reduce(x, gen)
    BY DEF Observed, conds, act, ready, x
  <1> HIDE DEF x
  <1>10. Answers(x, gen, sp)
    BY <1>3, <1>7, <1>8 DEF Answers
  <1> QED
    BY <1>3, <1>8, <1>9, <1>10, ReduceType, ReduceClaims

-----------------------------------------------------------------------------
(***************************************************************************)
(* What a merge patch writes                                                *)
(***************************************************************************)
\* Merging into the very copy the patch was computed from gives the new copy.
LEMMA MergeOwn ==
    ASSUME NEW b \in Status, NEW a \in Status
    PROVE  Merge(b, b, a) = a
  <1>1. MergeActivation(b.act, b.act, a.act) = a.act
    <2>1. KeepEach(b.act.images, b.act.images, a.act.images) = a.act.images
      BY DEF KeepEach, Keep, Status, Activation
    <2>2. a.act \in Activation
      BY DEF Status
    <2> QED
      BY <2>1, <2>2 DEF MergeActivation, Keep, Activation
  <1>2. KeepEach(b.images, b.images, a.images) = a.images
    BY DEF KeepEach, Keep, Status
  <1> QED
    BY <1>1, <1>2 DEF Merge, Keep, Status

\* The second patch of a pass, merged into the first: what identifies the attempt
\* and the success record are those in memory; the state and the conditions may
\* stay those of the first patch.
LEMMA MergePublished ==
    ASSUME NEW cur \in Status, NEW b \in Status, NEW a \in Status, NEW proven,
           Published(cur, b, a, proven)
    PROVE  LET new == Merge(cur, b, a)
           IN  /\ new.images = cur.images
               /\ new.act.attempt = cur.act.attempt
               /\ new.act.request = cur.act.request
               /\ new.act.images = cur.act.images
               /\ new.act.last = a.act.last
               /\ new.act.state \in {cur.act.state, a.act.state}
               /\ new.conds \in {cur.conds, a.conds}
  <1> DEFINE act == MergeActivation(cur.act, b.act, a.act)
  <1>1. /\ cur.act \in Activation /\ a.act \in Activation
        /\ cur.images \in [Targets -> Image \cup {"none"}]
    BY DEF Status
  <1>2. KeepEach(cur.images, b.images, a.images) = cur.images
    BY <1>1 DEF KeepEach, Keep, Published
  <1>3. KeepEach(cur.act.images, b.act.images, a.act.images) = cur.act.images
    BY <1>1 DEF KeepEach, Keep, Published, Activation
  <1>4. /\ act.attempt = cur.act.attempt /\ act.request = cur.act.request
        /\ act.images = cur.act.images /\ act.last = a.act.last
        /\ act.state \in {cur.act.state, a.act.state}
    <2>1. CASE a.act = b.act
      BY <2>1 DEF MergeActivation, Published
    <2>2. CASE a.act # b.act /\ b.act.attempt = 0
      BY <2>2 DEF MergeActivation, Published
    <2>3. CASE a.act # b.act /\ b.act.attempt # 0
      BY <1>3, <2>3 DEF MergeActivation, Published, Keep
    <2> QED
      BY <2>1, <2>2, <2>3
  <1> HIDE DEF act
  <1>5. Merge(cur, b, a) =
          [obs |-> Keep(cur.obs, b.obs, a.obs), images |-> cur.images,
           act |-> act, conds |-> Keep(cur.conds, b.conds, a.conds)]
    BY <1>2 DEF Merge, act
  <1> QED
    BY <1>4, <1>5 DEF Keep

-----------------------------------------------------------------------------
(***************************************************************************)
(* Every step keeps the status earned                                       *)
(***************************************************************************)
\* What the life cycle lets happen to the record in one step.
Moves(old, new, proven) ==
    \/ /\ new.attempt = old.attempt
       /\ new.state = old.state /\ new.last = old.last
    \/ /\ new.attempt = old.attempt + 1
       /\ new.state \in {"Pending", "Failed"} /\ new.last = old.last
    \/ /\ new.attempt = old.attempt /\ old.attempt # 0
       /\ old.state # "Failed"
       /\ new.state \in {"Pending", "Succeeded", "Failed"}
       /\ new.last \in {old.last, old.attempt}
       /\ new.state = "Succeeded" => new.last = old.attempt
       /\ new.last # old.last => old.attempt \in proven

\* The numbers that are compared are numbers.
LEMMA NumberType ==
    ASSUME TypeOK
    PROVE  /\ spec \in CatalogSpec /\ spec.gen \in Nat
           /\ cache.spec \in CatalogSpec /\ cache.spec.gen \in Nat
           /\ cache.status \in Status /\ status \in Status
           /\ rec.base \in Status /\ rec.st \in Status /\ rec.gen \in Nat
           /\ status.act.attempt \in Nat /\ rec.st.act.attempt \in Nat
           /\ status.conds.ready.gen \in Nat /\ rec.st.conds.ready.gen \in Nat
           /\ count.attempts \in Nat
  <1>1. /\ spec \in CatalogSpec /\ cache.spec \in CatalogSpec
        /\ cache.status \in Status /\ status \in Status /\ count.attempts \in Nat
    BY DEF TypeOK
  <1>2. rec.base \in Status /\ rec.st \in Status /\ rec.gen \in Nat
    BY RecType
  <1>3. spec.gen \in Nat /\ cache.spec.gen \in Nat
    BY <1>1 DEF CatalogSpec
  <1>4. ASSUME NEW st \in Status
        PROVE  st.act.attempt \in Nat /\ st.conds.ready.gen \in Nat
    BY DEF Status, Activation, Conds, Condition
  <1> QED
    BY <1>1, <1>2, <1>3, <1>4

\* A status patch under the lock moves the record as the life cycle allows and
\* leaves a status that is earned, whichever of its fields the merge takes from
\* the first patch.
LEMMA PatchIsEarned ==
    ASSUME TypeOK, MemoryIsConsistent, StatusIsEarned,
           rec.pc \in {"publish", "record"}, PatchAllowed(rec.base, rec.st)
    PROVE  LET new == Patched(rec.base, rec.st)
           IN  /\ new \in Status
               /\ Genuine(new.act, ghost.proven)
               /\ Claims(new, spec, ghost.proven)
               /\ Moves(status.act, new.act, ghost.proven)
               /\ Persisted(new) = new.act.attempt
               /\ rec.pc = "publish" /\ lock.cat => new = rec.st
  <1> DEFINE new == Patched(rec.base, rec.st)
  <1>1. /\ status \in Status /\ rec.base \in Status /\ rec.st \in Status
        /\ status.act \in Activation /\ rec.st.act \in Activation
        /\ status.act.attempt \in Nat /\ rec.st.act.attempt \in Nat
        /\ new \in Status /\ new.act.attempt \in Nat
    BY NumberType, PatchStep, AttemptType DEF Status
  <1>2. /\ Genuine(status.act, ghost.proven) /\ Genuine(rec.st.act, ghost.proven)
        /\ Claims(status, spec, ghost.proven) /\ Claims(rec.st, spec, ghost.proven)
        /\ 0 \notin ghost.proven /\ status.act.attempt = count.attempts
    BY DEF StatusIsEarned, Ordered
  <1>3. ASSUME Moves(status.act, new.act, ghost.proven)
        PROVE  Persisted(new) = new.act.attempt
    BY <1>1, <1>2, <1>3 DEF Moves, Persisted
  <1>4. CASE rec.st = rec.base
    <2>1. new = status
      BY <1>4 DEF Patched
    <2>2. rec.pc = "publish" /\ lock.cat => status = rec.base
      BY DEF StatusIsEarned, Continues, Writing, Deciding, Proposed
    <2> HIDE DEF new
    <2>3. Moves(status.act, new.act, ghost.proven)
      BY <2>1 DEF Moves
    <2> QED
      BY <1>1, <1>2, <1>3, <1>4, <2>1, <2>2, <2>3 DEF new
  <1>5. CASE rec.st # rec.base
    <2>1. lock.cat /\ new = Merge(status, rec.base, rec.st)
      BY <1>5 DEF PatchAllowed, Patched
    <2>2. /\ \/ Proposed(status, rec.base, rec.st)
             \/ Published(status, rec.base, rec.st, ghost.proven)
          /\ rec.pc = "publish" => Proposed(status, rec.base, rec.st)
      BY <2>1 DEF StatusIsEarned, Continues, Writing, Deciding
    <2>3. /\ status.act.state = "Failed" =>
                \/ rec.st.act.state = "Failed"
                \/ rec.st.act.attempt > status.act.attempt
      BY <2>1 DEF MemoryIsConsistent, FailureIsCarried
    <2>4. /\ status.act.state \in {"None", "Pending", "Succeeded", "Failed"}
          /\ rec.st.act.state \in {"None", "Pending", "Succeeded", "Failed"}
      BY <1>1 DEF Activation
    <2> HIDE DEF new
    <2>5. CASE Proposed(status, rec.base, rec.st)
      <3>1. new = rec.st
        BY <1>1, <2>1, <2>5, MergeOwn DEF Proposed
      <3>2. Moves(status.act, new.act, ghost.proven)
        BY <1>1, <1>2, <2>3, <2>4, <2>5, <3>1 DEF Moves, Proposed, Genuine
      <3> QED
        BY <1>1, <1>2, <1>3, <3>1, <3>2 DEF new
    <2>6. CASE Published(status, rec.base, rec.st, ghost.proven) /\ rec.pc # "publish"
      <3>1. /\ new.images = status.images
            /\ new.act.attempt = status.act.attempt
            /\ new.act.request = status.act.request
            /\ new.act.images = status.act.images
            /\ new.act.last = rec.st.act.last
            /\ new.act.state \in {status.act.state, rec.st.act.state}
            /\ new.conds \in {status.conds, rec.st.conds}
        BY <1>1, <2>1, <2>6, MergePublished
      <3>2. Genuine(new.act, ghost.proven)
        BY <1>2, <2>6, <3>1 DEF Genuine, Published
      <3>3. Claims(new, spec, ghost.proven)
        BY <1>2, <2>6, <3>1 DEF Claims, Published
      <3>4. Moves(status.act, new.act, ghost.proven)
        <4>1. CASE new.act.last = status.act.last /\ new.act.state = status.act.state
          BY <3>1, <4>1 DEF Moves
        <4>2. CASE new.act.last = status.act.last /\ new.act.state # status.act.state
          BY <1>1, <1>2, <2>3, <2>4, <2>6, <3>1, <3>2, <4>2
             DEF Moves, Genuine, Published
        <4>3. CASE new.act.last # status.act.last
          BY <1>1, <1>2, <2>4, <2>6, <3>1, <3>2, <4>3
             DEF Moves, Genuine, Published
        <4> QED
          BY <4>1, <4>2, <4>3
      <3> QED
        BY <1>1, <1>3, <2>6, <3>2, <3>3, <3>4 DEF new
    <2> QED
      BY <2>2, <2>5, <2>6
  <1> QED
    BY <1>4, <1>5

\* An idle reconciler holds nothing.
LEMMA IdleIsEarned ==
    ASSUME NEW sp \in CatalogSpec, NEW proven
    PROVE  /\ Idle.pc = "idle" /\ Idle.gen = 0
           /\ Genuine(Idle.base.act, proven) /\ Genuine(Idle.st.act, proven)
           /\ Claims(Idle.st, sp, proven)
  <1>1. /\ Idle.pc = "idle" /\ Idle.gen = 0
        /\ Idle.base.act = NoActivation /\ Idle.st.act = NoActivation
        /\ Idle.st.conds.ready = NoCond
    BY DEF Idle, NoStatus, NoConds
  <1>2. Genuine(NoActivation, proven)
    BY DEF Genuine, NoActivation, NoRequest
  <1>3. NoCond.gen = 0 /\ NoCond.st = "None" /\ 0 <= sp.gen
    BY DEF NoCond, Cond, CatalogSpec
  <1> QED
    BY <1>1, <1>2, <1>3 DEF Claims

\* Begin: the pass proposes a record that answers the specification it read.
LEMMA BeginEarned ==
    ASSUME TypeOK, MemoryIsConsistent, StatusIsEarned, Begin
    PROVE  StatusIsEarned'
  <1> DEFINE sp == cache.spec
             out(io) == Outcomes(sp, cache.status, io)
             st(io)  == Resolved(cache.status, out(io), sp.gen)
             req(io) == RequestOf(sp, out(io), st(io))
             id      == count.attempts + 1
             new(io) == Prepared(st(io), req(io), sp.gen, id)
  <1>1. PICK io \in IOResults :
           rec' = [pc |-> "publish",
                   mode |-> IF Faulty(out(io)) THEN "fault" ELSE "normal",
                   gen |-> sp.gen, base |-> cache.status, st |-> new(io),
                   err |-> io # AllOK, saw |-> FALSE]
    BY DEF Begin
  <1>2. /\ sp \in CatalogSpec /\ cache.status \in Status /\ spec \in CatalogSpec
        /\ sp.gen \in Nat /\ id \in Nat \ {0}
    BY NumberType
  <1>3. out(io) \in [Targets -> OutcomeType]
    BY <1>2, OutcomesType
  <1>4. st(io) \in Status /\ st(io).act = cache.status.act
    BY <1>2, <1>3, ResolvedType
  <1>5. /\ req(io) \in Request /\ req(io).sel = sp.sel
        /\ req(io).images = [t \in Targets |-> out(io)[t].image]
    BY <1>2, <1>3, <1>4, RequestOfType DEF RequestOf
  <1>6. st(io).conds.resolved.st = "True" => st(io).images = req(io).images
    BY <1>2, <1>3, <1>5, ResolvedImages
  <1>7. Genuine(st(io).act, ghost.proven) /\ Genuine(cache.status.act, ghost.proven)
    BY <1>4 DEF StatusIsEarned
  <1>8. sp.gen <= spec.gen /\ (sp.gen = spec.gen => sp.sel = spec.sel)
    BY DEF StatusIsEarned, Ordered
  <1> HIDE DEF st, out, req, id
  <1>9. /\ Genuine(new(io).act, ghost.proven)
        /\ new(io).act.last = cache.status.act.last
        /\ \/ new(io).act.attempt = cache.status.act.attempt
           \/ /\ new(io).act.attempt = id
              /\ new(io).act.state \in {"Pending", "Failed"}
    <2> DEFINE g == sp.gen
    <2> HIDE DEF g
    <2>1. g \in Nat /\ new(io) = Prepared(st(io), req(io), g, id)
      BY <1>2 DEF g
    <2> HIDE DEF new
    <2> QED
      BY <1>2, <1>4, <1>5, <1>7, <2>1, PreparedRecord
  <1>10. /\ Claims(new(io), spec, ghost.proven)
         /\ Answers(new(io), sp.gen, spec)
    <2> HIDE DEF sp
    <2> QED
      BY <1>2, <1>4, <1>5, <1>6, <1>7, <1>8, PreparedClaims
  <1> HIDE DEF new, sp
  <1>11. /\ rec'.pc = "publish" /\ rec'.gen = sp.gen
         /\ rec'.base = cache.status /\ rec'.st = new(io)
    BY <1>1
  <1>12. /\ UNCHANGED <<spec, status, cache, pod, ghost>>
         /\ lock'.cat = cache.fresh /\ count'.attempts = count.attempts
    BY BeginStep DEF Begin
  <1>13. lock'.cat => Proposed(status, rec'.base, rec'.st)
    BY <1>9, <1>11, <1>12
       DEF MemoryIsConsistent, CacheIsCurrent, Proposed, StatusIsEarned, Ordered, id
  <1> QED
    BY <1>7, <1>8, <1>9, <1>10, <1>11, <1>12, <1>13
       DEF StatusIsEarned, Ordered, Continues, Deciding, Writing

\* A step of the reconciler that writes the earned status new, or none, keeps
\* everything earned if what it holds in memory is.
LEMMA WriteEarned ==
    ASSUME TypeOK, StatusIsEarned, NEW new \in Status, WriteStatus(new),
           Genuine(new.act, ghost.proven), Claims(new, spec, ghost.proven),
           count'.attempts = new.act.attempt,
           UNCHANGED <<spec, pod>>, ghost'.proven = ghost.proven,
           rec'.gen <= spec.gen, Genuine(rec'.base.act, ghost.proven),
           Genuine(rec'.st.act, ghost.proven), Claims(rec'.st, spec, ghost.proven),
           Deciding' => Answers(rec'.st, rec'.gen, spec), Continues'
    PROVE  StatusIsEarned'
  <1>1. status' = new /\ cache'.status \in {cache.status, new}
    BY WriteStatusType
  <1>2. cache'.spec \in {cache.spec, spec}
    <2>1. cache \in [spec : CatalogSpec, status : Status, fresh : BOOLEAN]
      BY DEF TypeOK
    <2> QED
      BY <2>1 DEF WriteStatus, Informed
  <1>3. Ordered'
    BY <1>1, <1>2, NumberType DEF StatusIsEarned, Ordered
  <1>4. /\ Genuine(status'.act, ghost'.proven) /\ Genuine(cache'.status.act, ghost'.proven)
        /\ Genuine(rec'.base.act, ghost'.proven) /\ Genuine(rec'.st.act, ghost'.proven)
    BY <1>1 DEF StatusIsEarned
  <1>5. Claims(status', spec', ghost'.proven) /\ Claims(rec'.st, spec', ghost'.proven)
    BY <1>1
  <1> QED
    BY <1>3, <1>4, <1>5 DEF StatusIsEarned

\* The same for a step that writes no status.
LEMMA QuietEarned ==
    ASSUME TypeOK, StatusIsEarned, UNCHANGED <<spec, status, cache, pod>>,
           count'.attempts = count.attempts, ghost'.proven = ghost.proven,
           rec'.gen <= spec.gen, Genuine(rec'.base.act, ghost.proven),
           Genuine(rec'.st.act, ghost.proven), Claims(rec'.st, spec, ghost.proven),
           Deciding' => Answers(rec'.st, rec'.gen, spec), Continues'
    PROVE  StatusIsEarned'
  <1>1. /\ status \in Status /\ WriteStatus(status)
        /\ Genuine(status.act, ghost.proven) /\ Claims(status, spec, ghost.proven)
        /\ count'.attempts = status.act.attempt
    BY NumberType DEF WriteStatus, StatusIsEarned, Ordered
  <1> QED
    BY <1>1, WriteEarned

\* A step that ends the pass.
LEMMA FinishEarned ==
    ASSUME TypeOK, rec' = Idle
    PROVE  /\ rec'.gen <= spec.gen
           /\ Genuine(rec'.base.act, ghost.proven)
           /\ Genuine(rec'.st.act, ghost.proven)
           /\ Claims(rec'.st, spec, ghost.proven)
           /\ ~Deciding' /\ Continues'
  BY NumberType, IdleIsEarned DEF Deciding, Writing, Continues

\* What the invariant says of the pass, for the steps to carry on.
LEMMA PassIsEarned ==
    ASSUME TypeOK, StatusIsEarned
    PROVE  /\ rec \in Reconciler /\ rec.gen \in Nat /\ rec.gen <= spec.gen
           /\ Genuine(rec.base.act, ghost.proven)
           /\ Genuine(rec.st.act, ghost.proven)
           /\ Claims(rec.st, spec, ghost.proven)
           /\ Deciding => Answers(rec.st, rec.gen, spec)
           /\ Continues
  BY NumberType DEF TypeOK, StatusIsEarned, Ordered

\* BeginFails proposes the record that was read, and claims nothing.
LEMMA BeginFailsEarned ==
    ASSUME TypeOK, MemoryIsConsistent, StatusIsEarned, BeginFails
    PROVE  StatusIsEarned'
  <1> DEFINE sp == cache.spec
             out == Outcomes(sp, cache.status, AllOK)
             st(b) == IF b THEN Resolved(cache.status, out, sp.gen) ELSE cache.status
  <1>1. PICK resolved \in BOOLEAN :
           rec' = [pc |-> "record", mode |-> "error", gen |-> sp.gen,
                   base |-> cache.status, err |-> TRUE, saw |-> FALSE,
                   st |-> Unavailable(st(resolved), sp.gen)]
    BY DEF BeginFails
  <1>2. /\ sp \in CatalogSpec /\ cache.status \in Status /\ spec \in CatalogSpec
        /\ sp.gen \in Nat /\ AllOK \in IOResults
    BY NumberType DEF IOResult, IOResults, AllOK
  <1>3. out \in [Targets -> OutcomeType]
    BY <1>2, OutcomesType
  <1>4. /\ Resolved(cache.status, out, sp.gen) \in Status
        /\ Resolved(cache.status, out, sp.gen).act = cache.status.act
    BY <1>2, <1>3, ResolvedType
  <1>5. st(resolved) \in Status /\ st(resolved).act = cache.status.act
    BY <1>2, <1>4
  <1>6. sp.gen <= spec.gen /\ Genuine(cache.status.act, ghost.proven)
    BY DEF StatusIsEarned, Ordered
  <1> HIDE DEF st, sp
  <1> DEFINE new == Unavailable(st(resolved), sp.gen)
  <1>7. new.act = cache.status.act /\ Claims(new, spec, ghost.proven)
    BY <1>2, <1>5, <1>6, UnavailableClaims
  <1> HIDE DEF new
  <1>8. /\ rec'.pc = "record" /\ rec'.mode = "error" /\ rec'.gen = sp.gen
        /\ rec'.base = cache.status /\ rec'.st = new
    BY <1>1 DEF new
  <1>9. /\ UNCHANGED <<spec, status, cache, pod, ghost>>
        /\ lock'.cat = cache.fresh /\ count'.attempts = count.attempts
    BY BeginFailsStep DEF BeginFails
  <1>10. ~Deciding' /\ Continues'
    BY <1>7, <1>8, <1>9
       DEF MemoryIsConsistent, CacheIsCurrent, Proposed, Continues, Deciding, Writing
  <1> QED
    BY <1>6, <1>7, <1>8, <1>9, <1>10, QuietEarned

\* Publish: what was proposed is published.
LEMMA PublishEarned ==
    ASSUME TypeOK, MemoryIsConsistent, StatusIsEarned, Publish
    PROVE  StatusIsEarned' /\ Moves(status.act, status'.act, ghost.proven)
  <1> DEFINE new == Patched(rec.base, rec.st)
             st  == IF rec.st = rec.base THEN rec.st ELSE new
  <1>1. /\ rec.pc = "publish" /\ PatchAllowed(rec.base, rec.st)
        /\ WriteStatus(new)
        /\ rec' = [rec EXCEPT
                     !.pc = IF rec.mode = "fault" THEN "contain" ELSE "apply",
                     !.st = st]
        /\ count' = [count EXCEPT !.attempts = Persisted(new)]
        /\ ghost' = [ghost EXCEPT !.seenReady = SinceReady(new)]
        /\ UNCHANGED <<spec, pod, lock>>
    BY DEF Publish
  <1>2. /\ new \in Status /\ Genuine(new.act, ghost.proven)
        /\ Claims(new, spec, ghost.proven)
        /\ Moves(status.act, new.act, ghost.proven)
        /\ Persisted(new) = new.act.attempt
        /\ lock.cat => new = rec.st
    BY <1>1, PatchIsEarned
  <1>3. st = rec.st
    BY <1>1, <1>2 DEF PatchAllowed
  <1> HIDE DEF new, st
  <1>4. /\ rec'.pc = IF rec.mode = "fault" THEN "contain" ELSE "apply"
        /\ rec'.mode = rec.mode /\ rec'.gen = rec.gen
        /\ rec'.base = rec.base /\ rec'.st = rec.st
    BY <1>1, <1>3, PassIsEarned DEF Reconciler
  <1>5. count'.attempts = new.act.attempt /\ ghost'.proven = ghost.proven
    BY <1>1, <1>2 DEF TypeOK
  <1>6. status' = new
    BY <1>1 DEF WriteStatus
  <1>7. Answers(rec'.st, rec'.gen, spec)
    BY <1>1, <1>4, PassIsEarned DEF Deciding
  <1>8. Continues'
    <2>1. lock.cat => Proposed(status, rec.base, rec.st)
      BY <1>1, PassIsEarned DEF Continues, Writing, Deciding
    <2>2. lock.cat => Published(status', rec'.base, rec'.st, ghost'.proven)
      BY <1>2, <1>4, <1>6, <2>1 DEF Proposed, Published
    <2> QED
      BY <1>1, <1>4, <2>2 DEF Continues, Writing, Deciding
  <1> QED
    BY <1>1, <1>2, <1>4, <1>5, <1>6, <1>7, <1>8, PassIsEarned, WriteEarned

\* PublishConflict writes nothing.
LEMMA PublishConflictEarned ==
    ASSUME TypeOK, MemoryIsConsistent, StatusIsEarned, PublishConflict
    PROVE  StatusIsEarned'
  <1>1. /\ rec.pc = "publish"
        /\ UNCHANGED <<spec, status, cache, pod, count, ghost>>
    BY DEF PublishConflict
  <1>2. CASE rec.mode = "fault"
    <2>1. rec' = [rec EXCEPT !.pc = "contain"] /\ UNCHANGED lock
      BY <1>2 DEF PublishConflict
    <2>2. /\ rec'.pc = "contain" /\ rec'.mode = rec.mode /\ rec'.gen = rec.gen
          /\ rec'.base = rec.base /\ rec'.st = rec.st
      BY <2>1, PassIsEarned DEF Reconciler
    <2>3. Answers(rec'.st, rec'.gen, spec) /\ Continues'
      BY <1>1, <2>1, <2>2, PassIsEarned DEF Continues, Writing, Deciding
    <2> QED
      BY <1>1, <2>2, <2>3, PassIsEarned, QuietEarned
  <1>3. CASE rec.mode # "fault"
    <2>1. rec' = Idle
      BY <1>3 DEF PublishConflict, Finish
    <2> QED
      BY <1>1, <2>1, FinishEarned, QuietEarned
  <1> QED
    BY <1>2, <1>3

\* PublishFails: the patch was applied and the lock is lost, or it is still only
\* proposed.
LEMMA PublishFailsEarned ==
    ASSUME TypeOK, MemoryIsConsistent, StatusIsEarned, PublishFails
    PROVE  StatusIsEarned' /\ Moves(status.act, status'.act, ghost.proven)
  <1>1. PICK new \in {status, Patched(rec.base, rec.st)} :
           /\ WriteStatus(new)
           /\ lock' = [lock EXCEPT !.cat = new = status]
           /\ count' = [count EXCEPT !.attempts = Persisted(new),
                                     !.faults = @ + 1]
           /\ ghost' = [ghost EXCEPT !.seenReady = SinceReady(new)]
    BY DEF PublishFails
  <1>2. /\ rec.pc = "publish" /\ PatchAllowed(rec.base, rec.st)
        /\ rec.st # rec.base /\ lock.cat /\ UNCHANGED <<spec, pod>>
        /\ rec' = IF rec.mode = "fault" THEN [rec EXCEPT !.pc = "contain"]
                  ELSE [rec EXCEPT !.pc = "record", !.mode = "error", !.err = TRUE,
                                   !.st = Unavailable(rec.st, rec.gen)]
    BY DEF PublishFails, PatchAllowed
  <1>3. /\ new \in Status /\ Genuine(new.act, ghost.proven)
        /\ Claims(new, spec, ghost.proven)
        /\ Moves(status.act, new.act, ghost.proven)
        /\ Persisted(new) = new.act.attempt
    <2>1. CASE new = Patched(rec.base, rec.st)
      BY <1>2, <2>1, PatchIsEarned
    <2>2. CASE new = status
      BY <2>2, NumberType DEF StatusIsEarned, Ordered, Moves, Persisted
    <2> QED
      BY <2>1, <2>2
  <1>4. /\ count'.attempts = new.act.attempt /\ ghost'.proven = ghost.proven
        /\ lock'.cat => new = status
    BY <1>1, <1>3 DEF TypeOK
  <1>5. status' = new
    BY <1>1 DEF WriteStatus
  <1>6. Proposed(status, rec.base, rec.st) /\ Answers(rec.st, rec.gen, spec)
    BY <1>2, PassIsEarned DEF Continues, Writing, Deciding
  <1> DEFINE down == Unavailable(rec.st, rec.gen)
  <1>7. down.act = rec.st.act /\ Claims(down, spec, ghost.proven)
    BY NumberType, PassIsEarned, UnavailableClaims
  <1> HIDE DEF down
  <1>8. /\ rec'.base = rec.base /\ rec'.gen = rec.gen
        /\ rec'.st.act = rec.st.act /\ Claims(rec'.st, spec, ghost.proven)
        /\ \/ rec'.pc = "contain" /\ rec'.mode = "fault" /\ rec'.st = rec.st
           \/ rec'.pc = "record" /\ rec'.mode = "error"
    BY <1>2, <1>7, PassIsEarned DEF Reconciler, down
  <1>9. Deciding' => Answers(rec'.st, rec'.gen, spec)
    BY <1>6, <1>8 DEF Deciding
  <1>10. Continues'
    BY <1>4, <1>5, <1>6, <1>8 DEF Continues, Proposed, Writing
  <1> QED
    BY <1>1, <1>2, <1>3, <1>4, <1>5, <1>8, <1>9, <1>10, PassIsEarned, WriteEarned

\* Apply and its failures leave the record in memory alone.
LEMMA ApplyEarned ==
    ASSUME TypeOK, MemoryIsConsistent, StatusIsEarned,
           Apply \/ ApplyDeletes \/ ApplyFails
    PROVE  StatusIsEarned'
  <1>1. /\ rec.pc = "apply" /\ UNCHANGED <<spec, status, cache, pod, lock, ghost>>
        /\ count'.attempts = count.attempts
    BY ApplyStep DEF Apply, ApplyDeletes, ApplyFails
  <1>2. /\ Answers(rec.st, rec.gen, spec)
        /\ lock.cat => Published(status, rec.base, rec.st, ghost.proven)
    BY <1>1, PassIsEarned DEF Continues, Writing, Deciding
  <1> DEFINE down == Unavailable(rec.st, rec.gen)
  <1>3. /\ down.act = rec.st.act /\ down.images = rec.st.images
        /\ Claims(down, spec, ghost.proven)
    BY NumberType, PassIsEarned, UnavailableClaims
  <1> HIDE DEF down
  <1>4. /\ rec'.base = rec.base /\ rec'.gen = rec.gen
        /\ rec'.st.act = rec.st.act /\ rec'.st.images = rec.st.images
        /\ Claims(rec'.st, spec, ghost.proven)
        /\ \/ rec'.pc = "observe" /\ rec'.st = rec.st
           \/ rec'.pc = "record" /\ rec'.mode = "error"
    <2>1. CASE Apply \/ ApplyDeletes
      <3>1. rec' = [rec EXCEPT !.pc = "observe"]
        BY <2>1 DEF Apply, ApplyDeletes
      <3> QED
        BY <3>1, PassIsEarned DEF Reconciler
    <2>2. CASE ApplyFails
      <3>1. rec' = [rec EXCEPT !.pc = "record", !.mode = "error", !.err = TRUE,
                               !.st = down]
        BY <2>2 DEF ApplyFails, down
      <3> QED
        BY <1>3, <3>1, PassIsEarned DEF Reconciler
    <2> QED
      BY <2>1, <2>2
  <1>5. Deciding' => Answers(rec'.st, rec'.gen, spec)
    BY <1>2, <1>4 DEF Deciding
  <1>6. Continues'
    BY <1>1, <1>2, <1>4 DEF Continues, Writing, Published
  <1> QED
    BY <1>1, <1>4, <1>5, <1>6, PassIsEarned, QuietEarned

\* Observe and its failures: a success observed is of a pod that was ready.
LEMMA ObserveEarned ==
    ASSUME TypeOK, MemoryIsConsistent, StatusIsEarned, Observe \/ ObserveFails
    PROVE  StatusIsEarned'
  <1>1. /\ rec.pc = "observe" /\ UNCHANGED <<spec, status, cache, pod, lock, ghost>>
        /\ count'.attempts = count.attempts
    BY ObserveStep DEF Observe, ObserveFails
  <1>2. /\ Answers(rec.st, rec.gen, spec)
        /\ lock.cat => Published(status, rec.base, rec.st, ghost.proven)
    BY <1>1, PassIsEarned DEF Continues, Writing, Deciding
  <1>3. /\ rec.st \in Status /\ spec \in CatalogSpec
        /\ rec.gen \in Nat /\ rec.gen <= spec.gen
        /\ Genuine(rec.st.act, ghost.proven)
        /\ pod.phase = "ready" => pod.attempt \in ghost.proven
    BY NumberType, PassIsEarned DEF StatusIsEarned, Ordered
  <1>4. /\ rec'.pc = "record" /\ rec'.base = rec.base /\ rec'.gen = rec.gen
        /\ rec'.st.images = rec.st.images
        /\ rec'.st.act.attempt = rec.st.act.attempt
        /\ rec'.st.act.request = rec.st.act.request
        /\ rec'.st.act.images = rec.st.act.images
        /\ Genuine(rec'.st.act, ghost.proven)
        /\ rec'.st.act.last # rec.st.act.last =>
              /\ rec'.st.act.last = rec'.st.act.attempt
              /\ rec'.st.act.attempt \in ghost.proven
              /\ rec.st.act.state # "Failed"
        /\ Claims(rec'.st, spec, ghost.proven)
    <2>1. CASE Observe
      <3> DEFINE st == Observed(rec.st, rec.gen)
                 saw == Validated(rec.st.act)
      <3>1. rec' = [rec EXCEPT !.pc = "record", !.st = st, !.saw = saw]
        BY <2>1 DEF Observe
      <3>2. /\ st.images = rec.st.images
            /\ st.act.attempt = rec.st.act.attempt
            /\ st.act.request = rec.st.act.request
            /\ st.act.images = rec.st.act.images
            /\ Genuine(st.act, ghost.proven)
            /\ st.act.last # rec.st.act.last =>
                  /\ st.act.last = st.act.attempt
                  /\ st.act.attempt \in ghost.proven
                  /\ rec.st.act.state # "Failed"
            /\ Claims(st, spec, ghost.proven)
        BY <1>2, <1>3, ObservedClaims
      <3> HIDE DEF st, saw
      <3> QED
        BY <3>1, <3>2, PassIsEarned DEF Reconciler
    <2>2. CASE ObserveFails
      <3>1. /\ Cond("Unknown", "WorkloadStatusUnknown", rec.gen) \in Condition
            /\ Cond("Unknown", "ActivationStatusUnknown", rec.gen) \in Condition
            /\ Cond("False", "ActivationStatusUnknown", rec.gen) \in Condition
        BY <1>3, CondType DEF TruthValue, Reason
      <3>2. rec.st.conds \in Conds
        BY <1>3 DEF Status
      <3>3. PICK conds \in
            {[rec.st.conds EXCEPT !.workload =
                 Cond("Unknown", "WorkloadStatusUnknown", rec.gen)],
             [rec.st.conds EXCEPT !.workload =
                 Cond("Unknown", "ActivationStatusUnknown", rec.gen)],
             [rec.st.conds EXCEPT !.actReady =
                 Cond("False", "ActivationStatusUnknown", rec.gen)]} :
               rec' = [rec EXCEPT
                     !.pc = "record", !.mode = "error", !.err = TRUE,
                     !.st = Reduce([rec.st EXCEPT !.conds = conds], rec.gen)]
        BY <2>2 DEF ObserveFails
      <3>4. conds \in Conds /\ conds.resolved = rec.st.conds.resolved
        BY <3>1, <3>2, <3>3 DEF Conds
      <3> DEFINE x == [rec.st EXCEPT !.conds = conds]
                 st == Reduce(x, rec.gen)
      <3>5. /\ x \in Status /\ x.act = rec.st.act /\ x.images = rec.st.images
            /\ x.conds = conds
        BY <1>3, <3>4 DEF Status
      <3>6. rec' = [rec EXCEPT !.pc = "record", !.mode = "error", !.err = TRUE,
                               !.st = st]
        BY <3>3
      <3> HIDE DEF x
      <3>7. Answers(x, rec.gen, spec)
        BY <1>2, <3>4, <3>5 DEF Answers
      <3>8. /\ st.act = rec.st.act /\ st.images = rec.st.images
            /\ Claims(st, spec, ghost.proven)
        BY <1>3, <3>5, <3>7, ReduceType, ReduceClaims
      <3> HIDE DEF st
      <3> QED
        BY <1>3, <3>6, <3>8, PassIsEarned DEF Reconciler
    <2> QED
      BY <2>1, <2>2
  <1>5. lock.cat => Published(status, rec'.base, rec'.st, ghost.proven)
    <2> SUFFICES ASSUME lock.cat
                 PROVE  Published(status, rec'.base, rec'.st, ghost.proven)
      OBVIOUS
    <2>1. Published(status, rec.base, rec.st, ghost.proven)
      BY <1>2
    <2>2. status.act.attempt \in Nat /\ rec.st.act.attempt = status.act.attempt
      BY <2>1, NumberType DEF Published
    <2>3. status.act.state = "Failed" => rec.st.act.state = "Failed"
      BY <1>1, <2>2 DEF MemoryIsConsistent, FailureIsCarried
    <2> QED
      BY <1>4, <2>1, <2>3 DEF Published
  <1>6. ~Deciding' /\ Continues'
    BY <1>1, <1>4, <1>5 DEF Continues, Writing, Deciding
  <1> QED
    BY <1>1, <1>4, <1>6, PassIsEarned, QuietEarned

\* Record: the pass ends, or containment goes on with what was written.
LEMMA RecordEarned ==
    ASSUME TypeOK, MemoryIsConsistent, StatusIsEarned, Record
    PROVE  StatusIsEarned' /\ Moves(status.act, status'.act, ghost.proven)
  <1> DEFINE new == Patched(rec.base, rec.st)
             st  == IF rec.st = rec.base THEN rec.st ELSE new
  <1>1. /\ rec.pc = "record" /\ PatchAllowed(rec.base, rec.st)
        /\ WriteStatus(new)
        /\ \/ rec.mode = "normal" /\ rec' = [rec EXCEPT !.pc = "contain", !.st = st]
           \/ rec' = Idle
        /\ count' = [count EXCEPT !.attempts = Persisted(new)]
        /\ ghost' = [ghost EXCEPT !.seenReady = SeenReady(new)]
        /\ UNCHANGED <<spec, pod>>
    BY DEF Record, Finish
  <1>2. /\ new \in Status /\ Genuine(new.act, ghost.proven)
        /\ Claims(new, spec, ghost.proven)
        /\ Moves(status.act, new.act, ghost.proven)
        /\ Persisted(new) = new.act.attempt
    BY <1>1, PatchIsEarned
  <1>3. Genuine(st.act, ghost.proven) /\ Claims(st, spec, ghost.proven)
    BY <1>2, PassIsEarned
  <1> HIDE DEF new, st
  <1>4. count'.attempts = new.act.attempt /\ ghost'.proven = ghost.proven
    BY <1>1, <1>2 DEF TypeOK
  <1>5. status' = new
    BY <1>1 DEF WriteStatus
  <1>6. CASE rec' = Idle
    BY <1>1, <1>2, <1>4, <1>5, <1>6, FinishEarned, WriteEarned
  <1>7. CASE rec.mode = "normal" /\ rec' = [rec EXCEPT !.pc = "contain", !.st = st]
    <2>1. /\ rec'.pc = "contain" /\ rec'.mode = "normal" /\ rec'.gen = rec.gen
          /\ rec'.base = rec.base /\ rec'.st = st
      BY <1>7, PassIsEarned DEF Reconciler
    <2>2. ~Deciding' /\ Continues'
      BY <2>1 DEF Continues, Writing, Deciding
    <2> QED
      BY <1>1, <1>2, <1>3, <1>4, <1>5, <2>1, <2>2, PassIsEarned, WriteEarned
  <1> QED
    BY <1>1, <1>6, <1>7

\* RecordConflict and RecordFails end the pass; the latter may have written.
LEMMA RecordFailsEarned ==
    ASSUME TypeOK, MemoryIsConsistent, StatusIsEarned, RecordConflict \/ RecordFails
    PROVE  StatusIsEarned' /\ Moves(status.act, status'.act, ghost.proven)
  <1>1. rec.pc = "record" /\ rec' = Idle /\ UNCHANGED <<spec, pod>>
    BY DEF RecordConflict, RecordFails, Finish
  <1>2. CASE RecordConflict
    <2>1. UNCHANGED <<status, cache, count, ghost>>
      BY <1>2 DEF RecordConflict
    <2> QED
      BY <1>1, <2>1, FinishEarned, QuietEarned DEF Moves
  <1>3. CASE RecordFails
    <2>1. PICK new \in {status, Patched(rec.base, rec.st)} :
             /\ WriteStatus(new)
             /\ count' = [count EXCEPT !.attempts = Persisted(new),
                                       !.faults = @ + 1]
             /\ ghost' = [ghost EXCEPT !.seenReady =
                            IF new = status THEN ghost.seenReady
                            ELSE SeenReady(new)]
      BY <1>3 DEF RecordFails
    <2>2. PatchAllowed(rec.base, rec.st)
      BY <1>3 DEF RecordFails
    <2>3. /\ new \in Status /\ Genuine(new.act, ghost.proven)
          /\ Claims(new, spec, ghost.proven)
          /\ Moves(status.act, new.act, ghost.proven)
          /\ Persisted(new) = new.act.attempt
      <3>1. CASE new = Patched(rec.base, rec.st)
        BY <1>1, <2>2, <3>1, PatchIsEarned
      <3>2. CASE new = status
        BY <3>2, NumberType DEF StatusIsEarned, Ordered, Moves, Persisted
      <3> QED
        BY <3>1, <3>2
    <2>4. count'.attempts = new.act.attempt /\ ghost'.proven = ghost.proven
      BY <2>1, <2>3 DEF TypeOK
    <2>5. status' = new
      BY <2>1 DEF WriteStatus
    <2> QED
      BY <1>1, <2>1, <2>3, <2>4, <2>5, FinishEarned, WriteEarned
  <1> QED
    BY <1>2, <1>3

\* Containment reduces the status in memory again, or ends the pass.
LEMMA ContainEarned ==
    ASSUME TypeOK, MemoryIsConsistent, StatusIsEarned,
           Contain \/ ContainFails \/ ScaleDown \/ ScaleDownConflict
    PROVE  StatusIsEarned'
  <1>1. /\ rec.pc \in {"contain", "scale"}
        /\ UNCHANGED <<spec, status, cache, pod, ghost>>
        /\ count'.attempts = count.attempts
    BY ContainStep DEF Contain, ContainFails, ScaleDown, ScaleDownConflict
  <1>2. CASE rec' = [rec EXCEPT !.pc = "scale"] /\ lock' = [lock EXCEPT !.dep = TRUE]
    <2>1. /\ rec'.pc = "scale" /\ rec'.mode = rec.mode /\ rec'.gen = rec.gen
          /\ rec'.base = rec.base /\ rec'.st = rec.st
      BY <1>2, PassIsEarned DEF Reconciler
    <2>2. lock'.cat = lock.cat
      BY <1>2 DEF TypeOK
    <2>3. Deciding' => Answers(rec'.st, rec'.gen, spec)
      BY <1>1, <2>1, PassIsEarned DEF Deciding
    <2>4. Continues'
      BY <1>1, <2>1, <2>2, PassIsEarned DEF Continues, Writing, Deciding
    <2> QED
      BY <1>1, <2>1, <2>3, <2>4, PassIsEarned, QuietEarned
  <1>3. ASSUME NEW err \in BOOLEAN, NEW event \in BOOLEAN, AfterContain(err, event)
        PROVE  StatusIsEarned'
    <2>1. CASE rec.mode # "fault"
      <3>1. rec' = Idle
        BY <1>3, <2>1 DEF AfterContain, Finish
      <3> QED
        BY <1>1, <3>1, FinishEarned, QuietEarned
    <2>2. CASE rec.mode = "fault"
      <3> DEFINE c == Cond("Unknown", "CatalogContainmentFailed", rec.gen)
                 x == [rec.st EXCEPT !.conds.workload = c]
                 y == IF err THEN x ELSE rec.st
                 st == Reduce(y, rec.gen)
      <3>1. /\ rec.st \in Status /\ spec \in CatalogSpec
            /\ rec.gen \in Nat /\ rec.gen <= spec.gen
            /\ Genuine(rec.st.act, ghost.proven)
            /\ Answers(rec.st, rec.gen, spec)
        BY <1>1, <2>2, NumberType, PassIsEarned DEF Deciding
      <3>2. c \in Condition
        BY <3>1, CondType DEF TruthValue, Reason
      <3>3. rec' = [rec EXCEPT !.pc = "record", !.err = rec.err \/ err, !.st = st]
        BY <1>3, <2>2 DEF AfterContain
      <3> HIDE DEF c
      <3>4. [rec.st.conds EXCEPT !.workload = c] \in Conds
        BY <3>1, <3>2 DEF Status, Conds
      <3>5. x = [rec.st EXCEPT !.conds = [rec.st.conds EXCEPT !.workload = c]]
        BY <3>1 DEF Status
      <3>6. /\ x \in Status /\ x.act = rec.st.act /\ x.images = rec.st.images
            /\ x.conds.resolved = rec.st.conds.resolved
        BY <3>1, <3>4, <3>5 DEF Status, Conds
      <3> HIDE DEF x
      <3>7. /\ y \in Status /\ y.act = rec.st.act /\ y.images = rec.st.images
            /\ y.conds.resolved = rec.st.conds.resolved
        BY <3>1, <3>6
      <3> HIDE DEF y
      <3>8. Answers(y, rec.gen, spec)
        BY <3>1, <3>7 DEF Answers
      <3>9. /\ st.act = rec.st.act /\ st.images = rec.st.images
            /\ Claims(st, spec, ghost.proven)
        BY <3>1, <3>7, <3>8, ReduceType, ReduceClaims
      <3> HIDE DEF st
      <3>10. /\ rec'.pc = "record" /\ rec'.gen = rec.gen
             /\ rec'.base = rec.base /\ rec'.st = st
        BY <3>3, PassIsEarned DEF Reconciler
      <3>11. lock'.cat = lock.cat
        BY <1>3, <2>2 DEF AfterContain, TypeOK
      <3>12. ~Deciding'
        BY <3>10 DEF Deciding
      <3>13. Continues'
        BY <1>1, <2>2, <3>9, <3>10, <3>11, PassIsEarned
           DEF Continues, Writing, Deciding, Proposed, Published
      <3> QED
        BY <1>1, <3>1, <3>9, <3>10, <3>12, <3>13, PassIsEarned, QuietEarned
    <2> QED
      BY <2>1, <2>2
  <1>4. CASE Contain
    BY <1>2, <1>3, <1>4 DEF Contain
  <1>5. CASE ContainFails \/ ScaleDown \/ ScaleDownConflict
    BY <1>3, <1>5 DEF ContainFails, ScaleDown, ScaleDownConflict
  <1> QED
    BY <1>4, <1>5

\* A user's edit takes the lock away from the pass, and a new generation every
\* claim of being current.
LEMMA UserEarned ==
    ASSUME TypeOK, StatusIsEarned, EditSelection \/ EditRetry
    PROVE  StatusIsEarned'
  <1>1. PICK sp : /\ UserWrites(sp)
                  /\ \/ sp.gen = spec.gen + 1
                     \/ sp.gen = spec.gen /\ sp.sel = spec.sel
    <2>1. spec \in CatalogSpec
      BY NumberType
    <2>2. CASE EditSelection
      <3>1. PICK t \in Targets : \E sel \in SelectionsOf[t] :
               UserWrites([spec EXCEPT !.gen = @ + 1, !.sel = [@ EXCEPT ![t] = sel]])
        BY <2>2 DEF EditSelection
      <3>2. PICK sel \in SelectionsOf[t] :
               UserWrites([spec EXCEPT !.gen = @ + 1, !.sel = [@ EXCEPT ![t] = sel]])
        BY <3>1
      <3>3. [spec EXCEPT !.gen = @ + 1, !.sel = [@ EXCEPT ![t] = sel]].gen
              = spec.gen + 1
        BY <2>1 DEF CatalogSpec
      <3> QED
        BY <3>2, <3>3
    <2>3. CASE EditRetry
      <3>1. PICK retry \in Retries : UserWrites([spec EXCEPT !.retry = retry])
        BY <2>3 DEF EditRetry
      <3>2. /\ [spec EXCEPT !.retry = retry].gen = spec.gen
            /\ [spec EXCEPT !.retry = retry].sel = spec.sel
        BY <2>1 DEF CatalogSpec
      <3> QED
        BY <3>1, <3>2
    <2> QED
      BY <2>2, <2>3
  <1>2. /\ spec' = sp /\ UNCHANGED <<status, pod, rec, ghost>>
        /\ count'.attempts = count.attempts
        /\ lock'.cat = (rec.pc = "idle")
    BY <1>1 DEF UserWrites, TypeOK
  <1>3. cache'.spec \in {cache.spec, sp} /\ cache'.status \in {cache.status, status}
    <2>1. cache \in [spec : CatalogSpec, status : Status, fresh : BOOLEAN]
      BY DEF TypeOK
    <2> QED
      BY <1>1, <2>1 DEF UserWrites, Informed
  <1>4. Ordered'
    BY <1>1, <1>2, <1>3, NumberType DEF StatusIsEarned, Ordered
  <1>5. \A st \in {status', cache'.status, rec'.base, rec'.st} :
           Genuine(st.act, ghost'.proven)
    BY <1>2, <1>3 DEF StatusIsEarned
  <1>6. ASSUME NEW st, st.conds.ready.gen \in Nat, Claims(st, spec, ghost.proven)
        PROVE  Claims(st, sp, ghost.proven)
    BY <1>1, <1>6, NumberType DEF Claims
  <1>7. Claims(status', spec', ghost'.proven) /\ Claims(rec'.st, spec', ghost'.proven)
    BY <1>2, <1>6, NumberType DEF StatusIsEarned
  <1>8. Deciding' => Answers(rec'.st, rec'.gen, spec')
    BY <1>1, <1>2, NumberType DEF StatusIsEarned, Ordered, Deciding, Answers
  <1>9. Continues'
    BY <1>2 DEF Continues, Writing, Deciding
  <1> QED
    BY <1>4, <1>5, <1>7, <1>8, <1>9 DEF StatusIsEarned

\* Pods come, go and report: only a ready one is proven.
LEMMA WorkloadEarned ==
    ASSUME TypeOK, StatusIsEarned,
           DeploymentReports \/ PodStarts \/ PodStops \/ PodReports
    PROVE  /\ StatusIsEarned'
           /\ \/ ghost'.proven = ghost.proven
              \/ /\ pod.attempt # 0
                 /\ ghost'.proven = ghost.proven \cup {pod.attempt}
  <1>1. /\ UNCHANGED <<spec, status, cache, rec, count>> /\ lock'.cat = lock.cat
    BY DEF DeploymentReports, PodStarts, PodStops, PodReports, TypeOK
  <1>2. /\ \/ ghost'.proven = ghost.proven
           \/ /\ pod.attempt # 0
              /\ ghost'.proven = ghost.proven \cup {pod.attempt}
        /\ pod'.phase # "none" => pod'.attempt # 0
        /\ pod'.phase = "ready" => pod'.attempt \in ghost'.proven
    <2>1. /\ pod.phase # "none" => pod.attempt # 0
          /\ pod.phase = "ready" => pod.attempt \in ghost.proven
      BY DEF StatusIsEarned, Ordered
    <2>2. pod \in Pod /\ ghost \in [proven : SUBSET Nat, seenReady : 0 .. Never]
      BY DEF TypeOK
    <2>3. CASE DeploymentReports
      BY <2>1, <2>3 DEF DeploymentReports
    <2>4. CASE PodStarts
      BY <2>4 DEF PodStarts
    <2>5. CASE PodStops
      BY <2>5 DEF PodStops, NoPod
    <2>6. CASE PodReports
      <3>1. PICK phase \in NextPhases(pod.phase) \cap PodOutcomes :
               /\ pod' = [pod EXCEPT !.phase = phase]
               /\ ghost' = IF phase # "ready" THEN ghost
                           ELSE [ghost EXCEPT !.proven = @ \cup {pod.attempt}]
        BY <2>6 DEF PodReports
      <3>2. pod.phase # "none"
        <4>1. NextPhases("none") = {}
          BY DEF NextPhases
        <4> QED
          BY <3>1, <4>1
      <3>3. pod'.phase = phase /\ pod'.attempt = pod.attempt
        BY <2>2, <3>1 DEF Pod
      <3>4. CASE phase = "ready"
        <4>1. ghost'.proven = ghost.proven \cup {pod.attempt}
          BY <2>2, <3>1, <3>4
        <4> QED
          BY <2>1, <3>2, <3>3, <4>1
      <3>5. CASE phase # "ready"
        <4>1. ghost' = ghost
          BY <3>1, <3>5
        <4> QED
          BY <2>1, <3>2, <3>3, <3>5, <4>1
      <3> QED
        BY <3>4, <3>5
    <2> QED
      BY <2>3, <2>4, <2>5, <2>6
  <1>3. ghost.proven \subseteq ghost'.proven /\ 0 \notin ghost'.proven
    BY <1>2 DEF StatusIsEarned, Ordered
  <1>4. Ordered'
    BY <1>1, <1>2, <1>3 DEF StatusIsEarned, Ordered
  <1>5. \A st \in {status', cache'.status, rec'.base, rec'.st} :
           Genuine(st.act, ghost'.proven)
    BY <1>1, <1>3, GenuineGrows DEF StatusIsEarned
  <1>6. Claims(status', spec', ghost'.proven) /\ Claims(rec'.st, spec', ghost'.proven)
    BY <1>1, <1>3, ClaimsGrow DEF StatusIsEarned
  <1>7. Deciding' => Answers(rec'.st, rec'.gen, spec')
    BY <1>1 DEF StatusIsEarned, Deciding
  <1>8. Continues'
    BY <1>1, <1>3 DEF StatusIsEarned, Continues, Writing, Deciding, Published
  <1> QED
    BY <1>2, <1>4, <1>5, <1>6, <1>7, <1>8 DEF StatusIsEarned

\* The informer, the timer and a restart bring copies of what is persisted.
LEMMA OperatorEarned ==
    ASSUME TypeOK, StatusIsEarned, Sync \/ PollFires \/ Restart
    PROVE  StatusIsEarned'
  <1>1. /\ UNCHANGED <<spec, status, pod, ghost>> /\ count'.attempts = count.attempts
        /\ \/ UNCHANGED cache
           \/ cache' = [spec |-> spec, status |-> status, fresh |-> TRUE]
        /\ \/ UNCHANGED <<rec, lock>>
           \/ rec' = Idle
    BY SpendType DEF Sync, PollFires, Restart
  <1>2. /\ rec'.gen <= spec.gen /\ Genuine(rec'.base.act, ghost.proven)
        /\ Genuine(rec'.st.act, ghost.proven) /\ Claims(rec'.st, spec, ghost.proven)
        /\ Deciding' => Answers(rec'.st, rec'.gen, spec)
        /\ Continues'
    <2>1. CASE rec' = Idle
      BY <2>1, FinishEarned
    <2>2. CASE UNCHANGED <<rec, lock>>
      BY <1>1, <2>2, PassIsEarned DEF Deciding, Continues, Writing
    <2> QED
      BY <1>1, <2>1, <2>2
  <1>3. cache'.spec \in {cache.spec, spec} /\ cache'.status \in {cache.status, status}
    BY <1>1
  <1>4. Ordered'
    BY <1>1, <1>2, <1>3, NumberType DEF StatusIsEarned, Ordered
  <1>5. \A st \in {status', cache'.status, rec'.base, rec'.st} :
           Genuine(st.act, ghost'.proven)
    BY <1>1, <1>2, <1>3 DEF StatusIsEarned
  <1>6. Claims(status', spec', ghost'.proven) /\ Claims(rec'.st, spec', ghost'.proven)
    BY <1>1, <1>2 DEF StatusIsEarned
  <1> QED
    BY <1>1, <1>2, <1>4, <1>5, <1>6 DEF StatusIsEarned

\* Time changes the two timestamps of a record and nothing else of a status.
LEMMA OlderStatusKeeps ==
    ASSUME NEW s \in Status
    PROVE  /\ OlderStatus(s).images = s.images /\ OlderStatus(s).conds = s.conds
           /\ OlderStatus(s).act.attempt = s.act.attempt
           /\ OlderStatus(s).act.state = s.act.state
           /\ OlderStatus(s).act.request = s.act.request
           /\ OlderStatus(s).act.images = s.act.images
           /\ OlderStatus(s).act.last = s.act.last
  <1>1. s.act \in Activation
    BY DEF Status
  <1>2. OlderStatus(s) = [s EXCEPT !.act =
             [s.act EXCEPT !.started = Older(@), !.recovered = Older(@)]]
    BY <1>1 DEF OlderStatus, Status, Activation
  <1> DEFINE act == [s.act EXCEPT !.started = Older(@), !.recovered = Older(@)]
  <1>3. /\ act.attempt = s.act.attempt /\ act.state = s.act.state
        /\ act.request = s.act.request /\ act.images = s.act.images
        /\ act.last = s.act.last
    BY <1>1 DEF Activation
  <1> HIDE DEF act
  <1>4. /\ OlderStatus(s).act = act /\ OlderStatus(s).images = s.images
        /\ OlderStatus(s).conds = s.conds
    BY <1>2 DEF act, Status
  <1> QED
    BY <1>3, <1>4

\* Time passes for every copy alike.
LEMMA TickEarned ==
    ASSUME TypeOK, StatusIsEarned, Tick
    PROVE  StatusIsEarned'
  <1>1. /\ status' = OlderStatus(status)
        /\ cache' = [cache EXCEPT !.status = OlderStatus(@)]
        /\ rec' = [rec EXCEPT !.base = OlderStatus(@), !.st = OlderStatus(@)]
        /\ ghost' = [ghost EXCEPT !.seenReady = Older(@)]
        /\ UNCHANGED <<spec, pod, lock, count>>
    BY DEF Tick
  <1>2. /\ cache'.spec = cache.spec /\ cache'.status = OlderStatus(cache.status)
        /\ rec'.base = OlderStatus(rec.base) /\ rec'.st = OlderStatus(rec.st)
        /\ rec'.pc = rec.pc /\ rec'.mode = rec.mode /\ rec'.gen = rec.gen
        /\ ghost'.proven = ghost.proven
    BY <1>1 DEF TypeOK, Reconciler
  <1>3. ASSUME NEW s \in Status
        PROVE  /\ Genuine(s.act, ghost.proven) =>
                     Genuine(OlderStatus(s).act, ghost.proven)
               /\ Claims(s, spec, ghost.proven) =>
                     Claims(OlderStatus(s), spec, ghost.proven)
               /\ \A g : Answers(s, g, spec) => Answers(OlderStatus(s), g, spec)
    BY OlderStatusKeeps DEF Genuine, Claims, Answers
  <1>4. /\ status \in Status /\ cache.status \in Status
        /\ rec.base \in Status /\ rec.st \in Status
    BY NumberType
  <1>5. Ordered'
    <2>1. status'.act.attempt = status.act.attempt
      BY <1>1, <1>4, OlderStatusKeeps
    <2> QED
      BY <1>1, <1>2, <2>1 DEF StatusIsEarned, Ordered
  <1>6. \A st \in {status', cache'.status, rec'.base, rec'.st} :
           Genuine(st.act, ghost'.proven)
    BY <1>1, <1>2, <1>3, <1>4 DEF StatusIsEarned
  <1>7. Claims(status', spec', ghost'.proven) /\ Claims(rec'.st, spec', ghost'.proven)
    BY <1>1, <1>2, <1>3, <1>4 DEF StatusIsEarned
  <1>8. Deciding' => Answers(rec'.st, rec'.gen, spec')
    BY <1>1, <1>2, <1>3, <1>4 DEF StatusIsEarned, Deciding
  <1>9. Continues'
    <2>1. Proposed(status, rec.base, rec.st) => Proposed(status', rec'.base, rec'.st)
      BY <1>1, <1>2, <1>4, OlderStatusKeeps DEF Proposed
    <2>2. Published(status, rec.base, rec.st, ghost.proven) =>
             Published(status', rec'.base, rec'.st, ghost'.proven)
      BY <1>1, <1>2, <1>4, OlderStatusKeeps DEF Published
    <2> QED
      BY <1>1, <1>2, <2>1, <2>2 DEF StatusIsEarned, Continues, Writing, Deciding
  <1> QED
    BY <1>5, <1>6, <1>7, <1>8, <1>9 DEF StatusIsEarned

\* Imports touch the streams and the queue only.
LEMMA ImportEarned ==
    ASSUME StatusIsEarned,
           \E t \in Targets : RequestImport(t) \/ ImportSucceeds(t) \/ ImportFails(t)
    PROVE  StatusIsEarned'
  <1>1. UNCHANGED <<spec, status, cache, pod, rec, lock, count, ghost>>
    BY DEF RequestImport, ImportSucceeds, ImportFails
  <1> QED
    BY <1>1 DEF StatusIsEarned, Ordered, Continues, Writing, Deciding

-----------------------------------------------------------------------------
(***************************************************************************)
(* The theorems                                                             *)
(***************************************************************************)
\* Initially nothing is persisted, read or claimed.
LEMMA InitEarned == Init => StatusIsEarned
  <1> SUFFICES ASSUME Init PROVE StatusIsEarned
    OBVIOUS
  <1>1. /\ status = NoStatus /\ cache.spec = spec /\ cache.status = NoStatus
        /\ rec = Idle /\ count.attempts = 0 /\ ghost.proven = {}
        /\ pod.phase = "none" /\ spec \in CatalogSpec
    BY InitType DEF Init, NoPod, TypeOK
  <1>2. /\ Idle.pc = "idle" /\ Idle.gen = 0
        /\ Idle.base = NoStatus /\ Idle.st = NoStatus
        /\ Genuine(NoStatus.act, ghost.proven)
        /\ Claims(NoStatus, spec, ghost.proven)
    BY <1>1, IdleIsEarned DEF Idle
  <1>3. NoStatus.act.attempt = 0 /\ spec.gen \in Nat
    BY <1>1 DEF NoStatus, NoActivation, CatalogSpec
  <1>4. Ordered
    BY <1>1, <1>2, <1>3 DEF Ordered
  <1> QED
    BY <1>1, <1>2, <1>4 DEF StatusIsEarned, Continues, Writing, Deciding

\* Every step keeps the status earned.
LEMMA NextEarned ==
    TypeOK /\ MemoryIsConsistent /\ StatusIsEarned /\ [Next]_vars => StatusIsEarned'
  <1> SUFFICES ASSUME TypeOK, MemoryIsConsistent, StatusIsEarned, [Next]_vars
               PROVE  StatusIsEarned'
    OBVIOUS
  <1>1. CASE Reconcile
    BY <1>1, BeginEarned, BeginFailsEarned, PublishEarned, PublishConflictEarned,
       PublishFailsEarned, ApplyEarned, ObserveEarned, RecordEarned,
       RecordFailsEarned, ContainEarned DEF Reconcile
  <1>2. CASE Environment
    BY <1>2, UserEarned, ImportEarned, WorkloadEarned, OperatorEarned, TickEarned
       DEF Environment
  <1>3. CASE UNCHANGED vars
    BY <1>3 DEF vars, StatusIsEarned, Ordered, Continues, Writing, Deciding
  <1> QED
    BY <1>1, <1>2, <1>3 DEF Next

\* The inductive invariant: every copy of the record is genuine, and what a pass
\* may still write continues what is persisted, however stale its copy of the CR
\* was, whoever edits the CR meanwhile and whichever call fails.
THEOREM EarnedIsKept == Spec => []StatusIsEarned
  BY InitEarned, NextEarned, TypeCorrect, MemoryConsistent, PTL DEF Spec

\* A current Ready is for the user's selections, the images the status reports
\* and an attempt whose own pod was validated and ready.
THEOREM ReadinessIsEarned == Spec => []ReadyIsEarned
  <1>1. StatusIsEarned => ReadyIsEarned
    BY DEF StatusIsEarned, Claims, ReadyIsEarned
  <1> QED
    BY <1>1, EarnedIsKept, PTL

\* A step of the protocol is a step of the life cycle, or changes nothing of it.
LEMMA LifecycleStep ==
    TypeOK /\ MemoryIsConsistent /\ StatusIsEarned /\ [Next]_vars
        => [Lifecycle!Next]_(Lifecycle!vars)
  <1> SUFFICES ASSUME TypeOK, MemoryIsConsistent, StatusIsEarned, [Next]_vars
               PROVE  Lifecycle!Next \/ UNCHANGED Lifecycle!vars
    OBVIOUS
  <1>1. /\ status.act.attempt \in Nat /\ status.act.attempt = count.attempts
        /\ rec.st.act.attempt \in Nat /\ pod.attempt \in Nat
        /\ pod.attempt <= count.attempts
    BY NumberType DEF TypeOK, Pod, StatusIsEarned, Ordered, MemoryIsConsistent,
                      AttemptsBounded
  <1>2. ASSUME Moves(status.act, status'.act, ghost.proven),
               ghost'.proven = ghost.proven, dep'.attempt = dep.attempt
        PROVE  Lifecycle!Next \/ UNCHANGED Lifecycle!vars
    BY <1>2 DEF Moves, Lifecycle!Next, Lifecycle!vars, Lifecycle!Request,
                Lifecycle!Decide
  <1>3. ASSUME UNCHANGED status, ghost'.proven = ghost.proven,
               dep'.attempt = dep.attempt
        PROVE  UNCHANGED Lifecycle!vars
    BY <1>3 DEF Lifecycle!vars
  <1>4. CASE Publish \/ PublishFails
    <2>1. Moves(status.act, status'.act, ghost.proven)
      BY <1>4, PublishEarned, PublishFailsEarned
    <2>2. UNCHANGED dep
      BY <1>4 DEF Publish, PublishFails
    <2>3. ghost'.proven = ghost.proven
      BY <1>4 DEF Publish, PublishFails, TypeOK
    <2> QED
      BY <1>2, <2>1, <2>2, <2>3
  <1>5. CASE Record \/ RecordConflict \/ RecordFails
    <2>1. Moves(status.act, status'.act, ghost.proven)
      BY <1>5, RecordEarned, RecordFailsEarned
    <2>2. UNCHANGED dep
      BY <1>5 DEF Record, RecordConflict, RecordFails
    <2>3. ghost'.proven = ghost.proven
      BY <1>5 DEF Record, RecordConflict, RecordFails, TypeOK
    <2> QED
      BY <1>2, <2>1, <2>2, <2>3
  <1>6. CASE Apply \/ ApplyDeletes \/ ApplyFails
    <2>1. /\ UNCHANGED <<status, ghost>>
          /\ dep' = dep \/ dep'.attempt \in {0, rec.st.act.attempt}
      BY <1>6, ApplyStep DEF Apply, ApplyDeletes, ApplyFails
    <2>2. rec.st.act.attempt <= count.attempts
      BY <1>6, ApplyStep DEF MemoryIsConsistent, AttemptsBounded
    <2>3. CASE dep'.attempt \in {0, rec.st.act.attempt}
      <3>1. dep'.attempt \in 0 .. status.act.attempt
        BY <1>1, <2>2, <2>3
      <3> QED
        BY <2>1, <3>1 DEF Lifecycle!Next, Lifecycle!RollOut
    <2> QED
      BY <1>3, <2>1, <2>3
  <1>7. CASE Begin \/ BeginFails \/ PublishConflict \/ Observe \/ ObserveFails
    <2>1. UNCHANGED <<status, dep, ghost>>
      BY <1>7 DEF Begin, BeginFails, PublishConflict, Observe, ObserveFails
    <2> QED
      BY <1>3, <2>1
  <1>8. CASE Contain \/ ContainFails \/ ScaleDown \/ ScaleDownConflict
    <2>1. UNCHANGED <<status, ghost>>
      BY <1>8 DEF Contain, ContainFails, ScaleDown, ScaleDownConflict
    <2> QED
      BY <1>3, <1>8, <2>1, ContainStep
  <1>9. CASE EditSelection \/ EditRetry
    <2>1. UNCHANGED <<status, dep, ghost>>
      BY <1>9 DEF EditSelection, EditRetry, UserWrites
    <2> QED
      BY <1>3, <2>1
  <1>10. CASE \E t \in Targets : RequestImport(t) \/ ImportSucceeds(t) \/ ImportFails(t)
    <2>1. UNCHANGED <<status, dep, ghost>>
      BY <1>10 DEF RequestImport, ImportSucceeds, ImportFails
    <2> QED
      BY <1>3, <2>1
  <1>11. CASE DeploymentReports \/ PodStarts \/ PodStops \/ PodReports
    <2>1. /\ UNCHANGED status /\ dep'.attempt = dep.attempt
          /\ \/ ghost'.proven = ghost.proven
             \/ /\ pod.attempt # 0
                /\ ghost'.proven = ghost.proven \cup {pod.attempt}
      BY <1>11, WorkloadEarned, WorkloadStep
    <2>2. CASE pod.attempt # 0 /\ ghost'.proven = ghost.proven \cup {pod.attempt}
      <3>1. pod.attempt \in 1 .. status.act.attempt
        BY <1>1, <2>2
      <3> QED
        BY <2>1, <2>2, <3>1 DEF Lifecycle!Next, Lifecycle!Prove
    <2> QED
      BY <1>3, <2>1, <2>2
  <1>12. CASE Sync \/ PollFires \/ Restart
    <2>1. UNCHANGED <<status, dep, ghost>>
      BY <1>12 DEF Sync, PollFires, Restart
    <2> QED
      BY <1>3, <2>1
  <1>13. CASE Tick
    <2>1. /\ status' = OlderStatus(status) /\ UNCHANGED dep
          /\ ghost'.proven = ghost.proven
      BY <1>13 DEF Tick, TypeOK
    <2>2. Moves(status.act, status'.act, ghost.proven)
      BY <2>1, NumberType, OlderStatusKeeps DEF Moves
    <2> QED
      BY <1>2, <2>1, <2>2
  <1>14. CASE UNCHANGED vars
    <2>1. UNCHANGED <<status, dep, ghost>>
      BY <1>14 DEF vars
    <2> QED
      BY <1>3, <2>1
  <1> QED
    BY <1>4, <1>5, <1>6, <1>7, <1>8, <1>9, <1>10, <1>11, <1>12, <1>13, <1>14
       DEF Next, Reconcile, Environment

\* The protocol, with its caches, merge patches, conflicts, errors and restarts,
\* implements the life cycle of an attempt.
THEOREM ProtocolImplementsLifecycle == Spec => ImplementsLifecycle
  <1>1. Init => Lifecycle!Init
    BY DEF Init, Lifecycle!Init, NoStatus, NoActivation, NoDeployment
  <1> QED
    BY <1>1, LifecycleStep, EarnedIsKept, TypeCorrect, MemoryConsistent, PTL
       DEF Spec, ImplementsLifecycle, Lifecycle!Spec

-----------------------------------------------------------------------------
(***************************************************************************)
(* A failed workload stays down                                             *)
(***************************************************************************)
\* Every step keeps the pass current.
LEMMA CurrentStep ==
    TypeOK /\ CacheIsCurrent /\ PassIsCurrent /\ [Next]_vars => PassIsCurrent'
  <1> SUFFICES ASSUME TypeOK, CacheIsCurrent, PassIsCurrent, [Next]_vars, ~StaleCache
               PROVE  /\ cache'.fresh
                      /\ rec'.pc = "publish" => rec'.base = status'
                      /\ rec'.pc = "apply" => rec'.st = status'
    BY DEF PassIsCurrent
  <1>1. /\ cache.fresh /\ cache.status = status
        /\ rec.pc = "publish" => rec.base = status
        /\ rec.pc = "apply" => rec.st = status
        /\ rec \in Reconciler
    BY DEF PassIsCurrent, CacheIsCurrent, TypeOK
  <1>2. Idle.pc = "idle"
    BY DEF Idle
  <1>3. ASSUME NEW new, WriteStatus(new)
        PROVE  cache'.fresh /\ status' = new
    BY <1>1, <1>3 DEF WriteStatus, Informed
  <1>4. CASE Begin \/ BeginFails
    BY <1>1, <1>4, BeginStep, BeginFailsStep
  <1>5. CASE Publish
    <2> DEFINE new == Patched(rec.base, rec.st)
    <2>1. /\ rec.pc = "publish" /\ WriteStatus(new)
          /\ rec'.pc \in {"contain", "apply"}
          /\ rec'.st = IF rec.st = rec.base THEN rec.st ELSE new
      BY <1>5, PublishStep
    <2>2. new = rec.st
      <3>1. rec.st = rec.base => new = status
        BY DEF Patched
      <3>2. rec.st # rec.base => new = Merge(status, rec.base, rec.st)
        BY DEF Patched
      <3> QED
        BY <1>1, <2>1, <3>1, <3>2, NumberType, MergeOwn
    <2> QED
      BY <1>3, <2>1, <2>2
  <1>6. CASE PublishFails
    <2>1. \E new : WriteStatus(new)
      BY <1>6 DEF PublishFails
    <2> QED
      BY <1>3, <1>6, <2>1, PublishFailsStep
  <1>7. CASE PublishConflict
    BY <1>1, <1>2, <1>7, PublishConflictStep
  <1>8. CASE Apply \/ ApplyDeletes \/ ApplyFails \/ Observe \/ ObserveFails
    BY <1>1, <1>8, ApplyStep, ObserveStep
  <1>9. CASE Record
    BY <1>2, <1>3, <1>9, RecordStep
  <1>10. CASE RecordConflict \/ RecordFails
    BY <1>1, <1>2, <1>3, <1>10, RecordFailsStep
  <1>11. CASE Contain \/ ContainFails \/ ScaleDown \/ ScaleDownConflict
    BY <1>1, <1>2, <1>11, ContainStep
  <1>12. CASE EditSelection \/ EditRetry
    <2>1. PICK sp : UserWrites(sp)
      BY <1>12 DEF EditSelection, EditRetry
    <2>2. cache' = [spec |-> sp, status |-> status, fresh |-> TRUE]
      BY <2>1 DEF UserWrites, Informed
    <2>3. UNCHANGED <<status, rec>>
      BY <2>1 DEF UserWrites
    <2> QED
      BY <1>1, <2>2, <2>3
  <1>13. CASE \E t \in Targets : RequestImport(t) \/ ImportSucceeds(t) \/ ImportFails(t)
    <2>1. UNCHANGED <<status, cache, rec>>
      BY <1>13 DEF RequestImport, ImportSucceeds, ImportFails
    <2> QED
      BY <1>1, <2>1
  <1>14. CASE DeploymentReports \/ PodStarts \/ PodStops \/ PodReports
    <2>1. UNCHANGED <<status, cache, rec>>
      BY <1>14 DEF DeploymentReports, PodStarts, PodStops, PodReports
    <2> QED
      BY <1>1, <2>1
  <1>15. CASE Sync \/ PollFires \/ Restart
    <2>1. /\ UNCHANGED status
          /\ cache'.fresh /\ (rec' = rec \/ rec' = Idle)
      BY <1>1, <1>15 DEF Sync, PollFires, Restart
    <2> QED
      BY <1>1, <1>2, <2>1
  <1>16. CASE Tick
    <2>1. /\ status' = OlderStatus(status)
          /\ cache' = [cache EXCEPT !.status = OlderStatus(@)]
          /\ rec' = [rec EXCEPT !.base = OlderStatus(@), !.st = OlderStatus(@)]
      BY <1>16 DEF Tick
    <2>2. /\ cache'.fresh = cache.fresh /\ rec'.pc = rec.pc
          /\ rec'.base = OlderStatus(rec.base) /\ rec'.st = OlderStatus(rec.st)
      BY <1>1, <2>1 DEF TypeOK, Reconciler
    <2> QED
      BY <1>1, <2>1, <2>2
  <1>17. CASE UNCHANGED vars
    BY <1>1, <1>17 DEF vars
  <1> QED
    BY <1>4, <1>5, <1>6, <1>7, <1>8, <1>9, <1>10, <1>11, <1>12, <1>13, <1>14,
       <1>15, <1>16, <1>17 DEF Next, Reconcile, Environment

\* With an informer that is never behind, nothing scales a failed attempt's
\* workload up again, whatever users edit and whichever call fails. (The run
\* stale_containment shows why the condition is needed.)
THEOREM FailureStaysDown ==
    ASSUME StaleCache = FALSE
    PROVE  Spec => FailedStaysDown
  <1> DEFINE Down == (status.act.state = "Failed" /\ dep.attempt = status.act.attempt
                        /\ dep.replicas = 0)
                     => (dep'.replicas = 0 \/ dep'.attempt # dep.attempt)
  <1>1. Init => PassIsCurrent
    BY DEF Init, PassIsCurrent, Idle
  <1>2. TypeOK /\ MemoryIsConsistent /\ PassIsCurrent /\ [Next]_vars => PassIsCurrent'
    BY CurrentStep DEF MemoryIsConsistent
  <1>3. TypeOK /\ PassIsCurrent /\ [Next]_vars => [Down]_vars
    <2> SUFFICES ASSUME TypeOK, PassIsCurrent, Next,
                        status.act.state = "Failed",
                        dep.attempt = status.act.attempt, dep.replicas = 0
                 PROVE  dep'.replicas = 0 \/ dep'.attempt # dep.attempt
      OBVIOUS
    <2>1. CASE Apply \/ ApplyDeletes \/ ApplyFails
      <3>1. rec.st = status
        BY <2>1 DEF Apply, ApplyDeletes, ApplyFails, PassIsCurrent
      <3>2. AppliedDeployment(rec.st.act).replicas = 0
        <4>1. DesiredReplicas(rec.st.act) = 0
          BY <3>1 DEF DesiredReplicas
        <4>2. dep \in Deployment
          BY DEF TypeOK
        <4> QED
          BY <4>1, <4>2 DEF AppliedDeployment, Deployment
      <3>3. NoDeployment.replicas = 0
        BY DEF NoDeployment
      <3>4. dep' \in {dep, NoDeployment, AppliedDeployment(rec.st.act)}
        BY <2>1 DEF Apply, ApplyDeletes, ApplyFails
      <3> QED
        BY <3>2, <3>3, <3>4
    <2>2. CASE ScaleDown \/ DeploymentReports
      <3>1. dep'.replicas = 0
        BY <2>2 DEF ScaleDown, DeploymentReports, TypeOK, Deployment
      <3> QED
        BY <3>1
    <2>3. CASE \/ Begin \/ BeginFails \/ Publish \/ PublishConflict \/ PublishFails
               \/ Observe \/ ObserveFails \/ Record \/ RecordConflict \/ RecordFails
               \/ Contain \/ ContainFails \/ ScaleDownConflict
      BY <2>3 DEF Begin, BeginFails, Publish, PublishConflict, PublishFails, Observe,
                  ObserveFails, Record, RecordConflict, RecordFails, Contain,
                  ContainFails, ScaleDownConflict
    <2>4. CASE \/ EditSelection \/ EditRetry \/ PodStarts \/ PodStops \/ PodReports
               \/ Sync \/ PollFires \/ Tick \/ Restart
               \/ \E t \in Targets :
                     RequestImport(t) \/ ImportSucceeds(t) \/ ImportFails(t)
      BY <2>4 DEF EditSelection, EditRetry, UserWrites, PodStarts, PodStops,
                  PodReports, Sync, PollFires, Tick, Restart, RequestImport,
                  ImportSucceeds, ImportFails
    <2> QED
      BY <2>1, <2>2, <2>3, <2>4 DEF Next, Reconcile, Environment
  <1> QED
    BY <1>1, <1>2, <1>3, TypeCorrect, MemoryConsistent, PTL
       DEF Spec, FailedStaysDown
=============================================================================
