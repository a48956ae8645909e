----------------------- MODULE CatalogActivationProofs -----------------------
(***************************************************************************)
(* Theorems about CatalogActivation, for every value of its constants.      *)
(***************************************************************************)
EXTENDS CatalogActivation, TLAPS

-----------------------------------------------------------------------------
(***************************************************************************)
(* Types of the operators                                                   *)
(***************************************************************************)
Evidence == [st : TruthValue \cup {"None"}, gen : Nat]

\* What the resolution of one target returns.
OutcomeType ==
    [image : Image, res : Condition, health : Condition, evidence : Evidence]

\* A condition built from known values is a condition.
LEMMA CondType ==
    ASSUME NEW v \in TruthValue, NEW r \in Reason, NEW g \in Nat
    PROVE  Cond(v, r, g) \in Condition
  BY DEF Cond, Condition

\* Truth always gives a condition status.
LEMMA TruthType == \A b \in BOOLEAN : Truth(b) \in TruthValue
  BY DEF Truth, TruthValue

\* catalogDataImageImportHealth returns a status and a reason.
LEMMA ImportHealthType ==
    ASSUME NEW s \in Stream
    PROVE  /\ ImportHealth(s).st \in TruthValue
           /\ ImportHealth(s).reason \in Reason
  BY DEF ImportHealth, TruthValue, Reason

\* The evidence is a status with a generation.
LEMMA ImportEvidenceType ==
    ASSUME NEW t, NEW gen, NEW st, NEW s \in Stream
    PROVE  ImportEvidence(t, gen, st, s) \in Evidence
  <1>1. s.gen \in Nat
    BY DEF Stream
  <1>2. ImportHealth(s).st \in TruthValue
    BY ImportHealthType
  <1> QED
    BY <1>1, <1>2 DEF ImportEvidence, Evidence, TruthValue

\* Every branch of resolveCatalogDataImages yields an image and conditions.
LEMMA ResolveTargetType ==
    ASSUME NEW t \in Targets, NEW sel \in Selection, NEW gen \in Nat, NEW st,
           NEW s \in Stream, NEW applied \in Image, NEW io \in IOResult
    PROVE  ResolveTarget(t, sel, gen, st, s, applied, io) \in OutcomeType
  <1> DEFINE ev == ImportEvidence(t, gen, st, s)
             h  == ImportHealth(s)
  <1>1. h.st \in TruthValue /\ h.reason \in Reason
    BY ImportHealthType
  <1>2. ev \in Evidence /\ NoEvidence \in Evidence
    BY ImportEvidenceType DEF NoEvidence, Evidence
  <1>3. "release" \in Image /\ (s.good # "none" => s.good \in Image)
    BY DEF Image, Stream
  <1>4. ASSUME NEW i \in Image, NEW v \in TruthValue, NEW r \in Reason,
               NEW hv \in TruthValue, NEW hr \in Reason, NEW e \in Evidence
        PROVE  Outcome(i, v, r, hv, hr, e, gen) \in OutcomeType
    BY <1>4, CondType DEF Outcome, OutcomeType
  <1> HIDE DEF ev, h
  <1>5. ResolveFollowed(t, gen, st, s, applied, io) \in OutcomeType
    <2>1. {"True", "False", "Unknown"} \subseteq TruthValue
      BY DEF TruthValue
    <2>2. {"ImageStreamUnavailable", "AwaitingSuccessfulImport",
           "ImageStreamResolved", "AppliedImageReadFailed",
           "NoSuccessfulImport"} \subseteq Reason
      BY DEF Reason
    <2> QED
      BY <1>1, <1>2, <1>3, <1>4, <2>1, <2>2 DEF ResolveFollowed, h, ev
  <1>6. sel \in Digests => sel \in Image
    BY DEF Image
  <1>7. {"True", "False"} \subseteq TruthValue
    BY DEF TruthValue
  <1>8. {"NotTrackingImageStream", "InvalidDataImageSelection", "ReleaseDefault",
         "DigestPinned", "UnsupportedDataImageSelection"} \subseteq Reason
    BY DEF Reason
  <1> QED
    BY <1>2, <1>3, <1>4, <1>5, <1>6, <1>7, <1>8 DEF ResolveTarget

\* Aggregation picks one of the two conditions.
LEMMA AggregateType ==
    ASSUME NEW cs \in [Targets -> Condition], NEW gen \in Nat
    PROVE  /\ Aggregate(cs, gen) \in Condition
           /\ Aggregate(cs, gen).reason \in Reason
  <1>1. cs["catalog"] \in Condition /\ cs["benchmark"] \in Condition
    BY DEF Targets
  <1>2. "IndependentSelections" \in Reason
    BY DEF Reason
  <1> QED
    BY <1>1, <1>2 DEF Aggregate, Cond, Condition

\* The reducer only writes two conditions and observedGeneration.
LEMMA ReduceType ==
    ASSUME NEW st \in Status, NEW gen \in Nat
    PROVE  /\ Reduce(st, gen) \in Status
           /\ Reduce(st, gen).act = st.act
           /\ Reduce(st, gen).images = st.images
  <1>1. "" \in Reason
    BY DEF Reason
  <1>2. Truth(IsDegraded(st.conds, gen)) \in TruthValue
    BY DEF Truth, TruthValue
  <1>3. Truth(IsReady(st.conds, st.act, gen)) \in TruthValue
    BY DEF Truth, TruthValue
  <1> DEFINE d == Cond(Truth(IsDegraded(st.conds, gen)), "", gen)
             r == Cond(Truth(IsReady(st.conds, st.act, gen)), "", gen)
  <1>4. d \in Condition /\ r \in Condition
    BY <1>1, <1>2, <1>3, CondType
  <1> HIDE DEF d, r
  <1>5. ReduceConds(st.conds, st.act, gen)
          = [st.conds EXCEPT !.degraded = d, !.ready = r]
    BY DEF ReduceConds, d, r
  <1>6. ReduceConds(st.conds, st.act, gen) \in Conds
    BY <1>4, <1>5 DEF Status, Conds
  <1> QED
    BY <1>6 DEF Reduce, Status

\* The streams stay streams when they are ensured.
LEMMA EnsuredType ==
    ASSUME TypeOK, NEW sp \in CatalogSpec, NEW io \in IOResults
    PROVE  Ensured(sp, io) \in [Targets -> Stream]
  BY DEF TypeOK, Ensured, Stream

\* The outcomes of a pass are typed.
LEMMA OutcomesType ==
    ASSUME TypeOK, NEW sp \in CatalogSpec, NEW st \in Status, NEW io \in IOResults
    PROVE  Outcomes(sp, st, io) \in [Targets -> OutcomeType]
  <1>1. ASSUME NEW t \in Targets
        PROVE  /\ sp.sel[t] \in Selection /\ sp.gen \in Nat
               /\ Ensured(sp, io)[t] \in Stream
               /\ AppliedImage(t) \in Image
               /\ io[t] \in IOResult
    BY <1>1, EnsuredType
       DEF CatalogSpec, AppliedImage, TypeOK, Deployment, Image, IOResults
  <1> QED
    BY <1>1, ResolveTargetType DEF Outcomes

\* resolveCatalogDataImages leaves the activation record alone.
LEMMA ResolvedType ==
    ASSUME NEW st \in Status, NEW out \in [Targets -> OutcomeType], NEW gen \in Nat
    PROVE  /\ Resolved(st, out, gen) \in Status
           /\ Resolved(st, out, gen).act = st.act
  <1> DEFINE agg == Aggregate([t \in Targets |-> out[t].res], gen)
             images == IF agg.st = "True" THEN [t \in Targets |-> out[t].image]
                       ELSE NoImages
             conds == [st.conds EXCEPT
                         !.res      = [t \in Targets |-> out[t].res],
                         !.health   = [t \in Targets |-> out[t].health],
                         !.resolved = agg,
                         !.blocked  = Cond(Truth(Faulty(out)), "", gen),
                         !.workload = IF images # st.images
                                      THEN Cond("False", "ImagesUpdating", gen)
                                      ELSE @]
  <1>1. /\ [t \in Targets |-> out[t].res] \in [Targets -> Condition]
        /\ [t \in Targets |-> out[t].health] \in [Targets -> Condition]
        /\ [t \in Targets |-> out[t].image] \in [Targets -> Image]
    BY DEF OutcomeType
  <1>2. agg \in Condition
    BY <1>1, AggregateType
  <1>3. images \in [Targets -> Image \cup {"none"}]
    BY <1>1 DEF NoImages
  <1>4. Cond(Truth(Faulty(out)), "", gen) \in Condition
    <2>1. Truth(Faulty(out)) \in TruthValue /\ "" \in Reason
      BY DEF Truth, TruthValue, Reason
    <2> QED
      BY <2>1, CondType
  <1>5. Cond("False", "ImagesUpdating", gen) \in Condition
    <2>1. "False" \in TruthValue /\ "ImagesUpdating" \in Reason
      BY DEF TruthValue, Reason
    <2> QED
      BY <2>1, CondType
  <1> HIDE DEF agg, images
  <1>6. conds \in Conds
    BY <1>1, <1>2, <1>4, <1>5 DEF Status, Conds
  <1> HIDE DEF conds
  <1>7. [st EXCEPT !.images = images, !.conds = conds] \in Status
    BY <1>3, <1>6 DEF Status
  <1>8. Resolved(st, out, gen)
          = Reduce([st EXCEPT !.images = images, !.conds = conds], gen)
    BY DEF Resolved, conds, images, agg
  <1>9. [st EXCEPT !.images = images, !.conds = conds].act = st.act
    BY DEF Status
  <1> QED
    BY <1>7, <1>8, <1>9, ReduceType

\* The fingerprint's inputs are typed.
LEMMA RequestOfType ==
    ASSUME NEW sp \in CatalogSpec, NEW out \in [Targets -> OutcomeType],
           NEW st \in Status
    PROVE  RequestOf(sp, out, st) \in Request
  <1>1. [t \in Targets |-> out[t].image] \in [Targets -> Image]
    BY DEF OutcomeType
  <1>2. [t \in Targets |-> out[t].evidence] \in [Targets -> Evidence]
    BY DEF OutcomeType
  <1>3. sp.sel \in [Targets -> Selection] /\ sp.retry \in Retries
    BY DEF CatalogSpec
  <1>4. st.conds.resolved \in Condition
    BY DEF Status, Conds
  <1>5. ASSUME NEW sel, NEW image
        PROVE  AllowLegacyRuntimeFile(sel, image) \in BOOLEAN
    BY DEF AllowLegacyRuntimeFile
  <1> QED
    BY <1>1, <1>2, <1>3, <1>4, <1>5 DEF RequestOf, Request, Condition, Evidence

\* prepareActivation keeps the attempt, and then a failure too, or starts id.
LEMMA PreparedType ==
    ASSUME NEW st \in Status, NEW req \in Request, NEW gen \in Nat, NEW id \in Nat
    PROVE  LET new == Prepared(st, req, gen, id)
           IN  /\ new \in Status
               /\ \/ new.act.attempt = id
                  \/ /\ new.act.attempt = st.act.attempt
                     /\ st.act.state = "Failed" => new.act.state = "Failed"
  <1> DEFINE act == IF IsNewRequest(st.act, req)
                    THEN NewAttempt(st.act, req, id) ELSE st.act
             unr == Unresolved(act, st.conds.resolved)
  <1>1. st.act \in Activation
    BY DEF Status
  <1>2. NewAttempt(st.act, req, id) \in Activation
    BY <1>1, DeadlineAssumption DEF NewAttempt, Activation, Request, Never
  <1>3. act \in Activation
    BY <1>1, <1>2
  <1>4. \/ act = st.act
        \/ act.attempt = id
    BY DEF NewAttempt
  <1> HIDE DEF act
  <1>5. /\ unr \in Activation
        /\ unr.attempt = act.attempt
        /\ act.state = "Failed" => unr.state = "Failed"
    BY <1>3 DEF Unresolved, Activation
  <1> HIDE DEF unr
  <1> DEFINE x == [st EXCEPT !.act = unr]
  <1>6. x \in Status /\ x.act = unr
    BY <1>5 DEF Status
  <1>7. Prepared(st, req, gen, id) = Reduce(x, gen)
    BY DEF Prepared, act, unr
  <1> HIDE DEF x
  <1>8. /\ Prepared(st, req, gen, id) \in Status
        /\ Prepared(st, req, gen, id).act = unr
    <2>1. Reduce(x, gen) \in Status /\ Reduce(x, gen).act = x.act
      BY <1>6, ReduceType
    <2> QED
      BY <1>6, <1>7, <2>1, Zenon
  <1> QED
    BY <1>4, <1>5, <1>8

\* observeActivation keeps the attempt, and leaves a failed one alone.
LEMMA ObservedActivationType ==
    ASSUME NEW act \in Activation, NEW failure, NEW ready \in BOOLEAN
    PROVE  LET new == ObservedActivation(act, failure, ready)
           IN  /\ new \in Activation
               /\ new.attempt = act.attempt
               /\ act.state = "Failed" => new = act
  <1>1. Never \in Nat /\ 0 \in 0 .. Never /\ Never \in 0 .. Never
    BY DeadlineAssumption DEF Never
  <1>2. RecoveryStart(act) \in 0 .. Never
    BY <1>1 DEF RecoveryStart, Activation
  <1>3. Retrying(act) \in Activation /\ Retrying(act).attempt = act.attempt
    BY <1>1, <1>2 DEF Retrying, Activation
  <1>4. Succeeded(act) \in Activation /\ Succeeded(act).attempt = act.attempt
    BY <1>1 DEF Succeeded, Activation
  <1>5. ASSUME NEW r \in {"Invalid", "TimedOut"}
        PROVE  /\ [act EXCEPT !.state = "Failed", !.reason = r] \in Activation
               /\ [act EXCEPT !.state = "Failed", !.reason = r].attempt = act.attempt
    BY <1>5 DEF Activation
  <1> QED
    BY <1>3, <1>4, <1>5 DEF ObservedActivation

\* updateStatus keeps the attempt, and leaves a failed one alone.
LEMMA ObservedType ==
    ASSUME NEW st \in Status, NEW gen \in Nat
    PROVE  /\ Observed(st, gen) \in Status
           /\ Observed(st, gen).act.attempt = st.act.attempt
           /\ st.act.state = "Failed" => Observed(st, gen).act = st.act
  <1> DEFINE ready == Validated(st.act)
             act   == ObservedActivation(st.act, PodFailure(st.act), ready)
             conds == [st.conds EXCEPT
                    !.actReady  = Cond(Truth(act.state = "Succeeded" /\ ready),
                                       "", gen),
                    !.actFailed = IF act.state # "Pending" \/ @.st = "None"
                                  THEN Cond(Truth(act.state = "Failed"), "", gen)
                                  ELSE @,
                    !.workload  = IF DeploymentAvailable(st.images)
                                  THEN Cond("True", "DeploymentAvailable", gen)
                                  ELSE Cond("False", "DeploymentUnavailable", gen)]
  <1>1. ready \in BOOLEAN
    BY DEF Validated, PodOf, DeploymentAvailable
  <1>2. st.act \in Activation
    BY DEF Status
  <1>3. /\ act \in Activation
        /\ act.attempt = st.act.attempt
        /\ st.act.state = "Failed" => act = st.act
    BY <1>1, <1>2, ObservedActivationType
  <1>4. ASSUME NEW b PROVE Truth(b) \in TruthValue
    BY DEF Truth, TruthValue
  <1>5. /\ {"", "DeploymentAvailable", "DeploymentUnavailable"} \subseteq Reason
        /\ {"True", "False"} \subseteq TruthValue
    BY DEF Reason, TruthValue
  <1> HIDE DEF ready, act
  <1>6. /\ Cond(Truth(act.state = "Succeeded" /\ ready), "", gen) \in Condition
        /\ Cond(Truth(act.state = "Failed"), "", gen) \in Condition
        /\ Cond("True", "DeploymentAvailable", gen) \in Condition
        /\ Cond("False", "DeploymentUnavailable", gen) \in Condition
    BY <1>4, <1>5, CondType
  <1>7. conds \in Conds
    BY <1>6 DEF Status, Conds
  <1> HIDE DEF conds
  <1>8. /\ [st EXCEPT !.act = act, !.conds = conds] \in Status
        /\ [st EXCEPT !.act = act, !.conds = conds].act = act
    BY <1>3, <1>7 DEF Status
  <1>9. Observed(st, gen) = Reduce([st EXCEPT !.act = act, !.conds = conds], gen)
    BY DEF Observed, conds, act, ready
  <1> QED
    BY <1>3, <1>8, <1>9, ReduceType

\* A merge of typed statuses is a typed status. Its activation takes each field
\* from the persisted one or from the one in memory.
LEMMA MergeActivationType ==
    ASSUME NEW cur \in Activation, NEW b \in Activation, NEW a \in Activation
    PROVE  LET new == MergeActivation(cur, b, a)
           IN  /\ new \in Activation
               /\ new.attempt \in {cur.attempt, a.attempt}
               /\ new.state \in {cur.state, a.state}
               /\ cur = b => new.attempt = a.attempt
  <1>1. KeepEach(cur.images, b.images, a.images) \in [Targets -> Image]
    BY DEF KeepEach, Keep, Activation
  <1>2. CASE a = b \/ b.attempt = 0
    BY <1>2 DEF MergeActivation
  <1>3. CASE a # b /\ b.attempt # 0
    <2>1. MergeActivation(cur, b, a) =
            [attempt   |-> Keep(cur.attempt, b.attempt, a.attempt),
             request   |-> Keep(cur.request, b.request, a.request),
             images    |-> KeepEach(cur.images, b.images, a.images),
             state     |-> Keep(cur.state, b.state, a.state),
             reason    |-> Keep(cur.reason, b.reason, a.reason),
             started   |-> Keep(cur.started, b.started, a.started),
             recovered |-> Keep(cur.recovered, b.recovered, a.recovered),
             last      |-> Keep(cur.last, b.last, a.last)]
      BY <1>3 DEF MergeActivation
    <2>2. /\ Keep(cur.attempt, b.attempt, a.attempt) \in Nat
          /\ Keep(cur.request, b.request, a.request) \in Request
          /\ Keep(cur.state, b.state, a.state)
                \in {"None", "Pending", "Succeeded", "Failed"}
          /\ Keep(cur.reason, b.reason, a.reason)
                \in {"None", "ActivationPending", "Import", "WorkloadValidated",
                     "Retrying", "TimedOut", "Invalid"}
          /\ Keep(cur.started, b.started, a.started) \in 0 .. Never
          /\ Keep(cur.recovered, b.recovered, a.recovered) \in 0 .. Never
          /\ Keep(cur.last, b.last, a.last) \in Nat
      BY DEF Keep, Activation
    <2>3. MergeActivation(cur, b, a) \in Activation
      BY <1>1, <2>1, <2>2 DEF Activation
    <2> QED
      BY <2>1, <2>3 DEF Keep
  <1> QED
    BY <1>2, <1>3

\* A status patch gives a typed status; its attempt and its state each come
\* from the persisted status or from the one in memory.
LEMMA PatchedType ==
    ASSUME TypeOK, NEW b \in Status, NEW a \in Status
    PROVE  LET new == Patched(b, a)
           IN  /\ new \in Status
               /\ new.act.attempt \in {status.act.attempt, a.act.attempt}
               /\ new.act.state \in {status.act.state, a.act.state}
               /\ (b = status /\ a # b) => new.act.attempt = a.act.attempt
  <1>1. status \in Status
    BY DEF TypeOK
  <1>2. CASE a = b
    BY <1>1, <1>2 DEF Patched
  <1>3. CASE a # b
    <2> DEFINE act == MergeActivation(status.act, b.act, a.act)
               images == KeepEach(status.images, b.images, a.images)
    <2>1. /\ act \in Activation
          /\ act.attempt \in {status.act.attempt, a.act.attempt}
          /\ act.state \in {status.act.state, a.act.state}
          /\ b = status => act.attempt = a.act.attempt
      BY <1>1, MergeActivationType DEF Status
    <2>2. images \in [Targets -> Image \cup {"none"}]
      BY <1>1 DEF KeepEach, Keep, Status
    <2> HIDE DEF act, images
    <2>3. Patched(b, a) = [obs    |-> Keep(status.obs, b.obs, a.obs),
                           images |-> images,
                           act    |-> act,
                           conds  |-> Keep(status.conds, b.conds, a.conds)]
      BY <1>3 DEF Patched, Merge, act, images
    <2>4. /\ Keep(status.obs, b.obs, a.obs) \in Nat
          /\ Keep(status.conds, b.conds, a.conds) \in Conds
      BY <1>1 DEF Keep, Status
    <2> QED
      BY <2>1, <2>2, <2>3, <2>4 DEF Status
  <1> QED
    BY <1>2, <1>3

\* handleReconcileErrors keeps the activation record.
LEMMA UnavailableType ==
    ASSUME NEW st \in Status, NEW gen \in Nat,
           NEW v \in TruthValue, NEW r \in Reason
    PROVE  LET new == Reduce([st EXCEPT !.conds.workload = Cond(v, r, gen)], gen)
           IN  new \in Status /\ new.act = st.act
  <1>1. Cond(v, r, gen) \in Condition
    BY CondType
  <1>2. [st.conds EXCEPT !.workload = Cond(v, r, gen)] \in Conds
    BY <1>1 DEF Status, Conds
  <1>3. /\ [st EXCEPT !.conds.workload = Cond(v, r, gen)] \in Status
        /\ [st EXCEPT !.conds.workload = Cond(v, r, gen)].act = st.act
    BY <1>2 DEF Status
  <1> QED
    BY <1>3, ReduceType

\* Older keeps an age within its range.
LEMMA OlderType ==
    ASSUME NEW a \in 0 .. Never PROVE Older(a) \in 0 .. Never
  BY DeadlineAssumption DEF Older, Never

\* Ageing a status changes its two timestamps only.
LEMMA OlderStatusType ==
    ASSUME NEW s \in Status
    PROVE  /\ OlderStatus(s) \in Status
           /\ OlderStatus(s).act.attempt = s.act.attempt
           /\ OlderStatus(s).act.state = s.act.state
  <1>1. s.act \in Activation
    BY DEF Status
  <1>2. Older(s.act.started) \in 0 .. Never /\ Older(s.act.recovered) \in 0 .. Never
    BY <1>1, OlderType DEF Activation
  <1> DEFINE act == [s.act EXCEPT !.started = Older(@), !.recovered = Older(@)]
  <1>3. /\ act \in Activation
        /\ act.attempt = s.act.attempt /\ act.state = s.act.state
    BY <1>1, <1>2 DEF Activation
  <1>4. OlderStatus(s) = [s EXCEPT !.act = act]
    BY <1>1 DEF OlderStatus, Status, Activation
  <1> HIDE DEF act
  <1> QED
    BY <1>3, <1>4 DEF Status

-----------------------------------------------------------------------------
(***************************************************************************)
(* Type correctness                                                         *)
(***************************************************************************)
\* The empty status, and the reconciler between two passes.
LEMMA IdleType == NoStatus \in Status /\ Idle \in Reconciler
  <1>1. NoCond \in Condition
    BY DEF NoCond, Cond, Condition, Reason
  <1>2. NoConds \in Conds
    BY <1>1 DEF NoConds, Conds
  <1>3. NoRequest \in Request
    <2>1. (CHOOSE r \in Retries : TRUE) \in Retries
      BY RetriesAssumption
    <2> QED
      BY <2>1 DEF NoRequest, Request, Selection, Image, Reason, NoEvidence
  <1>4. NoActivation \in Activation
    BY <1>3, DeadlineAssumption DEF NoActivation, Activation, Image, Never
  <1>5. NoStatus \in Status
    BY <1>2, <1>4 DEF NoStatus, Status, NoImages
  <1> QED
    BY <1>5 DEF Idle, Reconciler, PC

\* The ends of a pass: the reconciler is idle and the queue typed.
LEMMA FinishType ==
    ASSUME TypeOK, NEW wake \in BOOLEAN, NEW later \in BOOLEAN,
           Finish(wake, later)
    PROVE  /\ rec' = Idle /\ rec' \in Reconciler
           /\ lock' = [cat |-> TRUE, dep |-> TRUE]
           /\ lock' \in [cat : BOOLEAN, dep : BOOLEAN]
           /\ queue' \in [now : BOOLEAN, later : BOOLEAN]
  BY IdleType DEF Finish, Wake, TypeOK

\* The queue stays typed whenever it is woken.
LEMMA WakeType ==
    ASSUME TypeOK, NEW wake \in BOOLEAN, NEW later \in BOOLEAN, Wake(wake, later)
    PROVE  queue' \in [now : BOOLEAN, later : BOOLEAN]
  BY DEF Wake, TypeOK

\* A status write leaves typed copies at the server and in the informer.
LEMMA WriteStatusType ==
    ASSUME TypeOK, NEW new \in Status, WriteStatus(new)
    PROVE  /\ status' = new /\ status' \in Status
           /\ cache' \in [spec : CatalogSpec, status : Status, fresh : BOOLEAN]
           /\ cache'.status \in {cache.status, new}
           /\ (cache'.fresh /\ (cache.fresh => cache.status = status))
                => cache'.status = new
  <1>1. cache \in [spec : CatalogSpec, status : Status, fresh : BOOLEAN]
    BY DEF TypeOK
  <1>2. CASE new = status
    BY <1>1, <1>2 DEF WriteStatus
  <1>3. CASE new # status /\ StaleCache
    <2>1. status' = new /\ cache' = [cache EXCEPT !.fresh = FALSE]
      BY <1>3 DEF WriteStatus, Informed
    <2>2. cache'.fresh = FALSE
      BY <1>1, <2>1
    <2> QED
      BY <1>1, <2>1, <2>2
  <1>4. CASE new # status /\ ~StaleCache
    <2>1. status' = new /\ cache' = [spec |-> spec, status |-> new, fresh |-> TRUE]
      BY <1>4 DEF WriteStatus, Informed
    <2> QED
      BY <2>1 DEF TypeOK
  <1> QED
    BY <1>2, <1>3, <1>4

\* What the reconciler holds is typed.
LEMMA RecType ==
    ASSUME TypeOK
    PROVE  /\ rec.base \in Status /\ rec.st \in Status /\ rec.gen \in Nat
           /\ rec.err \in BOOLEAN /\ rec.saw \in BOOLEAN /\ rec.pc \in PC
           /\ rec.mode \in {"normal", "fault", "error"}
  BY DEF TypeOK, Reconciler

\* The attempt number is a number in every copy of the status.
LEMMA AttemptType ==
    ASSUME NEW st \in Status
    PROVE  st.act.attempt \in Nat
  BY DEF Status, Activation

\* The counters after a status write.
LEMMA PersistedType ==
    ASSUME TypeOK, NEW new \in Status
    PROVE  /\ Persisted(new) \in Nat
           /\ new.act.attempt <= Persisted(new)
           /\ count.attempts <= Persisted(new)
           /\ new.act.attempt <= count.attempts => Persisted(new) = count.attempts
  BY AttemptType DEF Persisted, TypeOK

\* The observation of readiness after a status write.
LEMMA SinceReadyType ==
    ASSUME TypeOK, NEW new
    PROVE  SinceReady(new) \in 0 .. Never
  BY DeadlineAssumption DEF SinceReady, TypeOK, Never

LEMMA SeenReadyType ==
    ASSUME TypeOK, NEW new
    PROVE  SeenReady(new) \in 0 .. Never
  <1>1. /\ SinceReady(new) \in 0 .. Never
        /\ Never \in 0 .. Never /\ 0 \in 0 .. Never
        /\ ghost.seenReady \in 0 .. Never
    BY SinceReadyType, DeadlineAssumption DEF Never, TypeOK
  <1> QED
    BY <1>1 DEF SeenReady

\* Poll and PatchAllowed are conditions.
LEMMA BooleanType ==
    /\ \A st : Poll(st) \in BOOLEAN
    /\ \A new : OwnWrite(new) \in BOOLEAN
  BY DEF Poll, OwnWrite

\* Containment keeps the activation record in memory, or ends the pass.
LEMMA AfterContainType ==
    ASSUME TypeOK, NEW err \in BOOLEAN, NEW event \in BOOLEAN,
           AfterContain(err, event)
    PROVE  /\ rec' \in Reconciler
           /\ \/ rec' = Idle /\ lock' = [cat |-> TRUE, dep |-> TRUE]
              \/ /\ rec'.pc = "record" /\ rec'.base = rec.base
                 /\ rec'.st.act = rec.st.act /\ lock'.cat = lock.cat
           /\ lock' \in [cat : BOOLEAN, dep : BOOLEAN]
           /\ queue' \in [now : BOOLEAN, later : BOOLEAN]
  <1>1. CASE rec.mode = "fault"
    <2> DEFINE x == Reduce([rec.st EXCEPT !.conds.workload =
                       Cond("Unknown", "CatalogContainmentFailed", rec.gen)], rec.gen)
               y == Reduce(rec.st, rec.gen)
    <2>1. "Unknown" \in TruthValue /\ "CatalogContainmentFailed" \in Reason
      BY DEF TruthValue, Reason
    <2>2. x \in Status /\ x.act = rec.st.act
      BY <2>1, RecType, UnavailableType
    <2>3. y \in Status /\ y.act = rec.st.act
      BY RecType, ReduceType
    <2> HIDE DEF x, y
    <2>4. /\ rec' = [rec EXCEPT !.pc = "record", !.err = rec.err \/ err,
                                !.st = IF err THEN x ELSE y]
          /\ lock' = [lock EXCEPT !.dep = TRUE]
          /\ Wake(event, FALSE)
      BY <1>1 DEF AfterContain, x, y
    <2>5. (IF err THEN x ELSE y) \in Status /\ (IF err THEN x ELSE y).act = rec.st.act
      BY <2>2, <2>3
    <2>6. rec' \in Reconciler
      BY <2>4, <2>5 DEF TypeOK, Reconciler, PC
    <2>7. rec'.pc = "record" /\ rec'.base = rec.base /\ rec'.st.act = rec.st.act
      BY <2>4, <2>5 DEF TypeOK, Reconciler
    <2>8. lock' \in [cat : BOOLEAN, dep : BOOLEAN] /\ lock'.cat = lock.cat
      BY <2>4 DEF TypeOK
    <2> QED
      BY <2>4, <2>6, <2>7, <2>8, WakeType
  <1>2. CASE rec.mode # "fault"
    <2>1. Finish(err \/ event, ~err /\ Poll(rec.st))
      BY <1>2 DEF AfterContain
    <2>2. (err \/ event) \in BOOLEAN /\ (~err /\ Poll(rec.st)) \in BOOLEAN
      BY BooleanType
    <2> QED
      BY <2>1, <2>2, FinishType
  <1> QED
    BY <1>1, <1>2

\* A fault uses up one of the bound and nothing else.
LEMMA SpendType ==
    ASSUME TypeOK, Spend
    PROVE  /\ count' \in [edits : Nat, attempts : Nat, faults : Nat]
           /\ count'.attempts = count.attempts
  BY DEF TypeOK, Spend

\* Begin: the status prepared in memory has the attempt that was read, then
\* failed if that one was, or the next new one.
LEMMA BeginStep ==
    ASSUME TypeOK, Begin
    PROVE  /\ TypeOK'
           /\ rec.pc = "idle" /\ rec'.pc = "publish" /\ rec'.base = cache.status
           /\ \/ rec'.st.act.attempt = count.attempts + 1
              \/ /\ rec'.st.act.attempt = cache.status.act.attempt
                 /\ cache.status.act.state = "Failed" => rec'.st.act.state = "Failed"
           /\ count'.attempts = count.attempts
           /\ lock'.cat = cache.fresh
           /\ UNCHANGED <<status, cache, dep, pod>>
  <1> DEFINE sp == cache.spec
             out(io) == Outcomes(sp, cache.status, io)
             st(io)  == Resolved(cache.status, out(io), sp.gen)
             new(io) == Prepared(st(io), RequestOf(sp, out(io), st(io)), sp.gen,
                                 count.attempts + 1)
  <1>1. PICK io \in IOResults :
           /\ rec' = [pc |-> "publish",
                      mode |-> IF Faulty(out(io)) THEN "fault" ELSE "normal",
                      gen |-> sp.gen, base |-> cache.status, st |-> new(io),
                      err |-> io # AllOK, saw |-> FALSE]
           /\ stream' = Ensured(sp, io)
           /\ IF io = AllOK THEN UNCHANGED count ELSE Spend
    BY DEF Begin
  <1>2. /\ sp \in CatalogSpec /\ cache.status \in Status /\ cache.fresh \in BOOLEAN
        /\ sp.gen \in Nat /\ count.attempts + 1 \in Nat
    BY DEF TypeOK, CatalogSpec
  <1>3. out(io) \in [Targets -> OutcomeType]
    BY <1>2, OutcomesType
  <1>4. st(io) \in Status /\ st(io).act = cache.status.act
    BY <1>2, <1>3, ResolvedType
  <1>5. RequestOf(sp, out(io), st(io)) \in Request
    BY <1>2, <1>3, <1>4, RequestOfType
  <1> HIDE DEF st, out
  <1>6. /\ new(io) \in Status
        /\ \/ new(io).act.attempt = count.attempts + 1
           \/ /\ new(io).act.attempt = cache.status.act.attempt
              /\ cache.status.act.state = "Failed" => new(io).act.state = "Failed"
    <2>1. /\ new(io) \in Status
          /\ \/ new(io).act.attempt = count.attempts + 1
             \/ /\ new(io).act.attempt = st(io).act.attempt
                /\ st(io).act.state = "Failed" => new(io).act.state = "Failed"
      <3> DEFINE req == RequestOf(sp, out(io), st(io))
                 id  == count.attempts + 1
      <3> HIDE DEF sp, req, id
      <3>1. st(io) \in Status /\ req \in Request /\ sp.gen \in Nat /\ id \in Nat
        BY <1>2, <1>4, <1>5 DEF req, id
      <3>2. new(io) = Prepared(st(io), req, sp.gen, id)
        BY DEF req, id
      <3> QED
        BY <3>1, <3>2, PreparedType DEF id
    <2> QED
      BY <1>4, <2>1
  <1>7. stream' \in [Targets -> Stream]
    BY <1>1, <1>2, EnsuredType
  <1> HIDE DEF new, sp
  <1>8. rec' \in Reconciler
    BY <1>1, <1>2, <1>6 DEF Reconciler, PC
  <1>9. /\ count' \in [edits : Nat, attempts : Nat, faults : Nat]
        /\ count'.attempts = count.attempts
    BY <1>1 DEF Spend, TypeOK
  <1>10. /\ queue' \in [now : BOOLEAN, later : BOOLEAN]
         /\ lock' \in [cat : BOOLEAN, dep : BOOLEAN]
         /\ lock'.cat = cache.fresh
    BY <1>2 DEF Begin, TypeOK
  <1>11. /\ rec.pc = "idle" /\ rec'.pc = "publish" /\ rec'.base = cache.status
         /\ rec'.st = new(io)
    BY <1>1 DEF Begin
  <1>12. UNCHANGED <<spec, status, cache, dep, pod, ghost>>
    BY DEF Begin
  <1>13. TypeOK'
    BY <1>7, <1>8, <1>9, <1>10, <1>12 DEF TypeOK
  <1> QED
    BY <1>6, <1>9, <1>10, <1>11, <1>12, <1>13

\* BeginFails: the activation record in memory is the one that was read.
LEMMA BeginFailsStep ==
    ASSUME TypeOK, BeginFails
    PROVE  /\ TypeOK'
           /\ rec.pc = "idle" /\ rec'.pc = "record" /\ rec'.base = cache.status
           /\ rec'.st.act = cache.status.act
           /\ count'.attempts = count.attempts
           /\ lock'.cat = cache.fresh
           /\ UNCHANGED <<status, cache, dep, pod>>
  <1> DEFINE sp == cache.spec
             out == Outcomes(sp, cache.status, AllOK)
             st(b) == IF b THEN Resolved(cache.status, out, sp.gen) ELSE cache.status
  <1>1. PICK resolved \in BOOLEAN :
           /\ rec' = [pc |-> "record", mode |-> "error", gen |-> sp.gen,
                      base |-> cache.status, err |-> TRUE, saw |-> FALSE,
                      st |-> Unavailable(st(resolved), sp.gen)]
           /\ stream' = IF resolved THEN Ensured(sp, AllOK) ELSE stream
    BY DEF BeginFails
  <1>2. /\ sp \in CatalogSpec /\ cache.status \in Status /\ cache.fresh \in BOOLEAN
        /\ sp.gen \in Nat /\ AllOK \in IOResults
    BY DEF TypeOK, CatalogSpec, IOResult, IOResults, AllOK
  <1>3. out \in [Targets -> OutcomeType]
    BY <1>2, OutcomesType
  <1>4. /\ Resolved(cache.status, out, sp.gen) \in Status
        /\ Resolved(cache.status, out, sp.gen).act = cache.status.act
    BY <1>2, <1>3, ResolvedType
  <1>5. st(resolved) \in Status /\ st(resolved).act = cache.status.act
    BY <1>2, <1>4
  <1> HIDE DEF st, out
  <1>6. /\ Unavailable(st(resolved), sp.gen) \in Status
        /\ Unavailable(st(resolved), sp.gen).act = cache.status.act
    <2>1. "False" \in TruthValue /\ "ResourcesUnavailable" \in Reason
      BY DEF TruthValue, Reason
    <2> QED
      BY <1>2, <1>5, <2>1, UnavailableType DEF Unavailable
  <1>7. stream' \in [Targets -> Stream]
    BY <1>1, <1>2, EnsuredType DEF TypeOK
  <1> HIDE DEF sp
  <1>8. rec' \in Reconciler
    BY <1>1, <1>2, <1>6 DEF Reconciler, PC
  <1>9. /\ count' \in [edits : Nat, attempts : Nat, faults : Nat]
        /\ count'.attempts = count.attempts
    BY DEF BeginFails, Spend, TypeOK
  <1>10. /\ queue' \in [now : BOOLEAN, later : BOOLEAN]
         /\ lock' \in [cat : BOOLEAN, dep : BOOLEAN]
         /\ lock'.cat = cache.fresh
    BY <1>2 DEF BeginFails, TypeOK
  <1>11. /\ rec.pc = "idle" /\ rec'.pc = "record" /\ rec'.base = cache.status
         /\ rec'.st.act = cache.status.act
    BY <1>1, <1>6 DEF BeginFails
  <1>12. UNCHANGED <<spec, status, cache, dep, pod, ghost>>
    BY DEF BeginFails
  <1>13. TypeOK'
    BY <1>7, <1>8, <1>9, <1>10, <1>12 DEF TypeOK
  <1> QED
    BY <1>9, <1>10, <1>11, <1>12, <1>13

\* What a status patch of this pass writes.
LEMMA PatchStep ==
    ASSUME TypeOK
    PROVE  LET new == Patched(rec.base, rec.st)
           IN  /\ new \in Status
               /\ new.act.attempt \in {status.act.attempt, rec.st.act.attempt}
               /\ new.act.state \in {status.act.state, rec.st.act.state}
               /\ (rec.base = status /\ rec.st # rec.base)
                     => new.act.attempt = rec.st.act.attempt
               /\ rec.st = rec.base => new = status
  <1>1. rec.base \in Status /\ rec.st \in Status
    BY RecType
  <1>2. rec.st = rec.base => Patched(rec.base, rec.st) = status
    BY DEF Patched
  <1> QED
    BY <1>1, <1>2, PatchedType

\* handleReconcileErrors on the status in memory.
LEMMA UnavailableStep ==
    ASSUME TypeOK
    PROVE  /\ Unavailable(rec.st, rec.gen) \in Status
           /\ Unavailable(rec.st, rec.gen).act = rec.st.act
  <1>1. "False" \in TruthValue /\ "ResourcesUnavailable" \in Reason
    BY DEF TruthValue, Reason
  <1> QED
    BY <1>1, RecType, UnavailableType DEF Unavailable

\* Publish: the written status is the one in memory from here on.
LEMMA PublishStep ==
    ASSUME TypeOK, Publish
    PROVE  LET new == Patched(rec.base, rec.st)
           IN  /\ TypeOK'
               /\ rec.pc = "publish" /\ PatchAllowed(rec.base, rec.st)
               /\ WriteStatus(new)
               /\ rec'.pc \in {"contain", "apply"} /\ rec'.base = rec.base
               /\ rec'.st = IF rec.st = rec.base THEN rec.st ELSE new
               /\ count'.attempts = Persisted(new)
               /\ UNCHANGED <<dep, pod, lock>>
  <1> DEFINE new == Patched(rec.base, rec.st)
             st  == IF rec.st = rec.base THEN rec.st ELSE new
  <1>1. new \in Status
    BY PatchStep
  <1>2. st \in Status
    BY <1>1, RecType
  <1>3. /\ rec.pc = "publish" /\ PatchAllowed(rec.base, rec.st)
        /\ WriteStatus(new)
        /\ rec' = [rec EXCEPT
                     !.pc = IF rec.mode = "fault" THEN "contain" ELSE "apply",
                     !.st = st]
        /\ count' = [count EXCEPT !.attempts = Persisted(new)]
        /\ ghost' = [ghost EXCEPT !.seenReady = SinceReady(new)]
        /\ Wake(OwnWrite(new), FALSE)
        /\ UNCHANGED <<spec, stream, dep, pod, lock>>
    BY DEF Publish
  <1> HIDE DEF new, st
  <1>4. /\ status' \in Status
        /\ cache' \in [spec : CatalogSpec, status : Status, fresh : BOOLEAN]
    BY <1>1, <1>3, WriteStatusType
  <1>5. /\ rec' \in Reconciler
        /\ rec'.pc \in {"contain", "apply"} /\ rec'.base = rec.base /\ rec'.st = st
    BY <1>2, <1>3 DEF TypeOK, Reconciler, PC
  <1>6. /\ count' \in [edits : Nat, attempts : Nat, faults : Nat]
        /\ count'.attempts = Persisted(new)
    BY <1>1, <1>3, PersistedType DEF TypeOK
  <1>7. ghost' \in [proven : SUBSET Nat, seenReady : 0 .. Never]
    BY <1>3, SinceReadyType DEF TypeOK
  <1>8. queue' \in [now : BOOLEAN, later : BOOLEAN]
    BY <1>3, BooleanType, WakeType
  <1>9. TypeOK'
    BY <1>3, <1>4, <1>5, <1>6, <1>7, <1>8 DEF TypeOK
  <1> QED
    BY <1>3, <1>5, <1>6, <1>9 DEF new, st

\* PublishConflict writes nothing.
LEMMA PublishConflictStep ==
    ASSUME TypeOK, PublishConflict
    PROVE  /\ TypeOK'
           /\ rec.pc = "publish"
           /\ \/ rec' = Idle /\ lock' = [cat |-> TRUE, dep |-> TRUE]
              \/ /\ rec'.pc = "contain" /\ rec'.base = rec.base
                 /\ rec'.st = rec.st /\ lock' = lock
           /\ UNCHANGED <<status, cache, dep, pod, count>>
  <1>1. CASE rec.mode = "fault"
    <2>1. rec' = [rec EXCEPT !.pc = "contain"] /\ UNCHANGED <<lock, queue>>
      BY <1>1 DEF PublishConflict
    <2>2. /\ rec' \in Reconciler /\ rec'.pc = "contain"
          /\ rec'.base = rec.base /\ rec'.st = rec.st
      BY <2>1 DEF TypeOK, Reconciler, PC
    <2> QED
      BY <2>1, <2>2 DEF TypeOK, PublishConflict
  <1>2. CASE rec.mode # "fault"
    <2>1. Finish(TRUE, FALSE)
      BY <1>2 DEF PublishConflict
    <2> QED
      BY <2>1, FinishType DEF TypeOK, PublishConflict
  <1> QED
    BY <1>1, <1>2

\* PublishFails: the patch was applied, and the lock is lost, or it was not.
LEMMA PublishFailsStep ==
    ASSUME TypeOK, PublishFails
    PROVE  /\ TypeOK'
           /\ rec.pc = "publish" /\ PatchAllowed(rec.base, rec.st)
           /\ rec.st # rec.base
           /\ \E new \in {status, Patched(rec.base, rec.st)} :
                 /\ WriteStatus(new)
                 /\ count'.attempts = Persisted(new)
                 /\ lock'.cat = (new = status)
           /\ rec'.pc \in {"contain", "record"} /\ rec'.base = rec.base
           /\ rec'.st.act = rec.st.act
           /\ UNCHANGED <<dep, pod>>
  <1>1. PICK new \in {status, Patched(rec.base, rec.st)} :
           /\ WriteStatus(new)
           /\ lock' = [lock EXCEPT !.cat = new = status]
           /\ count' = [count EXCEPT !.attempts = Persisted(new),
                                     !.faults = @ + 1]
           /\ ghost' = [ghost EXCEPT !.seenReady = SinceReady(new)]
           /\ Wake(OwnWrite(new), FALSE)
    BY DEF PublishFails
  <1>2. new \in Status
    BY PatchStep DEF TypeOK
  <1>3. /\ status' \in Status
        /\ cache' \in [spec : CatalogSpec, status : Status, fresh : BOOLEAN]
    BY <1>1, <1>2, WriteStatusType
  <1>4. /\ rec' \in Reconciler
        /\ rec'.pc \in {"contain", "record"} /\ rec'.base = rec.base
        /\ rec'.st.act = rec.st.act
    <2>1. CASE rec.mode = "fault"
      BY <2>1 DEF PublishFails, TypeOK, Reconciler, PC
    <2>2. CASE rec.mode # "fault"
      <3> DEFINE st == Unavailable(rec.st, rec.gen)
      <3>1. st \in Status /\ st.act = rec.st.act
        BY UnavailableStep
      <3>2. rec' = [rec EXCEPT !.pc = "record", !.mode = "error", !.err = TRUE,
                               !.st = st]
        BY <2>2 DEF PublishFails
      <3> HIDE DEF st
      <3> QED
        BY <3>1, <3>2 DEF TypeOK, Reconciler, PC
    <2> QED
      BY <2>1, <2>2
  <1>5. /\ count' \in [edits : Nat, attempts : Nat, faults : Nat]
        /\ count'.attempts = Persisted(new)
    <2>1. Persisted(new) \in Nat
      BY <1>2, PersistedType
    <2>2. count \in [edits : Nat, attempts : Nat, faults : Nat]
      BY DEF TypeOK
    <2>3. count' = [edits |-> count.edits, attempts |-> Persisted(new),
                    faults |-> count.faults + 1]
      BY <1>1, <2>2
    <2> QED
      BY <2>1, <2>2, <2>3
  <1>6. ghost' \in [proven : SUBSET Nat, seenReady : 0 .. Never]
    BY <1>1, SinceReadyType DEF TypeOK
  <1>7. queue' \in [now : BOOLEAN, later : BOOLEAN]
    BY <1>1, BooleanType, WakeType
  <1>8. lock' \in [cat : BOOLEAN, dep : BOOLEAN] /\ lock'.cat = (new = status)
    BY <1>1 DEF TypeOK
  <1>9. /\ UNCHANGED <<spec, stream, dep, pod>> /\ rec.pc = "publish"
        /\ PatchAllowed(rec.base, rec.st) /\ rec.st # rec.base
    BY DEF PublishFails
  <1>10. TypeOK'
    BY <1>3, <1>4, <1>5, <1>6, <1>7, <1>8, <1>9 DEF TypeOK
  <1> QED
    BY <1>1, <1>4, <1>5, <1>8, <1>9, <1>10

\* The template of an attempt makes a Deployment of that attempt.
LEMMA AppliedDeploymentType ==
    ASSUME TypeOK, NEW act \in Activation
    PROVE  /\ AppliedDeployment(act) \in Deployment
           /\ AppliedDeployment(act).attempt = act.attempt
  <1>1. /\ dep \in Deployment
        /\ act.attempt \in Nat /\ act.images \in [Targets -> Image]
        /\ DesiredReplicas(act) \in 0 .. 1
    BY DEF TypeOK, Activation, DesiredReplicas
  <1>2. CASE dep.attempt = act.attempt /\ dep.images = act.images
             /\ dep.replicas = DesiredReplicas(act)
    BY <1>1, <1>2 DEF AppliedDeployment
  <1>3. CASE ~(dep.attempt = act.attempt /\ dep.images = act.images
               /\ dep.replicas = DesiredReplicas(act))
    <2>1. AppliedDeployment(act)
            = [dep EXCEPT !.attempt = act.attempt, !.images = act.images,
                          !.replicas = DesiredReplicas(act), !.up = FALSE]
      BY <1>3 DEF AppliedDeployment
    <2> QED
      BY <1>1, <2>1 DEF Deployment
  <1> QED
    BY <1>2, <1>3

\* Apply, ApplyDeletes and ApplyFails: the Deployment stays, goes, or gets the
\* attempt in memory; the activation record does not change.
LEMMA ApplyStep ==
    ASSUME TypeOK, Apply \/ ApplyDeletes \/ ApplyFails
    PROVE  /\ TypeOK'
           /\ rec.pc = "apply" /\ rec'.pc \in {"observe", "record"}
           /\ rec'.base = rec.base /\ rec'.st.act = rec.st.act
           /\ dep' = dep \/ dep'.attempt \in {0, rec.st.act.attempt}
           /\ count'.attempts = count.attempts
           /\ UNCHANGED <<status, cache, pod, lock>>
  <1>1. /\ NoDeployment \in Deployment /\ NoDeployment.attempt = 0
        /\ dep \in Deployment
        /\ AppliedDeployment(rec.st.act) \in Deployment
        /\ AppliedDeployment(rec.st.act).attempt = rec.st.act.attempt
    <2>1. rec.st.act \in Activation
      BY RecType DEF Status
    <2> QED
      BY <2>1, AppliedDeploymentType DEF NoDeployment, Deployment, Image, TypeOK
  <1>2. /\ dep' \in {dep, NoDeployment, AppliedDeployment(rec.st.act)}
        /\ rec.pc = "apply"
    BY DEF Apply, ApplyDeletes, ApplyFails
  <1>3. dep' \in Deployment /\ (dep' = dep \/ dep'.attempt \in {0, rec.st.act.attempt})
    BY <1>1, <1>2
  <1>4. /\ rec' \in Reconciler /\ rec'.pc \in {"observe", "record"}
        /\ rec'.base = rec.base /\ rec'.st.act = rec.st.act
    <2>1. CASE rec' = [rec EXCEPT !.pc = "observe"]
      BY <2>1 DEF TypeOK, Reconciler, PC
    <2>2. CASE ApplyFails
      <3> DEFINE st == Unavailable(rec.st, rec.gen)
      <3>1. st \in Status /\ st.act = rec.st.act
        BY UnavailableStep
      <3>2. rec' = [rec EXCEPT !.pc = "record", !.mode = "error", !.err = TRUE,
                               !.st = st]
        BY <2>2 DEF ApplyFails
      <3> HIDE DEF st
      <3> QED
        BY <3>1, <3>2 DEF TypeOK, Reconciler, PC
    <2> QED
      BY <2>1, <2>2 DEF Apply, ApplyDeletes
  <1>5. /\ count' \in [edits : Nat, attempts : Nat, faults : Nat]
        /\ count'.attempts = count.attempts
    BY SpendType DEF Apply, ApplyDeletes, ApplyFails, TypeOK
  <1>6. queue' \in [now : BOOLEAN, later : BOOLEAN]
    <2>1. (dep' # dep) \in BOOLEAN
      OBVIOUS
    <2> QED
      BY <2>1, WakeType DEF Apply, ApplyDeletes, ApplyFails
  <1>7. UNCHANGED <<spec, status, cache, stream, pod, lock, ghost>>
    BY DEF Apply, ApplyDeletes, ApplyFails
  <1>8. TypeOK'
    BY <1>3, <1>4, <1>5, <1>6, <1>7 DEF TypeOK
  <1> QED
    BY <1>2, <1>3, <1>4, <1>5, <1>7, <1>8

\* Observe and ObserveFails: the attempt is kept, and a failed one its state.
LEMMA ObserveStep ==
    ASSUME TypeOK, Observe \/ ObserveFails
    PROVE  /\ TypeOK'
           /\ rec.pc = "observe" /\ rec'.pc = "record" /\ rec'.base = rec.base
           /\ rec'.st.act.attempt = rec.st.act.attempt
           /\ rec.st.act.state = "Failed" => rec'.st.act.state = "Failed"
           /\ count'.attempts = count.attempts
           /\ UNCHANGED <<status, cache, dep, pod, lock>>
  <1>1. CASE Observe
    <2> DEFINE st == Observed(rec.st, rec.gen)
               saw == Validated(rec.st.act)
    <2>1. /\ st \in Status /\ st.act.attempt = rec.st.act.attempt
          /\ rec.st.act.state = "Failed" => st.act.state = "Failed"
      BY RecType, ObservedType
    <2>2. saw \in BOOLEAN
      BY DEF Validated, PodOf, DeploymentAvailable
    <2>3. /\ rec.pc = "observe"
          /\ rec' = [rec EXCEPT !.pc = "record", !.st = st, !.saw = saw]
          /\ UNCHANGED <<spec, status, cache, stream, dep, pod, lock, queue, count,
                         ghost>>
      BY <1>1 DEF Observe
    <2> HIDE DEF st, saw
    <2>4. /\ rec' \in Reconciler /\ rec'.pc = "record" /\ rec'.base = rec.base
          /\ rec'.st = st
      BY <2>1, <2>2, <2>3 DEF TypeOK, Reconciler, PC
    <2>5. TypeOK'
      BY <2>3, <2>4 DEF TypeOK
    <2> QED
      BY <2>1, <2>3, <2>4, <2>5
  <1>2. CASE ObserveFails
    <2>1. /\ Cond("Unknown", "WorkloadStatusUnknown", rec.gen) \in Condition
          /\ Cond("Unknown", "ActivationStatusUnknown", rec.gen) \in Condition
          /\ Cond("False", "ActivationStatusUnknown", rec.gen) \in Condition
      BY RecType, CondType DEF TruthValue, Reason
    <2>2. rec.st.conds \in Conds
      BY RecType DEF Status
    <2>3. PICK conds \in
          {[rec.st.conds EXCEPT !.workload =
               Cond("Unknown", "WorkloadStatusUnknown", rec.gen)],
           [rec.st.conds EXCEPT !.workload =
               Cond("Unknown", "ActivationStatusUnknown", rec.gen)],
           [rec.st.conds EXCEPT !.actReady =
               Cond("False", "ActivationStatusUnknown", rec.gen)]} :
             rec' = [rec EXCEPT
                   !.pc = "record", !.mode = "error", !.err = TRUE,
                   !.st = Reduce([rec.st EXCEPT !.conds = conds], rec.gen)]
      BY <1>2 DEF ObserveFails
    <2>4. conds \in Conds
      BY <2>1, <2>2, <2>3 DEF Conds
    <2> DEFINE st == Reduce([rec.st EXCEPT !.conds = conds], rec.gen)
    <2>5. st \in Status /\ st.act = rec.st.act
      <3>1. /\ [rec.st EXCEPT !.conds = conds] \in Status
            /\ [rec.st EXCEPT !.conds = conds].act = rec.st.act
        BY <2>4, RecType DEF Status
      <3> QED
        BY <3>1, RecType, ReduceType
    <2> HIDE DEF st
    <2>6. rec' = [rec EXCEPT !.pc = "record", !.mode = "error", !.err = TRUE,
                             !.st = st]
      BY <2>3 DEF st
    <2>7. /\ rec' \in Reconciler /\ rec'.pc = "record" /\ rec'.base = rec.base
          /\ rec'.st = st
      BY <2>5, <2>6 DEF TypeOK, Reconciler, PC
    <2>8. /\ count' \in [edits : Nat, attempts : Nat, faults : Nat]
          /\ count'.attempts = count.attempts
      BY <1>2 DEF ObserveFails, Spend, TypeOK
    <2>9. /\ rec.pc = "observe"
          /\ UNCHANGED <<spec, status, cache, stream, dep, pod, lock, queue, ghost>>
      BY <1>2 DEF ObserveFails
    <2>10. TypeOK'
      BY <2>7, <2>8, <2>9 DEF TypeOK
    <2> QED
      BY <2>5, <2>7, <2>8, <2>9, <2>10
  <1> QED
    BY <1>1, <1>2

\* Record: the pass ends, or goes on to containment with what was written.
LEMMA RecordStep ==
    ASSUME TypeOK, Record
    PROVE  LET new == Patched(rec.base, rec.st)
           IN  /\ TypeOK'
               /\ rec.pc = "record" /\ PatchAllowed(rec.base, rec.st)
               /\ WriteStatus(new)
               /\ \/ rec' = Idle /\ lock' = [cat |-> TRUE, dep |-> TRUE]
                  \/ /\ rec'.pc = "contain" /\ rec'.base = rec.base /\ lock' = lock
                     /\ rec'.st = IF rec.st = rec.base THEN rec.st ELSE new
               /\ count'.attempts = Persisted(new)
               /\ UNCHANGED <<dep, pod>>
  <1> DEFINE new == Patched(rec.base, rec.st)
             st  == IF rec.st = rec.base THEN rec.st ELSE new
  <1>1. new \in Status
    BY PatchStep
  <1>2. st \in Status
    BY <1>1, RecType
  <1>3. /\ rec.pc = "record" /\ PatchAllowed(rec.base, rec.st)
        /\ WriteStatus(new)
        /\ \/ /\ rec' = [rec EXCEPT !.pc = "contain", !.st = st]
              /\ Wake(OwnWrite(new), FALSE)
              /\ lock' = lock
           \/ Finish(rec.err \/ OwnWrite(new), rec.mode = "normal" /\ Poll(st))
        /\ count' = [count EXCEPT !.attempts = Persisted(new)]
        /\ UNCHANGED <<spec, stream, dep, pod>>
    BY DEF Record
  <1>4. ghost' \in [proven : SUBSET Nat, seenReady : 0 .. Never]
    <2>1. ghost' = [ghost EXCEPT !.seenReady = SeenReady(new)]
      BY DEF Record
    <2> QED
      BY <2>1, SeenReadyType DEF TypeOK
  <1> HIDE DEF new, st
  <1>5. /\ status' \in Status
        /\ cache' \in [spec : CatalogSpec, status : Status, fresh : BOOLEAN]
    BY <1>1, <1>3, WriteStatusType
  <1>6. /\ count' \in [edits : Nat, attempts : Nat, faults : Nat]
        /\ count'.attempts = Persisted(new)
    BY <1>1, <1>3, PersistedType DEF TypeOK
  <1>7. /\ rec' \in Reconciler
        /\ lock' \in [cat : BOOLEAN, dep : BOOLEAN]
        /\ queue' \in [now : BOOLEAN, later : BOOLEAN]
        /\ \/ rec' = Idle /\ lock' = [cat |-> TRUE, dep |-> TRUE]
           \/ /\ rec'.pc = "contain" /\ rec'.base = rec.base /\ lock' = lock
              /\ rec'.st = st
    <2>1. CASE /\ rec' = [rec EXCEPT !.pc = "contain", !.st = st]
               /\ Wake(OwnWrite(new), FALSE)
               /\ lock' = lock
      <3>1. /\ rec' \in Reconciler
            /\ rec'.pc = "contain" /\ rec'.base = rec.base /\ rec'.st = st
        BY <1>2, <2>1 DEF TypeOK, Reconciler, PC
      <3>2. queue' \in [now : BOOLEAN, later : BOOLEAN]
        BY <2>1, BooleanType, WakeType
      <3> QED
        BY <2>1, <3>1, <3>2 DEF TypeOK
    <2>2. CASE Finish(rec.err \/ OwnWrite(new), rec.mode = "normal" /\ Poll(st))
      <3>1. /\ (rec.err \/ OwnWrite(new)) \in BOOLEAN
            /\ (rec.mode = "normal" /\ Poll(st)) \in BOOLEAN
        BY BooleanType, RecType
      <3> QED
        BY <2>2, <3>1, FinishType
    <2> QED
      BY <1>3, <2>1, <2>2
  <1>8. TypeOK'
    BY <1>3, <1>4, <1>5, <1>6, <1>7 DEF TypeOK
  <1> QED
    BY <1>3, <1>6, <1>7, <1>8 DEF new, st

\* RecordConflict and RecordFails end the pass; the latter may have written.
LEMMA RecordFailsStep ==
    ASSUME TypeOK, RecordConflict \/ RecordFails
    PROVE  /\ TypeOK'
           /\ rec.pc = "record"
           /\ rec' = Idle /\ lock' = [cat |-> TRUE, dep |-> TRUE]
           /\ \/ UNCHANGED <<status, cache>> /\ count'.attempts = count.attempts
              \/ \E new \in {status, Patched(rec.base, rec.st)} :
                    /\ PatchAllowed(rec.base, rec.st)
                    /\ WriteStatus(new)
                    /\ count'.attempts = Persisted(new)
           /\ UNCHANGED <<dep, pod>>
  <1>1. /\ Finish(TRUE, FALSE) /\ rec.pc = "record"
        /\ UNCHANGED <<spec, stream, dep, pod>>
    BY DEF RecordConflict, RecordFails
  <1>2. /\ rec' = Idle /\ rec' \in Reconciler
        /\ lock' = [cat |-> TRUE, dep |-> TRUE]
        /\ lock' \in [cat : BOOLEAN, dep : BOOLEAN]
        /\ queue' \in [now : BOOLEAN, later : BOOLEAN]
    BY <1>1, FinishType
  <1>3. CASE RecordConflict
    <2>1. UNCHANGED <<status, cache, count, ghost>>
      BY <1>3 DEF RecordConflict
    <2>2. TypeOK'
      BY <1>1, <1>2, <2>1 DEF TypeOK
    <2> QED
      BY <1>1, <1>2, <2>1, <2>2
  <1>4. CASE RecordFails
    <2>1. PICK new \in {status, Patched(rec.base, rec.st)} :
             /\ WriteStatus(new)
             /\ count' = [count EXCEPT !.attempts = Persisted(new),
                                       !.faults = @ + 1]
             /\ ghost' = [ghost EXCEPT !.seenReady =
                            IF new = status THEN ghost.seenReady
                            ELSE SeenReady(new)]
      BY <1>4 DEF RecordFails
    <2>2. new \in Status
      BY PatchStep DEF TypeOK
    <2>3. /\ status' \in Status
          /\ cache' \in [spec : CatalogSpec, status : Status, fresh : BOOLEAN]
      BY <2>1, <2>2, WriteStatusType
    <2>4. /\ count' \in [edits : Nat, attempts : Nat, faults : Nat]
          /\ count'.attempts = Persisted(new)
      <3>1. Persisted(new) \in Nat
        BY <2>2, PersistedType
      <3>2. count \in [edits : Nat, attempts : Nat, faults : Nat]
        BY DEF TypeOK
      <3>3. count' = [edits |-> count.edits, attempts |-> Persisted(new),
                      faults |-> count.faults + 1]
        BY <2>1, <3>2
      <3> QED
        BY <3>1, <3>2, <3>3
    <2>5. ghost' \in [proven : SUBSET Nat, seenReady : 0 .. Never]
      BY <2>1, SeenReadyType DEF TypeOK
    <2>6. PatchAllowed(rec.base, rec.st)
      BY <1>4 DEF RecordFails
    <2>7. TypeOK'
      BY <1>1, <1>2, <2>3, <2>4, <2>5 DEF TypeOK
    <2> QED
      BY <1>1, <1>2, <2>1, <2>4, <2>6, <2>7
  <1> QED
    BY <1>3, <1>4

\* Containment writes no status: it scales the Deployment, reads, or fails.
LEMMA ContainStep ==
    ASSUME TypeOK, Contain \/ ContainFails \/ ScaleDown \/ ScaleDownConflict
    PROVE  /\ TypeOK'
           /\ rec.pc \in {"contain", "scale"}
           /\ \/ rec' = Idle /\ lock' = [cat |-> TRUE, dep |-> TRUE]
              \/ /\ rec'.pc \in {"record", "scale"} /\ rec'.base = rec.base
                 /\ rec'.st.act = rec.st.act /\ lock'.cat = lock.cat
           /\ dep'.attempt = dep.attempt
           /\ count'.attempts = count.attempts
           /\ UNCHANGED <<status, cache, pod>>
  <1>1. /\ UNCHANGED <<spec, status, cache, stream, pod, ghost>>
        /\ rec.pc \in {"contain", "scale"}
    BY DEF Contain, ContainFails, ScaleDown, ScaleDownConflict
  <1>2. /\ count' \in [edits : Nat, attempts : Nat, faults : Nat]
        /\ count'.attempts = count.attempts
    BY SpendType DEF Contain, ContainFails, ScaleDown, ScaleDownConflict, TypeOK
  <1>3. dep' \in Deployment /\ dep'.attempt = dep.attempt
    <2>1. dep' = dep \/ dep' = [dep EXCEPT !.replicas = 0, !.up = FALSE]
      BY DEF Contain, ContainFails, ScaleDown, ScaleDownConflict
    <2>2. dep \in Deployment
      BY DEF TypeOK
    <2>3. CASE dep' = dep
      BY <2>2, <2>3
    <2>4. CASE dep' = [dep EXCEPT !.replicas = 0, !.up = FALSE]
      <3>1. dep' = [attempt |-> dep.attempt, images |-> dep.images,
                    replicas |-> 0, up |-> FALSE]
        BY <2>2, <2>4 DEF Deployment
      <3>2. 0 \in 0 .. 1 /\ FALSE \in BOOLEAN
        OBVIOUS
      <3>3. dep.attempt \in Nat /\ dep.images \in [Targets -> Image]
        BY <2>2 DEF Deployment
      <3> QED
        BY <3>1, <3>2, <3>3 DEF Deployment
    <2> QED
      BY <2>1, <2>3, <2>4
  <1>4. /\ rec' \in Reconciler
        /\ \/ rec' = Idle /\ lock' = [cat |-> TRUE, dep |-> TRUE]
           \/ /\ rec'.pc \in {"record", "scale"} /\ rec'.base = rec.base
              /\ rec'.st.act = rec.st.act /\ lock'.cat = lock.cat
        /\ lock' \in [cat : BOOLEAN, dep : BOOLEAN]
        /\ queue' \in [now : BOOLEAN, later : BOOLEAN]
    <2>1. CASE /\ rec' = [rec EXCEPT !.pc = "scale"]
               /\ lock' = [lock EXCEPT !.dep = TRUE]
               /\ UNCHANGED queue
      BY <2>1 DEF TypeOK, Reconciler, PC
    <2>2. CASE \E e, v \in BOOLEAN : AfterContain(e, v)
      BY <2>2, AfterContainType
    <2>3. \/ /\ rec' = [rec EXCEPT !.pc = "scale"]
             /\ lock' = [lock EXCEPT !.dep = TRUE]
             /\ UNCHANGED queue
          \/ \E e, v \in BOOLEAN : AfterContain(e, v)
      <3>1. CASE Contain
        BY <3>1 DEF Contain
      <3>2. CASE ContainFails \/ ScaleDown \/ ScaleDownConflict
        BY <3>2 DEF ContainFails, ScaleDown, ScaleDownConflict
      <3> QED
        BY <3>1, <3>2
    <2> QED
      BY <2>1, <2>2, <2>3
  <1>5. TypeOK'
    BY <1>1, <1>2, <1>3, <1>4 DEF TypeOK
  <1> QED
    BY <1>1, <1>2, <1>3, <1>4, <1>5

\* Users' edits: the persisted status is untouched, the lock is lost.
LEMMA UserStep ==
    ASSUME TypeOK, EditSelection \/ EditRetry
    PROVE  /\ TypeOK'
           /\ cache'.status \in {cache.status, status}
           /\ (cache'.fresh /\ (cache.fresh => cache.status = status))
                => cache'.status = status
           /\ lock'.cat = (rec.pc = "idle")
           /\ count'.attempts = count.attempts
           /\ UNCHANGED <<status, dep, pod, rec>>
  <1>1. PICK sp \in CatalogSpec : UserWrites(sp)
    <2>1. spec \in CatalogSpec
      BY DEF TypeOK
    <2>2. CASE EditSelection
      <3>1. PICK t \in Targets : \E sel \in SelectionsOf[t] :
               UserWrites([spec EXCEPT !.gen = @ + 1, !.sel = [@ EXCEPT ![t] = sel]])
        BY <2>2 DEF EditSelection
      <3>2. PICK sel \in SelectionsOf[t] :
               UserWrites([spec EXCEPT !.gen = @ + 1, !.sel = [@ EXCEPT ![t] = sel]])
        BY <3>1
      <3>3. sel \in Selection
        BY SelectionsAssumption
      <3> DEFINE n == spec.gen + 1
                 f == [spec.sel EXCEPT ![t] = sel]
      <3>4. n \in Nat /\ f \in [Targets -> Selection]
        BY <2>1, <3>3 DEF CatalogSpec
      <3>5. UserWrites([spec EXCEPT !.gen = n, !.sel = f])
        BY <2>1, <3>2 DEF CatalogSpec
      <3> HIDE DEF n, f
      <3>6. [spec EXCEPT !.gen = n, !.sel = f] \in CatalogSpec
        BY <2>1, <3>4 DEF CatalogSpec
      <3> QED
        BY <3>5, <3>6
    <2>3. CASE EditRetry
      BY <2>1, <2>3 DEF EditRetry, CatalogSpec
    <2> QED
      BY <2>2, <2>3
  <1>2. /\ cache' \in [spec : CatalogSpec, status : Status, fresh : BOOLEAN]
        /\ cache'.status \in {cache.status, status}
        /\ (cache'.fresh /\ (cache.fresh => cache.status = status))
             => cache'.status = status
    <2>1. CASE StaleCache
      <3>1. cache' = [cache EXCEPT !.fresh = FALSE]
        BY <1>1, <2>1 DEF UserWrites, Informed
      <3>2. cache \in [spec : CatalogSpec, status : Status, fresh : BOOLEAN]
        BY DEF TypeOK
      <3>3. cache'.fresh = FALSE
        BY <3>1, <3>2
      <3> QED
        BY <3>1, <3>2, <3>3
    <2>2. CASE ~StaleCache
      BY <1>1, <2>2 DEF UserWrites, Informed, TypeOK
    <2> QED
      BY <2>1, <2>2
  <1>3. count' \in [edits : Nat, attempts : Nat, faults : Nat]
        /\ count'.attempts = count.attempts
    BY <1>1 DEF UserWrites, TypeOK
  <1>4. /\ lock' \in [cat : BOOLEAN, dep : BOOLEAN]
        /\ lock'.cat = (rec.pc = "idle")
    BY <1>1 DEF UserWrites, TypeOK
  <1>5. queue' \in [now : BOOLEAN, later : BOOLEAN]
    <2>1. (~StaleCache) \in BOOLEAN
      OBVIOUS
    <2> QED
      BY <1>1, <2>1, WakeType DEF UserWrites
  <1>6. spec' \in CatalogSpec /\ UNCHANGED <<status, stream, dep, pod, rec, ghost>>
    BY <1>1 DEF UserWrites
  <1>7. TypeOK'
    BY <1>2, <1>3, <1>4, <1>5, <1>6 DEF TypeOK
  <1> QED
    BY <1>2, <1>3, <1>4, <1>6, <1>7

\* Imports touch the streams and the queue.
LEMMA ImportStep ==
    ASSUME TypeOK, NEW t \in Targets,
           RequestImport(t) \/ ImportSucceeds(t) \/ ImportFails(t)
    PROVE  /\ TypeOK'
           /\ UNCHANGED <<status, cache, dep, pod, rec, lock, count>>
  <1>1. stream[t] \in Stream
    BY DEF TypeOK
  <1>2. stream' \in [Targets -> Stream]
    <2>1. ASSUME NEW s \in Stream, stream' = [stream EXCEPT ![t] = s]
          PROVE  stream' \in [Targets -> Stream]
      BY <2>1 DEF TypeOK
    <2>2. CASE RequestImport(t)
      <3>1. stream' = [stream EXCEPT ![t] = [stream[t] EXCEPT !.gen = @ + 1]]
        BY <2>2 DEF RequestImport
      <3>2. [stream[t] EXCEPT !.gen = @ + 1] \in Stream
        BY <1>1 DEF Stream
      <3> QED
        BY <2>1, <3>1, <3>2
    <2>3. CASE ImportSucceeds(t)
      <3>1. PICK d \in Digests :
               stream' = [stream EXCEPT ![t] =
                            [@ EXCEPT !.item = d, !.itemGen = stream[t].gen,
                                      !.good = d, !.failed = 0]]
        BY <2>3 DEF ImportSucceeds
      <3>2. [stream[t] EXCEPT !.item = d, !.itemGen = stream[t].gen,
                              !.good = d, !.failed = 0] \in Stream
        BY <1>1 DEF Stream
      <3> QED
        BY <2>1, <3>1, <3>2
    <2>4. CASE ImportFails(t)
      <3>1. CASE stream' = [stream EXCEPT ![t].failed = stream[t].gen]
        <4>1. stream' = [stream EXCEPT ![t] =
                           [stream[t] EXCEPT !.failed = stream[t].gen]]
          BY <3>1
        <4>2. [stream[t] EXCEPT !.failed = stream[t].gen] \in Stream
          BY <1>1 DEF Stream
        <4> QED
          BY <2>1, <4>1, <4>2
      <3>2. CASE stream' = [stream EXCEPT ![t] =
                              [@ EXCEPT !.item = "unusable", !.itemGen = stream[t].gen]]
        <4>1. [stream[t] EXCEPT !.item = "unusable", !.itemGen = stream[t].gen]
                \in Stream
          BY <1>1 DEF Stream
        <4> QED
          BY <2>1, <3>2, <4>1
      <3> QED
        BY <2>4, <3>1, <3>2 DEF ImportFails
    <2> QED
      BY <2>2, <2>3, <2>4
  <1>3. queue' \in [now : BOOLEAN, later : BOOLEAN]
    BY WakeType DEF RequestImport, ImportSucceeds, ImportFails, StreamEvent
  <1>4. UNCHANGED <<spec, status, cache, dep, pod, rec, lock, count, ghost>>
    BY DEF RequestImport, ImportSucceeds, ImportFails
  <1>5. TypeOK'
    BY <1>2, <1>3, <1>4 DEF TypeOK
  <1> QED
    BY <1>4, <1>5

\* The Deployment controller and the kubelet never invent an attempt.
LEMMA WorkloadStep ==
    ASSUME TypeOK, DeploymentReports \/ PodStarts \/ PodStops \/ PodReports
    PROVE  /\ TypeOK'
           /\ dep'.attempt = dep.attempt
           /\ pod'.attempt \in {0, dep.attempt, pod.attempt}
           /\ lock'.cat = lock.cat
           /\ UNCHANGED <<status, cache, rec, count>>
  <1>1. dep \in Deployment /\ pod \in Pod
    BY DEF TypeOK
  <1>2. queue' \in [now : BOOLEAN, later : BOOLEAN]
    BY WakeType DEF DeploymentReports, PodStarts, PodStops, PodReports
  <1>3. UNCHANGED <<spec, status, cache, stream, rec, count>>
    BY DEF DeploymentReports, PodStarts, PodStops, PodReports
  <1>4. CASE DeploymentReports
    <2>1. WorkloadUp \in BOOLEAN
      BY DEF WorkloadUp
    <2>2. /\ dep' = [dep EXCEPT !.up = WorkloadUp]
          /\ lock' = [lock EXCEPT !.dep = rec.pc = "idle"]
          /\ UNCHANGED <<pod, ghost>>
      BY <1>4 DEF DeploymentReports
    <2>3. dep' \in Deployment /\ dep'.attempt = dep.attempt
      BY <1>1, <2>1, <2>2 DEF Deployment
    <2>4. lock' \in [cat : BOOLEAN, dep : BOOLEAN] /\ lock'.cat = lock.cat
      BY <2>2 DEF TypeOK
    <2>5. TypeOK'
      BY <1>2, <1>3, <2>2, <2>3, <2>4 DEF TypeOK
    <2> QED
      BY <1>3, <2>2, <2>3, <2>4, <2>5
  <1>5. CASE PodStarts
    <2>1. /\ pod' = [attempt |-> dep.attempt, images |-> dep.images,
                     phase |-> "starting"]
          /\ UNCHANGED <<dep, lock, ghost>>
      BY <1>5 DEF PodStarts
    <2>2. pod' \in Pod /\ pod'.attempt = dep.attempt
      BY <1>1, <2>1 DEF Pod, Phase, Deployment
    <2>3. TypeOK'
      BY <1>2, <1>3, <2>1, <2>2 DEF TypeOK
    <2> QED
      BY <1>3, <2>1, <2>2, <2>3
  <1>6. CASE PodStops
    <2>1. pod' = NoPod /\ UNCHANGED <<dep, lock, ghost>>
      BY <1>6 DEF PodStops
    <2>2. pod' \in Pod /\ pod'.attempt = 0
      BY <2>1 DEF Pod, NoPod, Phase, Image
    <2>3. TypeOK'
      BY <1>2, <1>3, <2>1, <2>2 DEF TypeOK
    <2> QED
      BY <1>3, <2>1, <2>2, <2>3
  <1>7. CASE PodReports
    <2>1. PICK phase \in PodOutcomes :
             /\ pod' = [pod EXCEPT !.phase = phase]
             /\ ghost' = IF phase # "ready" THEN ghost
                         ELSE [ghost EXCEPT !.proven = @ \cup {pod.attempt}]
             /\ UNCHANGED <<dep, lock>>
      BY <1>7 DEF PodReports
    <2>2. phase \in Phase
      BY BoundsAssumption DEF Phase
    <2>3. pod' \in Pod /\ pod'.attempt = pod.attempt
      BY <1>1, <2>1, <2>2 DEF Pod
    <2>4. ghost' \in [proven : SUBSET Nat, seenReady : 0 .. Never]
      <3>1. ghost \in [proven : SUBSET Nat, seenReady : 0 .. Never]
        BY DEF TypeOK
      <3>2. pod.attempt \in Nat
        BY <1>1 DEF Pod
      <3>3. ghost.proven \cup {pod.attempt} \in SUBSET Nat
        BY <3>1, <3>2
      <3> QED
        BY <2>1, <3>1, <3>3
    <2>5. TypeOK'
      BY <1>2, <1>3, <2>1, <2>3, <2>4 DEF TypeOK
    <2> QED
      BY <1>3, <2>1, <2>3, <2>5
  <1> QED
    BY <1>4, <1>5, <1>6, <1>7

\* Sync, PollFires and Restart write nothing at the API server.
LEMMA OperatorStep ==
    ASSUME TypeOK, Sync \/ PollFires \/ Restart
    PROVE  /\ TypeOK'
           /\ cache' = cache \/ cache'.status = status
           /\ rec' = Idle \/ UNCHANGED <<rec, lock>>
           /\ count'.attempts = count.attempts
           /\ UNCHANGED <<status, dep, pod>>
  <1>1. UNCHANGED <<spec, status, stream, dep, pod, ghost>>
    BY DEF Sync, PollFires, Restart
  <1>2. /\ cache' \in [spec : CatalogSpec, status : Status, fresh : BOOLEAN]
        /\ cache' = cache \/ cache'.status = status
    <2>1. CASE cache' = cache
      BY <2>1 DEF TypeOK
    <2>2. CASE cache' = [spec |-> spec, status |-> status, fresh |-> TRUE]
      BY <2>2 DEF TypeOK
    <2> QED
      BY <2>1, <2>2 DEF Sync, PollFires, Restart
  <1>3. /\ rec' \in Reconciler /\ lock' \in [cat : BOOLEAN, dep : BOOLEAN]
        /\ rec' = Idle \/ UNCHANGED <<rec, lock>>
    <2>1. CASE UNCHANGED <<rec, lock>>
      BY <2>1 DEF TypeOK
    <2>2. CASE rec' = Idle /\ lock' = [cat |-> TRUE, dep |-> TRUE]
      BY <2>2, IdleType
    <2> QED
      BY <2>1, <2>2 DEF Sync, PollFires, Restart
  <1>4. queue' \in [now : BOOLEAN, later : BOOLEAN]
    <2>1. CASE Sync
      BY <2>1, WakeType DEF Sync
    <2>2. CASE queue' = [now |-> TRUE, later |-> FALSE]
      BY <2>2
    <2> QED
      BY <2>1, <2>2 DEF PollFires, Restart
  <1>5. /\ count' \in [edits : Nat, attempts : Nat, faults : Nat]
        /\ count'.attempts = count.attempts
    BY SpendType DEF Sync, PollFires, Restart, TypeOK
  <1>6. TypeOK'
    BY <1>1, <1>2, <1>3, <1>4, <1>5 DEF TypeOK
  <1> QED
    BY <1>1, <1>2, <1>3, <1>5, <1>6

\* Time ages every copy of the status in the same way.
LEMMA TickStep ==
    ASSUME TypeOK, Tick
    PROVE  /\ TypeOK'
           /\ status' = OlderStatus(status)
           /\ cache'.status = OlderStatus(cache.status)
           /\ cache'.fresh = cache.fresh
           /\ rec'.pc = rec.pc /\ rec'.base = OlderStatus(rec.base)
           /\ rec'.st = OlderStatus(rec.st)
           /\ UNCHANGED <<dep, pod, lock, count>>
  <1>1. /\ cache \in [spec : CatalogSpec, status : Status, fresh : BOOLEAN]
        /\ rec \in Reconciler /\ ghost \in [proven : SUBSET Nat, seenReady : 0 .. Never]
    BY DEF TypeOK
  <1>2. /\ OlderStatus(status) \in Status
        /\ OlderStatus(cache.status) \in Status
        /\ OlderStatus(rec.base) \in Status
        /\ OlderStatus(rec.st) \in Status
    BY RecType, OlderStatusType DEF TypeOK
  <1>3. /\ status' = OlderStatus(status)
        /\ cache' = [cache EXCEPT !.status = OlderStatus(cache.status)]
        /\ rec' = [rec EXCEPT !.base = OlderStatus(rec.base),
                              !.st = OlderStatus(rec.st)]
        /\ ghost' = [ghost EXCEPT !.seenReady = Older(ghost.seenReady)]
        /\ UNCHANGED <<spec, stream, dep, pod, lock, queue, count>>
    BY <1>1 DEF Tick, Reconciler
  <1>4. /\ cache' \in [spec : CatalogSpec, status : Status, fresh : BOOLEAN]
        /\ cache'.status = OlderStatus(cache.status)
        /\ cache'.fresh = cache.fresh
    BY <1>1, <1>2, <1>3
  <1>5. /\ rec' \in Reconciler
        /\ rec'.pc = rec.pc /\ rec'.base = OlderStatus(rec.base)
        /\ rec'.st = OlderStatus(rec.st)
    BY <1>1, <1>2, <1>3 DEF Reconciler
  <1>6. ghost' \in [proven : SUBSET Nat, seenReady : 0 .. Never]
    <2>1. Older(ghost.seenReady) \in 0 .. Never
      BY <1>1, OlderType
    <2> QED
      BY <1>1, <1>3, <2>1
  <1>7. TypeOK'
    BY <1>2, <1>3, <1>4, <1>5, <1>6 DEF TypeOK
  <1> QED
    BY <1>3, <1>4, <1>5, <1>7

\* The initial state: a new CR, nothing else.
LEMMA InitType == Init => TypeOK
  <1> SUFFICES ASSUME Init PROVE TypeOK
    OBVIOUS
  <1>1. NoStatus \in Status /\ Idle \in Reconciler
    BY IdleType
  <1>2. spec \in CatalogSpec
    BY CreatedAssumption DEF Init, CatalogSpec
  <1>3. NoDeployment \in Deployment /\ NoPod \in Pod
    BY DEF NoDeployment, Deployment, NoPod, Pod, Phase, Image
  <1>4. stream \in [Targets -> Stream]
    BY DEF Init, Stream
  <1>5. ghost \in [proven : SUBSET Nat, seenReady : 0 .. Never]
    BY DeadlineAssumption DEF Init, Never
  <1> QED
    BY <1>1, <1>2, <1>3, <1>4, <1>5 DEF Init, TypeOK

\* Every step keeps the types.
LEMMA NextType == TypeOK /\ [Next]_vars => TypeOK'
  <1> SUFFICES ASSUME TypeOK, [Next]_vars PROVE TypeOK'
    OBVIOUS
  <1>1. CASE Reconcile
    BY <1>1, BeginStep, BeginFailsStep, PublishStep, PublishConflictStep,
       PublishFailsStep, ApplyStep, ObserveStep, RecordStep, RecordFailsStep,
       ContainStep
       DEF Reconcile
  <1>2. CASE Environment
    BY <1>2, UserStep, ImportStep, WorkloadStep, OperatorStep, TickStep
       DEF Environment
  <1>3. CASE UNCHANGED vars
    BY <1>3 DEF vars, TypeOK
  <1> QED
    BY <1>1, <1>2, <1>3 DEF Next

\* Type correctness: every copy of the status that the reconciler, the informer
\* and the API server exchange keeps its shape, through every merge patch.
THEOREM TypeCorrect == Spec => []TypeOK
  BY InitType, NextType, PTL DEF Spec

-----------------------------------------------------------------------------
(***************************************************************************)
(* The protocol's safety                                                    *)
(***************************************************************************)
\* A patch under the lock, from a consistent memory, keeps a failure or replaces
\* the attempt that failed.
LEMMA PatchKeepsFailure ==
    ASSUME TypeOK, FailureIsCarried, rec.pc # "idle",
           PatchAllowed(rec.base, rec.st), status.act.state = "Failed"
    PROVE  LET new == Patched(rec.base, rec.st)
           IN  new.act.state = "Failed" \/ new.act.attempt > status.act.attempt
  <1>1. CASE rec.st = rec.base
    BY <1>1, PatchStep
  <1>2. CASE rec.st # rec.base
    <2>1. lock.cat
      BY <1>2 DEF PatchAllowed
    <2>2. CASE rec.st.act.state = "Failed"
      BY <2>2, PatchStep
    <2>3. CASE rec.base = status /\ rec.st.act.attempt > status.act.attempt
      BY <1>2, <2>3, PatchStep
    <2> QED
      BY <2>1, <2>2, <2>3 DEF FailureIsCarried
  <1> QED
    BY <1>1, <1>2

\* Every step keeps the attempts in bounds.
LEMMA BoundsStep ==
    TypeOK /\ AttemptsBounded /\ [Next]_vars => AttemptsBounded'
  <1> SUFFICES ASSUME TypeOK, AttemptsBounded, [Next]_vars
               PROVE  AttemptsBounded'
    OBVIOUS
  <1>1. /\ status.act.attempt \in Nat /\ cache.status.act.attempt \in Nat
        /\ rec.base.act.attempt \in Nat /\ rec.st.act.attempt \in Nat
        /\ dep.attempt \in Nat /\ pod.attempt \in Nat /\ count.attempts \in Nat
    BY RecType, AttemptType DEF TypeOK, Deployment, Pod
  <1>2. ASSUME NEW new \in Status, WriteStatus(new),
               count'.attempts = Persisted(new)
        PROVE  /\ count'.attempts \in Nat /\ count.attempts <= count'.attempts
               /\ status' = new
               /\ status'.act.attempt <= count'.attempts
               /\ cache'.status.act.attempt <= count'.attempts
    <2>1. /\ status' = new /\ cache'.status \in {cache.status, new}
      BY <1>2, WriteStatusType
    <2>2. /\ Persisted(new) \in Nat /\ new.act.attempt <= Persisted(new)
          /\ count.attempts <= Persisted(new) /\ new.act.attempt \in Nat
      BY PersistedType, AttemptType
    <2> QED
      BY <1>1, <1>2, <2>1, <2>2 DEF AttemptsBounded
  <1>3. CASE Begin
    BY <1>1, <1>3, BeginStep DEF AttemptsBounded
  <1>4. CASE BeginFails
    BY <1>1, <1>4, BeginFailsStep DEF AttemptsBounded
  <1>5. CASE Publish
    <2> DEFINE new == Patched(rec.base, rec.st)
    <2>1. new \in Status
      BY PatchStep
    <2>2. /\ WriteStatus(new) /\ count'.attempts = Persisted(new)
          /\ rec'.base = rec.base /\ UNCHANGED <<dep, pod>>
          /\ rec'.st = IF rec.st = rec.base THEN rec.st ELSE new
      BY <1>5, PublishStep
    <2> HIDE DEF new
    <2>3. /\ count'.attempts \in Nat /\ count.attempts <= count'.attempts
          /\ new.act.attempt <= count'.attempts
          /\ status'.act.attempt <= count'.attempts
          /\ cache'.status.act.attempt <= count'.attempts
      BY <1>2, <2>1, <2>2
    <2>4. rec'.st.act.attempt <= count'.attempts /\ rec'.st.act.attempt \in Nat
      BY <1>1, <2>1, <2>2, <2>3, AttemptType DEF AttemptsBounded
    <2> QED
      BY <1>1, <2>2, <2>3, <2>4 DEF AttemptsBounded
  <1>6. CASE PublishConflict
    <2>1. Idle.pc = "idle" /\ Idle.base.act.attempt = 0 /\ Idle.st.act.attempt = 0
      BY DEF Idle, NoStatus, NoActivation
    <2> QED
      BY <1>1, <1>6, <2>1, PublishConflictStep DEF AttemptsBounded
  <1>7. CASE PublishFails
    <2>1. PICK new \in {status, Patched(rec.base, rec.st)} :
             WriteStatus(new) /\ count'.attempts = Persisted(new)
      BY <1>7, PublishFailsStep
    <2>2. new \in Status
      BY PatchStep DEF TypeOK
    <2>3. /\ count'.attempts \in Nat /\ count.attempts <= count'.attempts
          /\ status'.act.attempt <= count'.attempts
          /\ cache'.status.act.attempt <= count'.attempts
      BY <1>2, <2>1, <2>2
    <2>4. /\ rec'.base = rec.base /\ rec'.st.act = rec.st.act
          /\ rec'.pc \in {"contain", "record"} /\ UNCHANGED <<dep, pod>>
      BY <1>7, PublishFailsStep
    <2> QED
      BY <1>1, <2>3, <2>4 DEF AttemptsBounded
  <1>8. CASE Apply \/ ApplyDeletes \/ ApplyFails
    BY <1>1, <1>8, ApplyStep DEF AttemptsBounded
  <1>9. CASE Observe \/ ObserveFails
    BY <1>1, <1>9, ObserveStep DEF AttemptsBounded
  <1>10. CASE Record
    <2> DEFINE new == Patched(rec.base, rec.st)
    <2>1. new \in Status
      BY PatchStep
    <2>2. /\ WriteStatus(new) /\ count'.attempts = Persisted(new)
          /\ UNCHANGED <<dep, pod>>
          /\ \/ rec' = Idle
             \/ /\ rec'.pc = "contain" /\ rec'.base = rec.base
                /\ rec'.st = IF rec.st = rec.base THEN rec.st ELSE new
      BY <1>10, RecordStep
    <2> HIDE DEF new
    <2>3. /\ count'.attempts \in Nat /\ count.attempts <= count'.attempts
          /\ new.act.attempt <= count'.attempts
          /\ status'.act.attempt <= count'.attempts
          /\ cache'.status.act.attempt <= count'.attempts
      BY <1>2, <2>1, <2>2
    <2>4. Idle.pc = "idle" /\ Idle.base.act.attempt = 0 /\ Idle.st.act.attempt = 0
      BY DEF Idle, NoStatus, NoActivation
    <2>5. /\ rec'.st.act.attempt <= count'.attempts /\ rec'.st.act.attempt \in Nat
          /\ rec'.base.act.attempt <= count'.attempts
      BY <1>1, <2>1, <2>2, <2>3, <2>4, AttemptType DEF AttemptsBounded
    <2> QED
      BY <1>1, <2>2, <2>3, <2>5 DEF AttemptsBounded
  <1>11. CASE RecordConflict \/ RecordFails
    <2>1. Idle.pc = "idle" /\ Idle.base.act.attempt = 0 /\ Idle.st.act.attempt = 0
      BY DEF Idle, NoStatus, NoActivation
    <2>2. rec' = Idle /\ UNCHANGED <<dep, pod>>
      BY <1>11, RecordFailsStep
    <2>3. CASE UNCHANGED <<status, cache>> /\ count'.attempts = count.attempts
      BY <1>1, <2>1, <2>2, <2>3 DEF AttemptsBounded
    <2>4. CASE \E new \in {status, Patched(rec.base, rec.st)} :
                  WriteStatus(new) /\ count'.attempts = Persisted(new)
      <3>1. PICK new \in {status, Patched(rec.base, rec.st)} :
               WriteStatus(new) /\ count'.attempts = Persisted(new)
        BY <2>4
      <3>2. new \in Status
        BY PatchStep DEF TypeOK
      <3>3. /\ count'.attempts \in Nat /\ count.attempts <= count'.attempts
            /\ status'.act.attempt <= count'.attempts
            /\ cache'.status.act.attempt <= count'.attempts
        BY <1>2, <3>1, <3>2
      <3> QED
        BY <1>1, <2>1, <2>2, <3>3 DEF AttemptsBounded
    <2> QED
      BY <1>11, <2>3, <2>4, RecordFailsStep
  <1>12. CASE Contain \/ ContainFails \/ ScaleDown \/ ScaleDownConflict
    <2>1. Idle.pc = "idle" /\ Idle.base.act.attempt = 0 /\ Idle.st.act.attempt = 0
      BY DEF Idle, NoStatus, NoActivation
    <2> QED
      BY <1>1, <1>12, <2>1, ContainStep DEF AttemptsBounded
  <1>13. CASE EditSelection \/ EditRetry
    BY <1>1, <1>13, UserStep DEF AttemptsBounded
  <1>14. CASE \E t \in Targets : RequestImport(t) \/ ImportSucceeds(t) \/ ImportFails(t)
    BY <1>14, ImportStep DEF AttemptsBounded
  <1>15. CASE DeploymentReports \/ PodStarts \/ PodStops \/ PodReports
    BY <1>1, <1>15, WorkloadStep DEF AttemptsBounded
  <1>16. CASE Sync \/ PollFires \/ Restart
    <2>1. Idle.pc = "idle" /\ Idle.base.act.attempt = 0 /\ Idle.st.act.attempt = 0
      BY DEF Idle, NoStatus, NoActivation
    <2> QED
      BY <1>1, <1>16, <2>1, OperatorStep DEF AttemptsBounded
  <1>17. CASE Tick
    <2>1. /\ status'.act.attempt = status.act.attempt
          /\ cache'.status.act.attempt = cache.status.act.attempt
          /\ rec'.base.act.attempt = rec.base.act.attempt
          /\ rec'.st.act.attempt = rec.st.act.attempt
      BY <1>17, TickStep, OlderStatusType, RecType DEF TypeOK
    <2> QED
      BY <1>17, <2>1, TickStep DEF AttemptsBounded
  <1>18. CASE UNCHANGED vars
    BY <1>18 DEF vars, AttemptsBounded
  <1> QED
    BY <1>3, <1>4, <1>5, <1>6, <1>7, <1>8, <1>9, <1>10, <1>11, <1>12, <1>13,
       <1>14, <1>15, <1>16, <1>17, <1>18 DEF Next, Reconcile, Environment

\* Every step keeps a caught-up cache current.
LEMMA CacheStep ==
    TypeOK /\ CacheIsCurrent /\ [Next]_vars => CacheIsCurrent'
  <1> SUFFICES ASSUME TypeOK, CacheIsCurrent, [Next]_vars
               PROVE  CacheIsCurrent'
    OBVIOUS
  <1>1. ASSUME NEW new \in Status, WriteStatus(new)
        PROVE  CacheIsCurrent'
    BY <1>1, WriteStatusType DEF CacheIsCurrent
  <1>2. CASE UNCHANGED <<status, cache>>
    BY <1>2 DEF CacheIsCurrent
  <1>3. Patched(rec.base, rec.st) \in Status /\ status \in Status
    BY PatchStep DEF TypeOK
  <1>4. CASE Publish
    BY <1>1, <1>3, <1>4, PublishStep
  <1>5. CASE PublishFails
    BY <1>1, <1>3, <1>5, PublishFailsStep
  <1>6. CASE Record
    BY <1>1, <1>3, <1>6, RecordStep
  <1>7. CASE RecordConflict \/ RecordFails
    BY <1>1, <1>2, <1>3, <1>7, RecordFailsStep
  <1>8. CASE EditSelection \/ EditRetry
    BY <1>8, UserStep DEF CacheIsCurrent
  <1>9. CASE Sync \/ PollFires \/ Restart
    BY <1>9, OperatorStep DEF CacheIsCurrent
  <1>10. CASE Tick
    BY <1>10, TickStep DEF CacheIsCurrent
  <1>11. CASE \/ Begin \/ BeginFails \/ PublishConflict
              \/ Apply \/ ApplyDeletes \/ ApplyFails \/ Observe \/ ObserveFails
              \/ Contain \/ ContainFails \/ ScaleDown \/ ScaleDownConflict
    BY <1>2, <1>11, BeginStep, BeginFailsStep, PublishConflictStep, ApplyStep,
       ObserveStep, ContainStep
  <1>12. CASE \E t \in Targets : RequestImport(t) \/ ImportSucceeds(t) \/ ImportFails(t)
    BY <1>2, <1>12, ImportStep
  <1>13. CASE DeploymentReports \/ PodStarts \/ PodStops \/ PodReports
    BY <1>2, <1>13, WorkloadStep
  <1>14. CASE UNCHANGED vars
    BY <1>2, <1>14 DEF vars
  <1> QED
    BY <1>4, <1>5, <1>6, <1>7, <1>8, <1>9, <1>10, <1>11, <1>12, <1>13, <1>14
       DEF Next, Reconcile, Environment

\* Every step keeps the memory of a failure, where the lock still holds.
LEMMA FailureStep ==
    TypeOK /\ MemoryIsConsistent /\ [Next]_vars => FailureIsCarried'
  <1> SUFFICES ASSUME TypeOK, AttemptsBounded, CacheIsCurrent, FailureIsCarried,
                      [Next]_vars,
                      rec'.pc # "idle", lock'.cat, status'.act.state = "Failed"
               PROVE  \/ /\ rec'.st.act.state = "Failed"
                         /\ rec'.st.act.attempt = status'.act.attempt
                      \/ /\ rec'.base = status'
                         /\ rec'.st.act.attempt > status'.act.attempt
    BY DEF MemoryIsConsistent, FailureIsCarried
  <1>1. /\ status.act.attempt \in Nat /\ count.attempts \in Nat
        /\ status.act.attempt <= count.attempts
        /\ rec'.st.act.attempt \in Nat
    BY NextType, RecType, AttemptType DEF TypeOK, AttemptsBounded, Reconciler
  <1>2. Idle.pc = "idle"
    BY DEF Idle
  <1>3. CASE Begin
    <2>1. cache.status = status
      BY <1>3, BeginStep DEF CacheIsCurrent
    <2> QED
      BY <1>1, <1>3, <2>1, BeginStep
  <1>4. CASE BeginFails
    <2>1. cache.status = status
      BY <1>4, BeginFailsStep DEF CacheIsCurrent
    <2> QED
      BY <1>4, <2>1, BeginFailsStep
  <1>5. ASSUME rec.pc # "idle", lock.cat, status' = status,
               rec'.base = rec.base, rec'.st.act.attempt = rec.st.act.attempt,
               rec.st.act.state = "Failed" => rec'.st.act.state = "Failed"
        PROVE  \/ /\ rec'.st.act.state = "Failed"
                  /\ rec'.st.act.attempt = status'.act.attempt
               \/ /\ rec'.base = status'
                  /\ rec'.st.act.attempt > status'.act.attempt
    BY <1>5 DEF FailureIsCarried
  <1>6. ASSUME NEW new, new = Patched(rec.base, rec.st), status' = new,
               rec.pc # "idle", lock.cat, rec'.base = rec.base,
               rec'.st = IF rec.st = rec.base THEN rec.st ELSE new
        PROVE  \/ /\ rec'.st.act.state = "Failed"
                  /\ rec'.st.act.attempt = status'.act.attempt
               \/ /\ rec'.base = status'
                  /\ rec'.st.act.attempt > status'.act.attempt
    <2>1. CASE rec.st = rec.base
      <3>1. status' = status
        BY <1>6, <2>1, PatchStep
      <3> QED
        BY <1>5, <1>6, <2>1, <3>1
    <2>2. CASE rec.st # rec.base
      BY <1>6, <2>2
    <2> QED
      BY <2>1, <2>2
  <1>7. CASE Publish
    <2>1. /\ status' = Patched(rec.base, rec.st)
          /\ rec.pc # "idle" /\ lock.cat /\ rec'.base = rec.base
          /\ rec'.st = IF rec.st = rec.base THEN rec.st
                       ELSE Patched(rec.base, rec.st)
      BY <1>7, PublishStep DEF WriteStatus
    <2> QED
      BY <1>6, <2>1
  <1>8. CASE PublishConflict
    BY <1>2, <1>5, <1>8, PublishConflictStep
  <1>9. CASE PublishFails
    <2>1. lock.cat
      BY <1>9, PublishFailsStep DEF PatchAllowed
    <2>2. status' = status
      BY <1>9, PublishFailsStep DEF WriteStatus
    <2> QED
      BY <1>5, <1>9, <2>1, <2>2, PublishFailsStep
  <1>10. CASE Apply \/ ApplyDeletes \/ ApplyFails
    BY <1>5, <1>10, ApplyStep
  <1>11. CASE Observe \/ ObserveFails
    BY <1>5, <1>11, ObserveStep
  <1>12. CASE Record
    <2>1. /\ status' = Patched(rec.base, rec.st)
          /\ rec.pc # "idle" /\ lock.cat /\ rec'.base = rec.base
          /\ rec'.st = IF rec.st = rec.base THEN rec.st
                       ELSE Patched(rec.base, rec.st)
      BY <1>2, <1>12, RecordStep DEF WriteStatus
    <2> QED
      BY <1>6, <2>1
  <1>13. CASE RecordConflict \/ RecordFails
    BY <1>2, <1>13, RecordFailsStep
  <1>14. CASE Contain \/ ContainFails \/ ScaleDown \/ ScaleDownConflict
    BY <1>2, <1>5, <1>14, ContainStep
  <1>15. CASE EditSelection \/ EditRetry
    BY <1>15, UserStep
  <1>16. CASE \E t \in Targets : RequestImport(t) \/ ImportSucceeds(t) \/ ImportFails(t)
    BY <1>5, <1>16, ImportStep
  <1>17. CASE DeploymentReports \/ PodStarts \/ PodStops \/ PodReports
    BY <1>5, <1>17, WorkloadStep
  <1>18. CASE Sync \/ PollFires \/ Restart
    BY <1>2, <1>5, <1>18, OperatorStep
  <1>19. CASE Tick
    <2>1. /\ status' = OlderStatus(status) /\ rec'.base = OlderStatus(rec.base)
          /\ rec'.st = OlderStatus(rec.st) /\ rec.pc # "idle" /\ lock.cat
      BY <1>19, TickStep
    <2>2. /\ status'.act.attempt = status.act.attempt
          /\ status'.act.state = status.act.state
          /\ rec'.st.act.attempt = rec.st.act.attempt
          /\ rec'.st.act.state = rec.st.act.state
      BY <2>1, OlderStatusType, RecType DEF TypeOK
    <2> QED
      BY <2>1, <2>2 DEF FailureIsCarried
  <1>20. CASE UNCHANGED vars
    BY <1>5, <1>20 DEF vars
  <1> QED
    BY <1>3, <1>4, <1>7, <1>8, <1>9, <1>10, <1>11, <1>12, <1>13, <1>14, <1>15,
       <1>16, <1>17, <1>18, <1>19, <1>20 DEF Next, Reconcile, Environment

\* The inductive invariant: what the passes hold in memory stays consistent with
\* what is persisted, under every interleaving, error and restart.
THEOREM MemoryConsistent == Spec => []MemoryIsConsistent
  <1>1. Init => MemoryIsConsistent
    BY DEF Init, MemoryIsConsistent, AttemptsBounded, CacheIsCurrent,
           FailureIsCarried, Idle, NoStatus, NoActivation, NoDeployment, NoPod
  <1>2. TypeOK /\ MemoryIsConsistent /\ [Next]_vars => MemoryIsConsistent'
    BY BoundsStep, CacheStep, FailureStep DEF MemoryIsConsistent
  <1> QED
    BY <1>1, <1>2, TypeCorrect, PTL DEF Spec

\* The workload only ever carries attempts that were persisted before it.
THEOREM AttemptsPersistedFirst == Spec => []PersistedFirst
  <1>1. MemoryIsConsistent => PersistedFirst
    BY DEF MemoryIsConsistent, AttemptsBounded, PersistedFirst
  <1> QED
    BY <1>1, MemoryConsistent, PTL

\* A failed attempt is terminal, whatever the informer cache shows, whoever else
\* writes the CR and whichever call fails: only a later attempt leaves it.
THEOREM FailureIsTerminal == Spec => FailedIsTerminal
  <1> DEFINE Kept == status.act.state = "Failed" =>
                        \/ status'.act.state = "Failed"
                        \/ status'.act.attempt > status.act.attempt
  <1>1. TypeOK /\ MemoryIsConsistent /\ [Next]_vars => [Kept]_vars
    <2> SUFFICES ASSUME TypeOK, FailureIsCarried, Next, status.act.state = "Failed"
                 PROVE  \/ status'.act.state = "Failed"
                        \/ status'.act.attempt > status.act.attempt
      BY DEF MemoryIsConsistent
    <2>1. CASE UNCHANGED status
      BY <2>1
    <2>2. CASE Publish
      BY <2>2, PublishStep, PatchKeepsFailure DEF WriteStatus
    <2>3. CASE PublishFails
      BY <2>1, <2>3, PublishFailsStep, PatchKeepsFailure DEF WriteStatus
    <2>4. CASE Record
      BY <2>4, RecordStep, PatchKeepsFailure DEF WriteStatus
    <2>5. CASE RecordConflict \/ RecordFails
      BY <2>1, <2>5, RecordFailsStep, PatchKeepsFailure DEF WriteStatus
    <2>6. CASE Tick
      BY <2>6, TickStep, OlderStatusType DEF TypeOK
    <2>7. CASE \/ Begin \/ BeginFails \/ PublishConflict
               \/ Apply \/ ApplyDeletes \/ ApplyFails \/ Observe \/ ObserveFails
               \/ Contain \/ ContainFails \/ ScaleDown \/ ScaleDownConflict
      BY <2>1, <2>7, BeginStep, BeginFailsStep, PublishConflictStep, ApplyStep,
         ObserveStep, ContainStep
    <2>8. CASE \/ EditSelection \/ EditRetry
               \/ DeploymentReports \/ PodStarts \/ PodStops \/ PodReports
               \/ Sync \/ PollFires \/ Restart
      BY <2>1, <2>8, UserStep, WorkloadStep, OperatorStep
    <2>9. CASE \E t \in Targets :
                  RequestImport(t) \/ ImportSucceeds(t) \/ ImportFails(t)
      BY <2>1, <2>9, ImportStep
    <2> QED
      BY <2>2, <2>3, <2>4, <2>5, <2>6, <2>7, <2>8, <2>9
         DEF Next, Reconcile, Environment
  <1> QED
    BY <1>1, TypeCorrect, MemoryConsistent, PTL DEF Spec, FailedIsTerminal
=============================================================================
