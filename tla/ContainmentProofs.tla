--------------------------- MODULE ContainmentProofs ---------------------------
(***************************************************************************)
(* Containment of faulty images and failed attempts: an import fault is     *)
(* only left by a success, and the workload is only scaled down for a       *)
(* reason that is persisted, for every value of the constants of            *)
(* CatalogActivation.                                                       *)
(***************************************************************************)
EXTENDS ActivationRefinementProofs

-----------------------------------------------------------------------------
(***************************************************************************)
(* What the operators do to the reports on the images                       *)
(***************************************************************************)
\* The reducer leaves the reports alone.
LEMMA ReduceReport ==
    ASSUME NEW st \in Status, NEW gen \in Nat
    PROVE  SameReport(st.conds, Reduce(st, gen).conds)
  <1> DEFINE d == Cond(Truth(IsDegraded(st.conds, gen)), "", gen)
             r == Cond(Truth(IsReady(st.conds, st.act, gen)), "", gen)
  <1> HIDE DEF d, r
  <1>1. ReduceConds(st.conds, st.act, gen)
          = [st.conds EXCEPT !.degraded = d, !.ready = r]
    BY DEF ReduceConds, d, r
  <1>2. st.conds \in Conds
    BY DEF Status
  <1>3. Reduce(st, gen).conds = ReduceConds(st.conds, st.act, gen)
    BY DEF Reduce, Status
  <1> QED
    BY <1>1, <1>2, <1>3 DEF SameReport, Conds

\* So do the workload condition and the reducer after it.
LEMMA WorkloadReport ==
    ASSUME NEW st \in Status, NEW gen \in Nat, NEW c \in Condition
    PROVE  SameReport(st.conds, Reduce([st EXCEPT !.conds.workload = c], gen).conds)
  <1> DEFINE x == [st EXCEPT !.conds.workload = c]
  <1>1. [st.conds EXCEPT !.workload = c] \in Conds
    BY DEF Status, Conds
  <1>2. x = [st EXCEPT !.conds = [st.conds EXCEPT !.workload = c]]
    BY DEF Status
  <1>3. x \in Status /\ SameReport(st.conds, x.conds)
    BY <1>1, <1>2 DEF Status, Conds, SameReport
  <1> HIDE DEF x
  <1>4. SameReport(x.conds, Reduce(x, gen).conds)
    BY <1>3, ReduceReport
  <1> QED
    BY <1>3, <1>4 DEF SameReport, x

LEMMA UnavailableReport ==
    ASSUME NEW st \in Status, NEW gen \in Nat
    PROVE  SameReport(st.conds, Unavailable(st, gen).conds)
  <1>1. Cond("False", "ResourcesUnavailable", gen) \in Condition
    BY CondType DEF TruthValue, Reason
  <1> QED
    BY <1>1, WorkloadReport DEF Unavailable

\* updateStatus reports on the workload only, and keeps the request.
LEMMA ObservedReport ==
    ASSUME NEW st \in Status, NEW gen \in Nat
    PROVE  /\ SameReport(st.conds, Observed(st, gen).conds)
           /\ Observed(st, gen).act.request = st.act.request
  <1> DEFINE ready == Validated(st.act)
             act == ObservedActivation(st.act, PodFailure(st.act), ready)
             a == Cond(Truth(act.state = "Succeeded" /\ ready), "", gen)
             f == IF act.state # "Pending" \/ st.conds.actFailed.st = "None"
                  THEN Cond(Truth(act.state = "Failed"), "", gen)
                  ELSE st.conds.actFailed
             w == IF DeploymentAvailable(st.images)
                  THEN Cond("True", "DeploymentAvailable", gen)
                  ELSE Cond("False", "DeploymentUnavailable", gen)
             conds == [st.conds EXCEPT !.actReady = a, !.actFailed = f, !.workload = w]
             x == [st EXCEPT !.act = act, !.conds = conds]
  <1>1. ready \in BOOLEAN /\ st.act \in Activation /\ st.conds \in Conds
    BY DEF Validated, Status
  <1>2. act \in Activation /\ act.request = st.act.request
    <2>1. act \in Activation
      BY <1>1, ObservedActivationType
    <2>2. act.request = st.act.request
      BY <1>1 DEF ObservedActivation, Retrying, Succeeded, Activation
    <2> QED
      BY <2>1, <2>2
  <1>3. a \in Condition /\ f \in Condition /\ w \in Condition
    <2>1. /\ Truth(act.state = "Succeeded" /\ ready) \in TruthValue
          /\ Truth(act.state = "Failed") \in TruthValue
      BY DEF Truth, TruthValue
    <2>2. {"", "DeploymentAvailable", "DeploymentUnavailable"} \subseteq Reason
      BY DEF Reason
    <2>3. {"True", "False"} \subseteq TruthValue
      BY DEF TruthValue
    <2> QED
      BY <1>1, <2>1, <2>2, <2>3, CondType DEF Conds
  <1>4. Observed(st, gen) = Reduce(x, gen)
    BY DEF Observed
  <1> HIDE DEF ready, act, a, f, w
  <1>5. conds \in Conds /\ SameReport(st.conds, conds)
    BY <1>1, <1>3 DEF Conds, SameReport
  <1> HIDE DEF conds
  <1>6. x \in Status /\ x.conds = conds /\ x.act = act
    BY <1>2, <1>5 DEF Status
  <1> HIDE DEF x
  <1> QED
    BY <1>2, <1>4, <1>5, <1>6, ReduceReport, ReduceType DEF SameReport

\* resolveCatalogDataImages reports the outcomes, prepareActivation keeps that.
LEMMA ResolvedReport ==
    ASSUME NEW st \in Status, NEW out \in [Targets -> OutcomeType], NEW gen \in Nat
    PROVE  LET c == Resolved(st, out, gen).conds
           IN  /\ c.res = [t \in Targets |-> out[t].res]
               /\ c.health = [t \in Targets |-> out[t].health]
               /\ c.blocked = Cond(Truth(Faulty(out)), "", gen)
               /\ c.resolved = Aggregate([t \in Targets |-> out[t].res], gen)
  <1> DEFINE res == [t \in Targets |-> out[t].res]
             health == [t \in Targets |-> out[t].health]
             agg == Aggregate(res, gen)
             blocked == Cond(Truth(Faulty(out)), "", gen)
             images == IF agg.st = "True" THEN [t \in Targets |-> out[t].image]
                       ELSE NoImages
             w == IF images # st.images THEN Cond("False", "ImagesUpdating", gen)
                  ELSE st.conds.workload
             conds == [st.conds EXCEPT !.res = res, !.health = health,
                          !.resolved = agg, !.blocked = blocked, !.workload = w]
             x == [st EXCEPT !.images = images, !.conds = conds]
  <1>1. /\ res \in [Targets -> Condition] /\ health \in [Targets -> Condition]
        /\ [t \in Targets |-> out[t].image] \in [Targets -> Image]
    BY DEF OutcomeType
  <1>2. agg \in Condition
    BY <1>1, AggregateType
  <1>3. images \in [Targets -> Image \cup {"none"}]
    BY <1>1 DEF NoImages
  <1>4. blocked \in Condition /\ w \in Condition
    <2>1. Truth(Faulty(out)) \in TruthValue /\ "" \in Reason
      BY DEF Truth, TruthValue, Reason
    <2>2. "False" \in TruthValue /\ "ImagesUpdating" \in Reason
      BY DEF TruthValue, Reason
    <2> QED
      BY <2>1, <2>2, CondType DEF Status, Conds
  <1>5. Resolved(st, out, gen) = Reduce(x, gen)
    BY DEF Resolved
  <1> HIDE DEF res, health, agg, blocked, images, w
  <1>6. /\ conds \in Conds /\ conds.res = res /\ conds.health = health
        /\ conds.blocked = blocked /\ conds.resolved = agg
    BY <1>1, <1>2, <1>4 DEF Status, Conds
  <1> HIDE DEF conds
  <1>7. x \in Status /\ x.conds = conds
    BY <1>3, <1>6 DEF Status
  <1> HIDE DEF x
  <1>8. /\ SameReport(x.conds, Reduce(x, gen).conds)
        /\ Reduce(x, gen).conds.resolved = x.conds.resolved
    BY <1>7, ReduceReport, ReduceReady
  <1> QED
    BY <1>5, <1>6, <1>7, <1>8 DEF SameReport, res, health, agg, blocked

LEMMA PreparedReport ==
    ASSUME NEW st \in Status, NEW req \in Request, NEW gen \in Nat, NEW id \in Nat
    PROVE  SameReport(st.conds, Prepared(st, req, gen, id).conds)
  <1> DEFINE act == IF IsNewRequest(st.act, req)
                    THEN NewAttempt(st.act, req, id) ELSE st.act
             new == Unresolved(act, st.conds.resolved)
             x == [st EXCEPT !.act = new]
  <1>1. Prepared(st, req, gen, id) = Reduce(x, gen)
    BY DEF Prepared
  <1>2. new \in Activation
    <2>1. st.act \in Activation /\ st.act.last \in Nat
      BY DEF Status, Activation
    <2>2. NewAttempt(st.act, req, id) \in Activation
      BY <2>1, DeadlineAssumption DEF NewAttempt, Activation, Request, Never
    <2>3. act \in Activation
      BY <2>1, <2>2
    <2> HIDE DEF act
    <2> QED
      BY <2>3 DEF Unresolved, Activation
  <1> HIDE DEF new
  <1>3. x \in Status /\ x.conds = st.conds
    BY <1>2 DEF Status
  <1> HIDE DEF x
  <1> QED
    BY <1>1, <1>3, ReduceReport

\* What is reported of a target, with st read: a fault as bad health; bad health
\* and waiting are faults, waiting is for an earlier fault, what is neither
\* healthy nor a fault follows none, and every other fault is a failed resolution.
Honest(o, t, st) ==
    /\ o.res.reason \in ImportFaults \ {"AwaitingSuccessfulImport"}
          => o.health.st = "False"
    /\ (o.health.st = "False" \/ o.res.reason = "AwaitingSuccessfulImport")
          => IsFault(o.res, o.health)
    /\ o.res.reason = "AwaitingSuccessfulImport" => AwaitingRecovery(t, st)
    /\ (o.health.st # "True" /\ ~IsFault(o.res, o.health)) => ~AwaitingRecovery(t, st)
    /\ (IsFault(o.res, o.health) /\ o.res.reason # "AwaitingSuccessfulImport")
          => o.res.st = "False" /\ o.res.reason # "NoSuccessfulImport"

\* The outcome of one target is honest.
LEMMA OutcomeReport ==
    ASSUME NEW t \in Targets, NEW sel \in Selection, NEW gen \in Nat, NEW st,
           NEW s \in Stream, NEW applied \in Image, NEW io \in IOResult,
           s.item \in Digests => s.good # "none"
    PROVE  Honest(ResolveTarget(t, sel, gen, st, s, applied, io), t, st)
  <1> DEFINE h == ImportHealth(s)
             o == ResolveTarget(t, sel, gen, st, s, applied, io)
             ev == ImportEvidence(t, gen, st, s)
  <1>1. /\ h.st = "False" => h.reason \in {"ImportFailed", "InvalidImportedImage"}
        /\ h.st \in {"True", "False", "Unknown"}
        /\ h.st = "True" => s.good # "none"
    BY DEF ImportHealth, Stream
  <1>2. CASE sel \in {"", "invalid"} \cup Digests \/ ~IsOpenShift
    <2>1. o.health.st = "True" /\ o.health.reason = "NotTrackingImageStream"
      BY <1>2, DigestsAssumption DEF ResolveTarget, Outcome, Cond, Selection
    <2>2. \/ o.res.st = "True" /\ o.res.reason \in {"ReleaseDefault", "DigestPinned"}
          \/ /\ o.res.st = "False"
             /\ o.res.reason \in {"InvalidDataImageSelection",
                                  "UnsupportedDataImageSelection"}
      BY <1>2, DigestsAssumption DEF ResolveTarget, Outcome, Cond, Selection
    <2> HIDE DEF o
    <2>3. Honest(o, t, st)
      BY <2>1, <2>2 DEF Honest, IsFault, ImportFaults
    <2> QED
      BY <2>3 DEF o
  <1>3. CASE sel \notin {"", "invalid"} \cup Digests /\ IsOpenShift
    <2>1. o = ResolveFollowed(t, gen, st, s, applied, io)
      BY <1>3 DEF ResolveTarget
    <2> HIDE DEF o, h, ev
    <2>2. \/ /\ o.res.st = "False" /\ o.res.reason = "ImageStreamUnavailable"
             /\ o.health.st = "False"
          \/ /\ o.health.st = h.st /\ h.st = "False"
             /\ o.res.st = "False" /\ o.res.reason = h.reason
          \/ /\ o.health.st = h.st /\ h.st = "Unknown" /\ AwaitingRecovery(t, st)
             /\ o.res.st = "Unknown" /\ o.res.reason = "AwaitingSuccessfulImport"
          \/ /\ o.health.st = h.st /\ h.st # "False"
             /\ h.st = "Unknown" => ~AwaitingRecovery(t, st)
             /\ \/ o.res.st = "True" /\ o.res.reason = "ImageStreamResolved"
                \/ /\ h.st # "True"
                   /\ o.res.st = "False"
                   /\ o.res.reason \in {"AppliedImageReadFailed", "NoSuccessfulImport"}
      BY <1>1, <2>1 DEF ResolveFollowed, Outcome, Cond, h, ev
    <2>3. Honest(o, t, st)
      BY <1>1, <2>2 DEF Honest, IsFault, ImportFaults
    <2> QED
      BY <2>3 DEF o
  <1> QED
    BY <1>2, <1>3

\* The same of every target of a pass.
LEMMA OutcomesReport ==
    ASSUME TypeOK, NEW sp \in CatalogSpec, NEW st \in Status, NEW io \in IOResults,
           \A t \in Targets : stream[t].item \in Digests => stream[t].good # "none",
           NEW t \in Targets
    PROVE  Honest(Outcomes(sp, st, io)[t], t, st)
  <1> DEFINE s == Ensured(sp, io)[t]
  <1>1. /\ sp.sel[t] \in Selection /\ sp.gen \in Nat /\ s \in Stream
        /\ AppliedImage(t) \in Image /\ io[t] \in IOResult
    BY EnsuredType
       DEF CatalogSpec, AppliedImage, TypeOK, Deployment, Image, IOResults
  <1>2. s.item \in Digests => s.good # "none"
    <2>1. stream[t] \in Stream
      BY DEF TypeOK
    <2> QED
      BY <2>1 DEF Ensured, Stream
  <1>3. Outcomes(sp, st, io)[t]
          = ResolveTarget(t, sp.sel[t], sp.gen, st, s, AppliedImage(t), io[t])
    BY DEF Outcomes
  <1> HIDE DEF s
  <1> QED
    BY <1>1, <1>2, <1>3, OutcomeReport

\* A resolved status reports consistently, and leaves faults by a success.
LEMMA ResolvedIsHeld ==
    ASSUME TypeOK, NEW sp \in CatalogSpec, NEW st \in Status, NEW io \in IOResults,
           \A t \in Targets : stream[t].item \in Digests => stream[t].good # "none",
           Reported(st.conds)
    PROVE  LET c == Resolved(st, Outcomes(sp, st, io), sp.gen).conds
           IN  Reported(c) /\ LeftBySuccess(st.conds, c)
  <1> DEFINE out == Outcomes(sp, st, io)
             c == Resolved(st, out, sp.gen).conds
  <1>1. out \in [Targets -> OutcomeType] /\ sp.gen \in Nat
    BY OutcomesType DEF CatalogSpec
  <1> HIDE DEF out
  <1> DEFINE v == Truth(Faulty(out))
  <1>2. /\ c.blocked = Cond(v, "", sp.gen)
        /\ c.res = [t \in Targets |-> out[t].res]
        /\ c.health = [t \in Targets |-> out[t].health]
    BY <1>1, ResolvedReport
  <1> HIDE DEF c, v
  <1>3. /\ c.blocked.st = v
        /\ \A t \in Targets : c.res[t] = out[t].res /\ c.health[t] = out[t].health
    <2>1. c.blocked.st = v
      <3>1. c.blocked = [st |-> v, reason |-> "", gen |-> sp.gen]
        BY <1>2 DEF Cond
      <3>2. ASSUME NEW x, NEW w, NEW g, x = [st |-> w, reason |-> "", gen |-> g]
            PROVE  x.st = w
        BY <3>2
      <3> QED
        BY <3>1, <3>2
    <2>2. \A t \in Targets : c.res[t] = out[t].res /\ c.health[t] = out[t].health
      BY <1>2
    <2> QED
      BY <2>1, <2>2
  <1>4. ASSUME NEW t \in Targets
        PROVE  /\ c.res[t].reason \in ImportFaults \ {"AwaitingSuccessfulImport"}
                     => c.health[t].st = "False"
               /\ (\/ c.health[t].st = "False"
                   \/ c.res[t].reason = "AwaitingSuccessfulImport")
                     => c.blocked.st = "True"
    BY <1>3, <1>4, OutcomesReport DEF Faulty, Truth, Honest, out, v
  <1>5. ASSUME NEW t \in Targets, c.blocked.st = "False",
               st.conds.res[t].reason \in ImportFaults
        PROVE  c.health[t].st = "True"
    <2>1. ~IsFault(out[t].res, out[t].health)
      BY <1>3, <1>5 DEF Faulty, Truth, v
    <2>2. AwaitingRecovery(t, st)
      BY <1>5 DEF Reported, AwaitingRecovery
    <2> QED
      BY <1>3, <2>1, <2>2, OutcomesReport DEF Honest, out
  <1> QED
    BY <1>4, <1>5 DEF Reported, LeftBySuccess, c, out

-----------------------------------------------------------------------------
(***************************************************************************)
(* An import fault is left by a success                                     *)
(***************************************************************************)
\* The history of a stream with a usable newest import has a usable digest.
Usable == \A t \in Targets : stream[t].item \in Digests => stream[t].good # "none"

LEMMA UsableStep == TypeOK /\ Usable /\ [Next]_vars => Usable'
  <1> SUFFICES ASSUME TypeOK, Usable, [Next]_vars, NEW t \in Targets
               PROVE  stream'[t].item \in Digests => stream'[t].good # "none"
    BY DEF Usable
  <1>1. /\ \A u \in Targets : stream[u] \in Stream
        /\ stream[t].item \in Digests => stream[t].good # "none"
        /\ stream \in [Targets -> Stream]
    BY DEF TypeOK, Usable
  <1>2. CASE Begin \/ BeginFails
    <2>1. stream' = stream \/ \E io \in IOResults : stream' = Ensured(cache.spec, io)
      BY <1>2 DEF Begin, BeginFails, AllOK, IOResults, IOResult
    <2> QED
      BY <1>1, <2>1 DEF Ensured, Stream
  <1>3. CASE \E u \in Targets : RequestImport(u) \/ ImportSucceeds(u) \/ ImportFails(u)
    <2>1. PICK u \in Targets : RequestImport(u) \/ ImportSucceeds(u) \/ ImportFails(u)
      BY <1>3
    <2>2. CASE RequestImport(u)
      BY <1>1, <2>2 DEF RequestImport, Stream
    <2>3. CASE ImportSucceeds(u)
      <3>1. PICK d \in Digests :
               stream' = [stream EXCEPT ![u] =
                            [@ EXCEPT !.item = d, !.itemGen = stream[u].gen,
                                      !.good = d, !.failed = 0]]
        BY <2>3 DEF ImportSucceeds
      <3> QED
        BY <1>1, <3>1, DigestsAssumption DEF Stream
    <2>4. CASE ImportFails(u)
      <3>1. \/ stream' = [stream EXCEPT ![u].failed = stream[u].gen]
            \/ stream' = [stream EXCEPT ![u] =
                            [@ EXCEPT !.item = "unusable", !.itemGen = stream[u].gen]]
        BY <2>4 DEF ImportFails
      <3>2. "unusable" \notin Digests
        BY DigestsAssumption
      <3>3. CASE stream' = [stream EXCEPT ![u].failed = stream[u].gen]
        BY <1>1, <3>3 DEF Stream
      <3>4. CASE stream' = [stream EXCEPT ![u] =
                              [@ EXCEPT !.item = "unusable",
                                        !.itemGen = stream[u].gen]]
        <4>1. stream'[t] = stream[t] \/ stream'[t].item = "unusable"
          BY <1>1, <3>4 DEF Stream
        <4> QED
          BY <1>1, <3>2, <4>1
      <3> QED
        BY <3>1, <3>3, <3>4
    <2> QED
      BY <2>1, <2>2, <2>3, <2>4
  <1>4. CASE UNCHANGED stream
    BY <1>1, <1>4
  <1>5. \/ Begin \/ BeginFails \/ UNCHANGED stream
        \/ \E u \in Targets : RequestImport(u) \/ ImportSucceeds(u) \/ ImportFails(u)
    BY DEF Next, Reconcile, Environment, Publish, PublishConflict, PublishFails, Apply,
           ApplyDeletes, ApplyFails, Observe, ObserveFails, Record, RecordConflict,
           RecordFails, Contain, ContainFails, ScaleDown, ScaleDownConflict,
           EditSelection, EditRetry, UserWrites, DeploymentReports, PodStarts,
           PodStops, PodReports, Sync, PollFires, Tick, Restart, vars
  <1> QED
    BY <1>2, <1>3, <1>4, <1>5

\* A step that writes no conditions, and keeps the reports of the pass.
LEMMA HeldQuiet ==
    ASSUME FaultsAreHeld, status'.conds = status.conds,
           cache'.status.conds \in {cache.status.conds, status.conds},
           rec'.base.conds = rec.base.conds,
           SameReport(rec.st.conds, rec'.st.conds), Writing' => Writing
    PROVE  FaultsAreHeld'
  <1>1. /\ Reported(status.conds) /\ Reported(cache.status.conds)
        /\ Reported(rec.base.conds) /\ Reported(rec.st.conds)
    BY DEF FaultsAreHeld
  <1>2. Reported(rec'.st.conds)
    BY <1>1 DEF SameReport, Reported
  <1>3. Writing' =>
          \/ /\ rec'.base.conds = status'.conds
             /\ LeftBySuccess(status'.conds, rec'.st.conds)
          \/ SameReport(status'.conds, rec'.st.conds)
    BY DEF FaultsAreHeld, SameReport, LeftBySuccess
  <1> QED
    BY <1>1, <1>2, <1>3 DEF FaultsAreHeld

\* A step after which the pass can write no more.
LEMMA HeldSilent ==
    ASSUME FaultsAreHeld, ~Writing', Reported(status'.conds),
           Reported(rec'.base.conds), Reported(rec'.st.conds),
           cache'.status.conds \in {cache.status.conds, status.conds, status'.conds}
    PROVE  FaultsAreHeld'
  <1>1. Reported(cache'.status.conds)
    BY DEF FaultsAreHeld
  <1> QED
    BY <1>1 DEF FaultsAreHeld

LEMMA IdleReport ==
    ASSUME rec' = Idle
    PROVE  ~Writing' /\ Reported(rec'.base.conds) /\ Reported(rec'.st.conds)
  <1>1. Reported(NoConds)
    BY DEF Reported, NoConds, NoCond, Cond, ImportFaults
  <1>2. /\ rec'.pc = "idle" /\ rec'.base.conds = NoConds /\ rec'.st.conds = NoConds
    BY DEF Idle, NoStatus
  <1> QED
    BY <1>1, <1>2 DEF Writing, Deciding

\* A pass reports what it resolved, against the status it read.
LEMMA BeginReports ==
    ASSUME TypeOK, Usable, FaultsAreHeld, Begin
    PROVE  /\ Reported(rec'.st.conds)
           /\ LeftBySuccess(cache.status.conds, rec'.st.conds)
  <1> DEFINE sp == cache.spec
             out(io) == Outcomes(sp, cache.status, io)
             st(io)  == Resolved(cache.status, out(io), sp.gen)
             req(io) == RequestOf(sp, out(io), st(io))
             id      == count.attempts + 1
             new(io) == Prepared(st(io), req(io), sp.gen, id)
  <1>1. PICK io \in IOResults :
           rec' = [pc |-> "publish",
                   mode |-> IF Faulty(out(io)) THEN "fault" ELSE "normal",
                   gen |-> sp.gen, base |-> cache.status, st |-> new(io),
                   err |-> io # AllOK, saw |-> FALSE]
    BY DEF Begin
  <1>2. /\ sp \in CatalogSpec /\ cache.status \in Status /\ sp.gen \in Nat /\ id \in Nat
        /\ Reported(cache.status.conds)
    BY NumberType DEF FaultsAreHeld
  <1>3. out(io) \in [Targets -> OutcomeType]
    BY <1>2, OutcomesType
  <1>4. st(io) \in Status
    BY <1>2, <1>3, ResolvedType
  <1>5. req(io) \in Request
    BY <1>2, <1>3, <1>4, RequestOfType
  <1>6. Reported(st(io).conds) /\ LeftBySuccess(cache.status.conds, st(io).conds)
    BY <1>2, ResolvedIsHeld DEF Usable
  <1> HIDE DEF st, out, req, id
  <1>7. SameReport(st(io).conds, new(io).conds)
    <2> DEFINE g == sp.gen
    <2> HIDE DEF g
    <2>1. g \in Nat /\ new(io) = Prepared(st(io), req(io), g, id)
      BY <1>2 DEF g
    <2> HIDE DEF new
    <2> QED
      BY <1>2, <1>4, <1>5, <2>1, PreparedReport
  <1> HIDE DEF new, sp
  <1>8. rec'.st = new(io)
    BY <1>1
  <1> QED
    BY <1>6, <1>7, <1>8 DEF SameReport, Reported, LeftBySuccess

LEMMA BeginFailsReports ==
    ASSUME TypeOK, Usable, FaultsAreHeld, BeginFails
    PROVE  /\ Reported(rec'.st.conds)
           /\ LeftBySuccess(cache.status.conds, rec'.st.conds)
  <1> DEFINE sp == cache.spec
             out == Outcomes(sp, cache.status, AllOK)
             st(b) == IF b THEN Resolved(cache.status, out, sp.gen) ELSE cache.status
  <1>1. PICK resolved \in BOOLEAN :
           rec' = [pc |-> "record", mode |-> "error", gen |-> sp.gen,
                   base |-> cache.status, err |-> TRUE, saw |-> FALSE,
                   st |-> Unavailable(st(resolved), sp.gen)]
    BY DEF BeginFails
  <1>2. /\ sp \in CatalogSpec /\ cache.status \in Status
        /\ sp.gen \in Nat /\ AllOK \in IOResults
        /\ Reported(cache.status.conds)
    BY NumberType DEF IOResult, IOResults, AllOK, FaultsAreHeld
  <1>3. out \in [Targets -> OutcomeType]
    BY <1>2, OutcomesType
  <1>4. Resolved(cache.status, out, sp.gen) \in Status
    BY <1>2, <1>3, ResolvedType
  <1>5. /\ Reported(Resolved(cache.status, out, sp.gen).conds)
        /\ LeftBySuccess(cache.status.conds, Resolved(cache.status, out, sp.gen).conds)
    BY <1>2, ResolvedIsHeld DEF Usable
  <1>6. /\ st(resolved) \in Status /\ Reported(st(resolved).conds)
        /\ LeftBySuccess(cache.status.conds, st(resolved).conds)
    BY <1>2, <1>4, <1>5 DEF LeftBySuccess
  <1> HIDE DEF st, sp
  <1>7. SameReport(st(resolved).conds, Unavailable(st(resolved), sp.gen).conds)
    BY <1>2, <1>6, UnavailableReport
  <1>8. rec'.st = Unavailable(st(resolved), sp.gen)
    BY <1>1
  <1> QED
    BY <1>6, <1>7, <1>8 DEF SameReport, Reported, LeftBySuccess

\* After a read: what the pass may write leaves the persisted faults by a success.
LEMMA ReadHeld ==
    ASSUME TypeOK, MemoryIsConsistent, Usable, FaultsAreHeld, Begin \/ BeginFails
    PROVE  FaultsAreHeld' /\ UNCHANGED status
  <1>1. /\ rec'.base = cache.status /\ lock'.cat = cache.fresh
        /\ UNCHANGED <<status, cache>>
    BY BeginStep, BeginFailsStep
  <1>2. /\ Reported(rec'.st.conds)
        /\ LeftBySuccess(cache.status.conds, rec'.st.conds)
    BY BeginReports, BeginFailsReports
  <1>3. Writing' => rec'.base.conds = status'.conds
    BY <1>1 DEF Writing, MemoryIsConsistent, CacheIsCurrent
  <1> QED
    BY <1>1, <1>2, <1>3 DEF FaultsAreHeld

\* What a patch writes reports consistently and leaves faults by a success.
LEMMA PatchReports ==
    ASSUME TypeOK, FaultsAreHeld, rec.pc \in {"publish", "record"},
           PatchAllowed(rec.base, rec.st)
    PROVE  LET new == Patched(rec.base, rec.st)
           IN  Reported(new.conds) /\ LeftBySuccess(status.conds, new.conds)
  <1> DEFINE new == Patched(rec.base, rec.st)
  <1>1. Reported(status.conds) /\ Reported(rec.st.conds)
    BY DEF FaultsAreHeld
  <1>2. CASE rec.st = rec.base
    BY <1>1, <1>2 DEF Patched, LeftBySuccess
  <1>3. CASE rec.st # rec.base
    <2>1. lock.cat /\ new.conds = Keep(status.conds, rec.base.conds, rec.st.conds)
      BY <1>3 DEF PatchAllowed, Patched, Merge
    <2> HIDE DEF new
    <2>2. LeftBySuccess(status.conds, rec.st.conds)
      BY <2>1 DEF FaultsAreHeld, Writing, Deciding, SameReport, LeftBySuccess
    <2>3. LeftBySuccess(status.conds, status.conds)
      BY DEF LeftBySuccess
    <2>4. Reported(new.conds) /\ LeftBySuccess(status.conds, new.conds)
      BY <1>1, <2>1, <2>2, <2>3 DEF Keep
    <2> QED
      BY <2>4 DEF new
  <1> QED
    BY <1>2, <1>3

\* The first patch: the pass goes on with what it wrote.
LEMMA PublishHeld ==
    ASSUME TypeOK, MemoryIsConsistent, StatusIsEarned, FaultsAreHeld, Publish
    PROVE  FaultsAreHeld' /\ LeftBySuccess(status.conds, status'.conds)
  <1> DEFINE new == Patched(rec.base, rec.st)
  <1>1. /\ rec.pc = "publish" /\ PatchAllowed(rec.base, rec.st) /\ WriteStatus(new)
        /\ rec'.base = rec.base
        /\ rec'.st = IF rec.st = rec.base THEN rec.st ELSE new
        /\ UNCHANGED lock
    BY PublishStep
  <1>2. Reported(new.conds) /\ LeftBySuccess(status.conds, new.conds) /\ new \in Status
    BY <1>1, PatchReports, PatchStep
  <1>3. lock.cat => new = rec.st
    BY <1>1, PatchIsEarned
  <1> HIDE DEF new
  <1>4. status' = new /\ cache'.status \in {cache.status, new}
    BY <1>1, <1>2, WriteStatusType
  <1>5. Writing' => SameReport(status'.conds, rec'.st.conds)
    BY <1>1, <1>3, <1>4 DEF Writing, SameReport
  <1> QED
    BY <1>1, <1>2, <1>4, <1>5 DEF FaultsAreHeld

LEMMA PublishFailsHeld ==
    ASSUME TypeOK, FaultsAreHeld, PublishConflict \/ PublishFails
    PROVE  FaultsAreHeld' /\ LeftBySuccess(status.conds, status'.conds)
  <1>1. CASE PublishConflict
    <2>1. UNCHANGED <<status, cache>> /\ ~lock.cat
      BY <1>1 DEF PublishConflict, PatchAllowed
    <2>2. CASE rec' = Idle
      BY <2>1, <2>2, IdleReport, HeldSilent DEF FaultsAreHeld, LeftBySuccess
    <2>3. CASE rec'.base = rec.base /\ rec'.st = rec.st /\ lock' = lock
      <3>1. ~Writing'
        BY <2>1, <2>3 DEF Writing
      <3> QED
        BY <2>1, <2>3, <3>1, HeldSilent DEF FaultsAreHeld, LeftBySuccess
    <2> QED
      BY <1>1, <2>2, <2>3, PublishConflictStep
  <1>2. CASE PublishFails
    <2>1. PICK new \in {status, Patched(rec.base, rec.st)} :
             WriteStatus(new) /\ lock'.cat = (new = status)
      BY <1>2, PublishFailsStep
    <2>2. /\ rec.pc = "publish" /\ PatchAllowed(rec.base, rec.st)
          /\ rec.st # rec.base /\ lock.cat /\ rec'.base = rec.base
      BY <1>2, PublishFailsStep DEF PatchAllowed
    <2>3. SameReport(rec.st.conds, rec'.st.conds)
      <3>1. /\ rec \in Reconciler /\ rec.st \in Status /\ rec.gen \in Nat
        BY NumberType DEF TypeOK
      <3>2. SameReport(rec.st.conds, Unavailable(rec.st, rec.gen).conds)
        BY <3>1, UnavailableReport
      <3>3. rec'.st \in {rec.st, Unavailable(rec.st, rec.gen)}
        BY <1>2, <3>1 DEF PublishFails, Reconciler
      <3> QED
        BY <3>2, <3>3 DEF SameReport
    <2>4. /\ Reported(new.conds) /\ LeftBySuccess(status.conds, new.conds)
          /\ new \in Status
      BY <2>2, PatchReports, PatchStep, NumberType DEF FaultsAreHeld, LeftBySuccess
    <2>5. status' = new /\ cache'.status \in {cache.status, new}
      BY <2>1, <2>4, WriteStatusType
    <2>6. CASE new = status
      <3>1. Writing
        BY <2>2 DEF Writing, Deciding
      <3> QED
        BY <2>2, <2>3, <2>4, <2>5, <2>6, <3>1, HeldQuiet
    <2>7. CASE new # status
      <3>1. ~Writing'
        BY <2>1, <2>7 DEF Writing
      <3>2. Reported(rec'.st.conds) /\ Reported(rec'.base.conds)
        BY <2>2, <2>3 DEF FaultsAreHeld, SameReport, Reported
      <3> QED
        BY <2>4, <2>5, <3>1, <3>2, HeldSilent
    <2> QED
      BY <2>6, <2>7
  <1> QED
    BY <1>1, <1>2

\* Errors before and while observing, and what is observed, are of the workload.
LEMMA WorkHeld ==
    ASSUME TypeOK, FaultsAreHeld,
           Apply \/ ApplyDeletes \/ ApplyFails \/ Observe \/ ObserveFails
    PROVE  FaultsAreHeld' /\ UNCHANGED status
  <1>1. /\ rec.pc \in {"apply", "observe"} /\ rec'.base = rec.base
        /\ UNCHANGED <<status, cache, lock>>
    BY ApplyStep, ObserveStep
  <1>2. rec \in Reconciler /\ rec.st \in Status /\ rec.gen \in Nat
    BY NumberType DEF TypeOK
  <1>3. SameReport(rec.st.conds, rec'.st.conds)
    <2>1. CASE Apply \/ ApplyDeletes
      BY <1>2, <2>1 DEF Apply, ApplyDeletes, Reconciler, SameReport
    <2>2. CASE ApplyFails
      <3>1. rec'.st = Unavailable(rec.st, rec.gen)
        BY <1>2, <2>2 DEF ApplyFails, Reconciler
      <3> QED
        BY <1>2, <3>1, UnavailableReport
    <2>3. CASE Observe
      <3>1. rec'.st = Observed(rec.st, rec.gen)
        BY <1>2, <2>3 DEF Observe, Reconciler
      <3> QED
        BY <1>2, <3>1, ObservedReport
    <2>4. CASE ObserveFails
      <3>1. /\ Cond("Unknown", "WorkloadStatusUnknown", rec.gen) \in Condition
            /\ Cond("Unknown", "ActivationStatusUnknown", rec.gen) \in Condition
            /\ Cond("False", "ActivationStatusUnknown", rec.gen) \in Condition
        BY <1>2, CondType DEF TruthValue, Reason
      <3>2. rec.st.conds \in Conds
        BY <1>2 DEF Status
      <3>3. PICK conds \in
            {[rec.st.conds EXCEPT !.workload =
                 Cond("Unknown", "WorkloadStatusUnknown", rec.gen)],
             [rec.st.conds EXCEPT !.workload =
                 Cond("Unknown", "ActivationStatusUnknown", rec.gen)],
             [rec.st.conds EXCEPT !.actReady =
                 Cond("False", "ActivationStatusUnknown", rec.gen)]} :
               rec' = [rec EXCEPT
                     !.pc = "record", !.mode = "error", !.err = TRUE,
                     !.st = Reduce([rec.st EXCEPT !.conds = conds], rec.gen)]
        BY <2>4 DEF ObserveFails
      <3>4. conds \in Conds /\ SameReport(rec.st.conds, conds)
        BY <3>1, <3>2, <3>3 DEF Conds, SameReport
      <3> DEFINE x == [rec.st EXCEPT !.conds = conds]
      <3>5. x \in Status /\ x.conds = conds
        BY <1>2, <3>4 DEF Status
      <3> HIDE DEF x
      <3>6. SameReport(x.conds, Reduce(x, rec.gen).conds)
        BY <1>2, <3>5, ReduceReport
      <3>7. rec'.st = Reduce(x, rec.gen)
        BY <1>2, <3>3 DEF x, Reconciler
      <3> QED
        BY <3>4, <3>5, <3>6, <3>7 DEF SameReport
    <2> QED
      BY <2>1, <2>2, <2>3, <2>4
  <1>4. Writing' => Writing
    BY <1>1 DEF Writing, Deciding
  <1> QED
    BY <1>1, <1>3, <1>4, HeldQuiet

\* The second patch is the last one of the pass.
LEMMA RecordHeld ==
    ASSUME TypeOK, FaultsAreHeld, Record \/ RecordConflict \/ RecordFails
    PROVE  FaultsAreHeld' /\ LeftBySuccess(status.conds, status'.conds)
  <1>1. CASE Record
    <2> DEFINE new == Patched(rec.base, rec.st)
    <2>1. /\ rec.pc = "record" /\ PatchAllowed(rec.base, rec.st) /\ WriteStatus(new)
      BY <1>1, RecordStep
    <2>2. /\ Reported(new.conds) /\ LeftBySuccess(status.conds, new.conds)
          /\ new \in Status
      BY <2>1, PatchReports, PatchStep
    <2>3. ~Writing' /\ Reported(rec'.base.conds) /\ Reported(rec'.st.conds)
      <3>1. CASE rec' = Idle
        BY <3>1, IdleReport
      <3>2. CASE /\ rec.mode = "normal"
                 /\ rec' = [rec EXCEPT !.pc = "contain",
                              !.st = IF rec.st = rec.base THEN rec.st ELSE new]
        <4>1. /\ rec'.pc = "contain" /\ rec'.mode = "normal" /\ rec'.base = rec.base
              /\ rec'.st \in {rec.st, new}
          BY <3>2 DEF TypeOK, Reconciler
        <4> QED
          BY <2>2, <4>1 DEF Writing, Deciding, FaultsAreHeld
      <3> QED
        BY <1>1, <3>1, <3>2 DEF Record, Finish
    <2> HIDE DEF new
    <2>4. status' = new /\ cache'.status \in {cache.status, new}
      BY <2>1, <2>2, WriteStatusType
    <2> QED
      BY <2>2, <2>3, <2>4, HeldSilent
  <1>2. CASE RecordConflict \/ RecordFails
    <2>1. /\ rec.pc = "record" /\ rec' = Idle
          /\ \/ UNCHANGED <<status, cache>>
             \/ \E new \in {status, Patched(rec.base, rec.st)} :
                   PatchAllowed(rec.base, rec.st) /\ WriteStatus(new)
      BY <1>2, RecordFailsStep
    <2>2. CASE UNCHANGED <<status, cache>>
      BY <2>1, <2>2, IdleReport, HeldSilent DEF FaultsAreHeld, LeftBySuccess
    <2>3. CASE \E new \in {status, Patched(rec.base, rec.st)} :
                  PatchAllowed(rec.base, rec.st) /\ WriteStatus(new)
      <3>1. PICK new \in {status, Patched(rec.base, rec.st)} :
               PatchAllowed(rec.base, rec.st) /\ WriteStatus(new)
        BY <2>3
      <3>2. /\ Reported(new.conds) /\ LeftBySuccess(status.conds, new.conds)
            /\ new \in Status
        BY <2>1, <3>1, PatchReports, PatchStep, NumberType
           DEF FaultsAreHeld, LeftBySuccess
      <3>3. status' = new /\ cache'.status \in {cache.status, new}
        BY <3>1, <3>2, WriteStatusType
      <3> QED
        BY <2>1, <3>2, <3>3, IdleReport, HeldSilent
    <2> QED
      BY <2>1, <2>2, <2>3
  <1> QED
    BY <1>1, <1>2

\* Containment reports of itself only.
LEMMA ContainHeld ==
    ASSUME TypeOK, FaultsAreHeld,
           Contain \/ ContainFails \/ ScaleDown \/ ScaleDownConflict
    PROVE  FaultsAreHeld' /\ UNCHANGED status
  <1>1. UNCHANGED <<status, cache>> /\ rec.pc \in {"contain", "scale"}
    BY ContainStep
  <1>2. rec \in Reconciler /\ rec.st \in Status /\ rec.gen \in Nat
    BY NumberType DEF TypeOK
  <1>3. CASE rec' = [rec EXCEPT !.pc = "scale"] /\ lock' = [lock EXCEPT !.dep = TRUE]
    <2>1. /\ rec'.pc = "scale" /\ rec'.mode = rec.mode
          /\ rec'.base = rec.base /\ rec'.st = rec.st
      BY <1>2, <1>3 DEF Reconciler
    <2>2. lock'.cat = lock.cat
      BY <1>3 DEF TypeOK
    <2>3. Writing' => Writing
      BY <1>1, <2>1, <2>2 DEF Writing, Deciding
    <2> QED
      BY <1>1, <2>1, <2>3, HeldQuiet DEF SameReport
  <1>4. ASSUME NEW err \in BOOLEAN, NEW event \in BOOLEAN, AfterContain(err, event)
        PROVE  FaultsAreHeld'
    <2>1. CASE rec.mode # "fault"
      <3>1. rec' = Idle
        BY <1>4, <2>1 DEF AfterContain, Finish
      <3> QED
        BY <1>1, <3>1, IdleReport, HeldSilent DEF FaultsAreHeld
    <2>2. CASE rec.mode = "fault"
      <3> DEFINE c == Cond("Unknown", "CatalogContainmentFailed", rec.gen)
                 x == Reduce([rec.st EXCEPT !.conds.workload = c], rec.gen)
                 y == Reduce(rec.st, rec.gen)
                 st == IF err THEN x ELSE y
      <3>1. c \in Condition
        BY <1>2, CondType DEF TruthValue, Reason
      <3>2. SameReport(rec.st.conds, x.conds) /\ SameReport(rec.st.conds, y.conds)
        BY <1>2, <3>1, WorkloadReport, ReduceReport
      <3>3. rec' = [rec EXCEPT !.pc = "record", !.err = rec.err \/ err, !.st = st]
        BY <1>4, <2>2 DEF AfterContain
      <3> HIDE DEF x, y
      <3>4. SameReport(rec.st.conds, st.conds)
        BY <3>2
      <3> HIDE DEF st
      <3>5. rec'.pc = "record" /\ rec'.base = rec.base /\ rec'.st = st
        BY <1>2, <3>3 DEF Reconciler
      <3>6. lock'.cat = lock.cat
        BY <1>4, <2>2 DEF AfterContain, TypeOK
      <3>7. Writing' => Writing
        BY <1>1, <2>2, <3>6 DEF Writing, Deciding
      <3> QED
        BY <1>1, <3>4, <3>5, <3>7, HeldQuiet
    <2> QED
      BY <2>1, <2>2
  <1>5. CASE Contain
    BY <1>1, <1>3, <1>4, <1>5 DEF Contain
  <1>6. CASE ContainFails \/ ScaleDown \/ ScaleDownConflict
    BY <1>1, <1>4, <1>6 DEF ContainFails, ScaleDown, ScaleDownConflict
  <1> QED
    BY <1>5, <1>6

\* Nobody but the reconciler writes conditions.
LEMMA EnvironmentHeld ==
    ASSUME TypeOK, FaultsAreHeld, Environment \/ UNCHANGED vars
    PROVE  FaultsAreHeld' /\ status'.conds = status.conds
  <1>1. CASE EditSelection \/ EditRetry
    <2>1. /\ cache'.status \in {cache.status, status} /\ UNCHANGED <<status, rec>>
          /\ lock'.cat = (rec.pc = "idle")
      BY <1>1, UserStep
    <2>2. ~Writing'
      BY <2>1 DEF Writing, Deciding
    <2> QED
      BY <2>1, <2>2, HeldSilent DEF FaultsAreHeld
  <1>2. CASE \/ DeploymentReports \/ PodStarts \/ PodStops \/ PodReports
             \/ \E t \in Targets :
                   RequestImport(t) \/ ImportSucceeds(t) \/ ImportFails(t)
             \/ UNCHANGED vars
    <2>1. UNCHANGED <<status, cache, rec>> /\ lock'.cat = lock.cat
      BY <1>2, WorkloadStep
         DEF RequestImport, ImportSucceeds, ImportFails, vars
    <2>2. Writing' => Writing
      BY <2>1 DEF Writing, Deciding
    <2> QED
      BY <2>1, <2>2, HeldQuiet DEF SameReport
  <1>3. CASE Sync \/ PollFires \/ Restart
    <2>1. /\ UNCHANGED status /\ (cache' = cache \/ cache'.status = status)
          /\ rec' = Idle \/ UNCHANGED <<rec, lock>>
      BY <1>3, OperatorStep
    <2>2. CASE rec' = Idle
      BY <2>1, <2>2, IdleReport, HeldSilent DEF FaultsAreHeld
    <2>3. CASE UNCHANGED <<rec, lock>>
      <3>1. Writing' => Writing
        BY <2>3 DEF Writing, Deciding
      <3> QED
        BY <2>1, <2>3, <3>1, HeldQuiet DEF SameReport
    <2> QED
      BY <2>1, <2>2, <2>3
  <1>4. CASE Tick
    <2>1. /\ status'.conds = status.conds /\ cache'.status.conds = cache.status.conds
          /\ rec'.base.conds = rec.base.conds /\ rec'.st.conds = rec.st.conds
      BY <1>4, TickStep, NumberType, OlderStatusKeeps
    <2>2. rec'.mode = rec.mode
      BY <1>4 DEF Tick, TypeOK, Reconciler
    <2>3. Writing' => Writing
      BY <1>4, <2>2, TickStep DEF Writing, Deciding
    <2> QED
      BY <2>1, <2>3, HeldQuiet DEF SameReport
  <1> QED
    BY <1>1, <1>2, <1>3, <1>4 DEF Environment

\* Every step keeps faults held, and lifts a block by a success only.
LEMMA FaultsStep ==
    TypeOK /\ MemoryIsConsistent /\ StatusIsEarned /\ Usable /\ FaultsAreHeld
        /\ [Next]_vars
    => FaultsAreHeld' /\ LeftBySuccess(status.conds, status'.conds)
  <1> SUFFICES ASSUME TypeOK, MemoryIsConsistent, StatusIsEarned, Usable,
                      FaultsAreHeld, [Next]_vars
               PROVE  FaultsAreHeld' /\ LeftBySuccess(status.conds, status'.conds)
    OBVIOUS
  <1>1. ASSUME status'.conds = status.conds
        PROVE  LeftBySuccess(status.conds, status'.conds)
    BY <1>1 DEF LeftBySuccess
  <1>2. CASE Begin \/ BeginFails
    BY <1>1, <1>2, ReadHeld
  <1>3. CASE Publish
    BY <1>3, PublishHeld
  <1>4. CASE PublishConflict \/ PublishFails
    BY <1>4, PublishFailsHeld
  <1>5. CASE Apply \/ ApplyDeletes \/ ApplyFails \/ Observe \/ ObserveFails
    BY <1>1, <1>5, WorkHeld
  <1>6. CASE Record \/ RecordConflict \/ RecordFails
    BY <1>6, RecordHeld
  <1>7. CASE Contain \/ ContainFails \/ ScaleDown \/ ScaleDownConflict
    BY <1>1, <1>7, ContainHeld
  <1>8. CASE Environment \/ UNCHANGED vars
    BY <1>1, <1>8, EnvironmentHeld
  <1> QED
    BY <1>2, <1>3, <1>4, <1>5, <1>6, <1>7, <1>8 DEF Next, Reconcile

\* Initially no stream has an import and nothing is reported.
LEMMA HeldAtFirst == Init => Usable /\ FaultsAreHeld
  <1> SUFFICES ASSUME Init PROVE Usable /\ FaultsAreHeld
    OBVIOUS
  <1>1. Usable
    <2>1. "none" \notin Digests
      BY DigestsAssumption
    <2> QED
      BY <2>1 DEF Init, Usable
  <1>2. /\ status.conds = NoConds /\ cache.status.conds = NoConds
        /\ rec.base.conds = NoConds /\ rec.st.conds = NoConds /\ rec.pc = "idle"
    BY DEF Init, NoStatus, Idle
  <1>3. Reported(NoConds)
    BY DEF Reported, NoConds, NoCond, Cond, ImportFaults
  <1> QED
    BY <1>1, <1>2, <1>3 DEF FaultsAreHeld, Writing, Deciding

\* The invariant: a fault is held in every copy and by every pass that may write.
THEOREM FaultsStayHeld == Spec => [](Usable /\ FaultsAreHeld)
  BY HeldAtFirst, UsableStep, FaultsStep, TypeCorrect, MemoryConsistent, EarnedIsKept,
     PTL DEF Spec

\* A recorded import fault is only left for a success of that import or an edit,
\* in whichever pass failure, request and outcome are seen, however stale the
\* informer is and whichever call fails.
THEOREM FaultsAreLeftBySuccess == Spec => FaultIsLeftBySuccess
  <1>1. TypeOK /\ MemoryIsConsistent /\ StatusIsEarned /\ (Usable /\ FaultsAreHeld)
          /\ [Next]_vars => [LeftBySuccess(status.conds, status'.conds)]_vars
    BY FaultsStep
  <1> QED
    BY <1>1, FaultsStayHeld, TypeCorrect, MemoryConsistent, EarnedIsKept, PTL
       DEF Spec, FaultIsLeftBySuccess

-----------------------------------------------------------------------------
(***************************************************************************)
(* The workload is scaled down for a persisted reason                       *)
(***************************************************************************)
\* One condemned target condemns the pair.
LEMMA AggregateCondemns ==
    ASSUME NEW cs, NEW gen, NEW t \in Targets,
           cs[t].st = "False", cs[t].reason # "NoSuccessfulImport"
    PROVE  /\ Aggregate(cs, gen).st = "False"
           /\ Aggregate(cs, gen).reason # "NoSuccessfulImport"
  <1> DEFINE c == cs["catalog"]
             b == cs["benchmark"]
             worst == IF Priority(b) < Priority(c) THEN b ELSE c
  <1>1. Priority(cs[t]) = 0 /\ (cs[t] = c \/ cs[t] = b)
    BY DEF Priority, Targets
  <1>2. Priority(b) \in 0 .. 2 /\ Priority(c) \in 0 .. 2
    BY DEF Priority
  <1> HIDE DEF c, b
  <1>3. Priority(worst) = 0
    BY <1>1, <1>2
  <1> HIDE DEF worst
  <1>4. worst.st = "False" /\ worst.reason # "NoSuccessfulImport"
    BY <1>3 DEF Priority
  <1>5. Aggregate(cs, gen)
          = Cond(worst.st, IF worst.st = "True" /\ c.reason # b.reason
                           THEN "IndependentSelections" ELSE worst.reason, gen)
    BY DEF Aggregate, worst, c, b
  <1> QED
    BY <1>4, <1>5 DEF Cond

\* prepareActivation condemns an attempt for a pair that cannot be resolved.
LEMMA PreparedCondemns ==
    ASSUME NEW st \in Status, NEW req \in Request, NEW gen \in Nat,
           NEW id \in Nat \ {0}, req.st = st.conds.resolved.st,
           req.reason = st.conds.resolved.reason
    PROVE  LET new == Prepared(st, req, gen, id)
           IN  /\ Condemned(new.act)
               /\ new.act.attempt # id => st.act.request = req
  <1> DEFINE act == IF IsNewRequest(st.act, req)
                    THEN NewAttempt(st.act, req, id) ELSE st.act
             rec2 == Unresolved(act, st.conds.resolved)
             x == [st EXCEPT !.act = rec2]
  <1>1. st.act \in Activation
    BY DEF Status
  <1>2. /\ act \in Activation /\ act.request = req
        /\ act.attempt # id => st.act.request = req
    <2>1. CASE IsNewRequest(st.act, req)
      <3>1. NewAttempt(st.act, req, id) \in Activation
        BY <1>1, DeadlineAssumption DEF NewAttempt, Activation, Request, Never
      <3>2. /\ NewAttempt(st.act, req, id).request = req
            /\ NewAttempt(st.act, req, id).attempt = id
        BY DEF NewAttempt
      <3> QED
        BY <2>1, <3>1, <3>2
    <2>2. CASE ~IsNewRequest(st.act, req)
      BY <1>1, <2>2 DEF IsNewRequest
    <2> QED
      BY <2>1, <2>2
  <1> HIDE DEF act
  <1>3. /\ rec2 \in Activation /\ rec2.request = req /\ rec2.attempt = act.attempt
        /\ (st.conds.resolved.st = "False"
              /\ st.conds.resolved.reason # "NoSuccessfulImport")
           => rec2.state = "Failed"
    BY <1>2 DEF Unresolved, Activation
  <1> HIDE DEF rec2
  <1>4. x \in Status /\ x.act = rec2
    BY <1>3 DEF Status
  <1>5. Prepared(st, req, gen, id) = Reduce(x, gen)
    BY DEF Prepared, rec2, act
  <1> HIDE DEF x
  <1>6. Prepared(st, req, gen, id).act = rec2
    BY <1>4, <1>5, ReduceType
  <1> QED
    BY <1>2, <1>3, <1>6 DEF Condemned

\* A pass that meets a fault blocks the workload; without a new attempt for it,
\* what it read was blocked or failed already.
LEMMA BeginCondemns ==
    ASSUME TypeOK, MemoryIsConsistent, StatusIsEarned, Usable, FaultsAreHeld, Begin,
           cache.fresh, Condemned(status.act)
    PROVE  /\ Condemned(rec'.st.act)
           /\ rec'.mode = "fault" =>
                 /\ rec'.st.conds.blocked.st = "True"
                 /\ rec'.st.act.attempt = rec'.base.act.attempt => Justified(rec'.base)
  <1> DEFINE sp == cache.spec
             out(io) == Outcomes(sp, cache.status, io)
             st(io)  == Resolved(cache.status, out(io), sp.gen)
             req(io) == RequestOf(sp, out(io), st(io))
             id      == count.attempts + 1
             new(io) == Prepared(st(io), req(io), sp.gen, id)
  <1>1. PICK io \in IOResults :
           rec' = [pc |-> "publish",
                   mode |-> IF Faulty(out(io)) THEN "fault" ELSE "normal",
                   gen |-> sp.gen, base |-> cache.status, st |-> new(io),
                   err |-> io # AllOK, saw |-> FALSE]
    BY DEF Begin
  <1>2. /\ sp \in CatalogSpec /\ cache.status \in Status /\ sp.gen \in Nat
        /\ id \in Nat \ {0} /\ Reported(cache.status.conds)
        /\ cache.status = status /\ status.act.attempt # id
    BY NumberType DEF FaultsAreHeld, MemoryIsConsistent, CacheIsCurrent,
                      StatusIsEarned, Ordered
  <1>3. out(io) \in [Targets -> OutcomeType]
    BY <1>2, OutcomesType
  <1>4. st(io) \in Status /\ st(io).act = cache.status.act
    BY <1>2, <1>3, ResolvedType
  <1>5. /\ req(io) \in Request /\ req(io).st = st(io).conds.resolved.st
        /\ req(io).reason = st(io).conds.resolved.reason
    BY <1>2, <1>3, <1>4, RequestOfType DEF RequestOf
  <1>6. \A t \in Targets : Honest(out(io)[t], t, cache.status)
    BY <1>2, OutcomesReport DEF Usable
  <1> HIDE DEF out
  <1> DEFINE v == Truth(Faulty(out(io)))
             cs == [t \in Targets |-> out(io)[t].res]
             agg == Aggregate(cs, sp.gen)
  <1>7. st(io).conds.blocked = Cond(v, "", sp.gen) /\ st(io).conds.resolved = agg
    <2> DEFINE o == out(io)
               g == sp.gen
    <2>1. o \in [Targets -> OutcomeType] /\ g \in Nat /\ cache.status \in Status
      BY <1>2, <1>3
    <2> HIDE DEF o, g
    <2>2. /\ Resolved(cache.status, o, g).conds.blocked = Cond(Truth(Faulty(o)), "", g)
          /\ Resolved(cache.status, o, g).conds.resolved
               = Aggregate([t \in Targets |-> o[t].res], g)
      BY <2>1, ResolvedReport
    <2> QED
      BY <2>2 DEF o, g
  <1> HIDE DEF v, agg, cs
  <1> HIDE DEF st, req, id
  <1>8. /\ SameReport(st(io).conds, new(io).conds)
        /\ Condemned(new(io).act)
        /\ new(io).act.attempt # id => st(io).act.request = req(io)
    <2> DEFINE g == sp.gen
    <2> HIDE DEF g
    <2>1. g \in Nat /\ new(io) = Prepared(st(io), req(io), g, id)
      BY <1>2 DEF g
    <2> HIDE DEF new
    <2> QED
      BY <1>2, <1>4, <1>5, <2>1, PreparedReport, PreparedCondemns
  <1> HIDE DEF new, sp
  <1>9. /\ rec'.st = new(io) /\ rec'.base = cache.status
        /\ rec'.mode = "fault" => Faulty(out(io))
    BY <1>1
  <1>10. ASSUME Faulty(out(io))
         PROVE  new(io).conds.blocked.st = "True"
    <2>1. v = "True"
      BY <1>10 DEF Truth, v
    <2>2. st(io).conds.blocked.st = "True"
      <3>1. st(io).conds.blocked = [st |-> v, reason |-> "", gen |-> sp.gen]
        BY <1>7 DEF Cond
      <3>2. ASSUME NEW x, NEW w, NEW g, x = [st |-> w, reason |-> "", gen |-> g]
            PROVE  x.st = w
        BY <3>2
      <3> QED
        BY <2>1, <3>1, <3>2
    <2> QED
      BY <1>8, <2>2 DEF SameReport
  <1>11. ASSUME Faulty(out(io)), new(io).act.attempt = cache.status.act.attempt
         PROVE  Justified(cache.status)
    <2>1. PICK t \in Targets : IsFault(out(io)[t].res, out(io)[t].health)
      BY <1>11 DEF Faulty
    <2>2. Honest(out(io)[t], t, cache.status)
      BY <1>6
    <2>3. CASE out(io)[t].res.reason = "AwaitingSuccessfulImport"
      BY <1>2, <2>2, <2>3 DEF Honest, AwaitingRecovery, Reported, Justified
    <2>4. CASE out(io)[t].res.reason # "AwaitingSuccessfulImport"
      <3>1. cs[t].st = "False" /\ cs[t].reason # "NoSuccessfulImport"
        BY <2>1, <2>2, <2>4 DEF Honest, cs
      <3>2. agg.st = "False" /\ agg.reason # "NoSuccessfulImport"
        BY <3>1, AggregateCondemns DEF agg
      <3>3. req(io).st = "False" /\ req(io).reason # "NoSuccessfulImport"
        BY <1>5, <1>7, <3>2
      <3>4. status.act.request = req(io)
        BY <1>2, <1>4, <1>8, <1>11
      <3> QED
        BY <1>2, <3>3, <3>4 DEF Condemned, Justified
    <2> QED
      BY <2>3, <2>4
  <1> QED
    BY <1>8, <1>9, <1>10, <1>11

\* The records in memory carry the failures they should, and a failure that was
\* read of the current attempt is still persisted.
RecordsAgree ==
    /\ Condemned(status.act) /\ Condemned(rec.base.act) /\ Condemned(rec.st.act)
    /\ Agrees(rec.base.act, status.act)

\* The reasons of a pass that contains.
Reasoned ==
    /\ (rec.pc = "publish" /\ rec.mode = "fault") =>
          /\ rec.st.conds.blocked.st = "True"
          /\ rec.st.act.attempt = rec.base.act.attempt => Justified(rec.base)
    /\ (rec.pc = "contain" /\ SameAttempt(rec.st.act)) => Justified(status)
    /\ rec.pc = "scale" => Justified(status)

\* An idle reconciler holds and contains nothing.
LEMMA IdleReasoned ==
    ASSUME rec' = Idle, Condemned(status'.act)
    PROVE  RecordsAgree' /\ Reasoned'
  <1>1. rec'.pc = "idle" /\ rec'.base.act = NoActivation /\ rec'.st.act = NoActivation
    BY DEF Idle, NoStatus
  <1>2. NoActivation.request.st = "None" /\ NoActivation.state = "None"
    BY DEF NoActivation, NoRequest
  <1>3. Condemned(NoActivation) /\ Agrees(NoActivation, status'.act)
    BY <1>2 DEF Condemned, Agrees
  <1>4. RecordsAgree'
    BY <1>1, <1>3 DEF RecordsAgree
  <1>5. Reasoned'
    BY <1>1 DEF Reasoned
  <1> QED
    BY <1>4, <1>5

\* A step that writes nothing and keeps the request and a failure of the pass.
LEMMA QuietAgree ==
    ASSUME RecordsAgree, UNCHANGED status, rec'.base = rec.base,
           rec'.st.act.request = rec.st.act.request,
           rec.st.act.state = "Failed" => rec'.st.act.state = "Failed"
    PROVE  RecordsAgree'
  BY DEF RecordsAgree, Condemned

\* A patch writes no attempt that should have failed, and leaves no failure of
\* the current attempt behind in an older copy.
LEMMA PatchAgrees ==
    ASSUME TypeOK, MemoryIsConsistent, StatusIsEarned, RecordsAgree,
           rec.pc \in {"publish", "record"}, PatchAllowed(rec.base, rec.st)
    PROVE  LET new == Patched(rec.base, rec.st)
           IN  Condemned(new.act) /\ Agrees(rec.base.act, new.act)
  <1> DEFINE new == Patched(rec.base, rec.st)
  <1>1. /\ status \in Status /\ rec.base \in Status /\ rec.st \in Status
        /\ new \in Status /\ Moves(status.act, new.act, ghost.proven)
        /\ rec.pc = "publish" /\ lock.cat => new = rec.st
    BY NumberType, PatchIsEarned
  <1>2. /\ Condemned(status.act) /\ Condemned(rec.st.act)
        /\ Agrees(rec.base.act, status.act)
    BY DEF RecordsAgree
  <1>3. Condemned(new.act)
    <2>1. CASE rec.st = rec.base
      BY <1>2, <2>1 DEF Patched
    <2>2. CASE rec.st # rec.base /\ Proposed(status, rec.base, rec.st)
      <3>1. new = rec.st
        BY <1>1, <2>2, MergeOwn DEF Patched, Proposed
      <3> QED
        BY <1>2, <3>1
    <2>3. CASE rec.st # rec.base /\ Published(status, rec.base, rec.st, ghost.proven)
      <3>1. /\ new.act.request = status.act.request
            /\ new.act.state \in {status.act.state, rec.st.act.state}
        BY <1>1, <2>3, MergePublished DEF Patched
      <3>2. rec.st.act.request = status.act.request
        BY <2>3 DEF Published
      <3> HIDE DEF new
      <3> QED
        BY <1>2, <3>1, <3>2 DEF Condemned
    <2>4. rec.st # rec.base =>
             \/ Proposed(status, rec.base, rec.st)
             \/ Published(status, rec.base, rec.st, ghost.proven)
      BY DEF StatusIsEarned, Continues, Writing, Deciding, PatchAllowed
    <2> QED
      BY <2>1, <2>2, <2>3, <2>4
  <1> HIDE DEF new
  <1>4. /\ rec.base.act.attempt \in Nat /\ status.act.attempt \in Nat
        /\ rec.base.act.attempt <= status.act.attempt
    BY NumberType, AttemptType DEF MemoryIsConsistent, AttemptsBounded, StatusIsEarned,
                                   Ordered
  <1>5. Agrees(rec.base.act, new.act)
    BY <1>1, <1>2, <1>4 DEF Agrees, Moves
  <1> QED
    BY <1>3, <1>5 DEF new

\* The read: Reasoned is what BeginCondemns says.
LEMMA ReadReasoned ==
    ASSUME TypeOK, MemoryIsConsistent, StatusIsEarned, Usable, FaultsAreHeld,
           cache.fresh, RecordsAgree, Begin \/ BeginFails
    PROVE  RecordsAgree' /\ Reasoned'
  <1>1. /\ UNCHANGED status /\ rec'.base = cache.status /\ cache.status = status
        /\ rec'.pc \in {"publish", "record"}
    BY BeginStep, BeginFailsStep DEF MemoryIsConsistent, CacheIsCurrent
  <1>2. Condemned(status.act)
    BY DEF RecordsAgree
  <1>3. /\ Condemned(rec'.st.act)
        /\ (rec'.pc = "publish" /\ rec'.mode = "fault") =>
              /\ rec'.st.conds.blocked.st = "True"
              /\ rec'.st.act.attempt = rec'.base.act.attempt => Justified(rec'.base)
    <2>1. CASE Begin
      BY <1>2, <2>1, BeginCondemns
    <2>2. CASE BeginFails
      BY <1>1, <1>2, <2>2, BeginFailsStep
    <2> QED
      BY <2>1, <2>2
  <1>4. RecordsAgree'
    BY <1>1, <1>2, <1>3 DEF RecordsAgree, Agrees
  <1>5. Reasoned'
    BY <1>1, <1>3 DEF Reasoned
  <1> QED
    BY <1>4, <1>5

\* The first patch, its conflict and its failure: containment goes on with what
\* was written, or with an attempt whose reason was persisted before.
LEMMA PublishReasoned ==
    ASSUME TypeOK, MemoryIsConsistent, StatusIsEarned, RecordsAgree, Reasoned,
           rec.pc = "publish" => rec.base = status,
           Publish \/ PublishConflict \/ PublishFails
    PROVE  RecordsAgree' /\ Reasoned'
  <1> DEFINE new == Patched(rec.base, rec.st)
  <1>1. rec.pc = "publish" /\ rec.base = status /\ rec \in Reconciler
    BY DEF Publish, PublishConflict, PublishFails, TypeOK
  <1>2. rec.base \in Status /\ rec.st \in Status
    BY NumberType
  <1>3. new = rec.st
    <2>1. rec.st = rec.base => new = status
      BY DEF Patched
    <2>2. rec.st # rec.base => new = Merge(status, rec.base, rec.st)
      BY DEF Patched
    <2> QED
      BY <1>1, <1>2, <2>1, <2>2, MergeOwn
  <1> HIDE DEF new
  <1>4. PatchAllowed(rec.base, rec.st) =>
           Condemned(rec.st.act) /\ Agrees(rec.base.act, rec.st.act)
    BY <1>1, <1>3, PatchAgrees DEF new
  <1>5. /\ Condemned(status.act) /\ Condemned(rec.base.act) /\ Condemned(rec.st.act)
        /\ Agrees(rec.base.act, status.act)
        /\ rec.mode = "fault" =>
              /\ rec.st.conds.blocked.st = "True"
              /\ rec.st.act.attempt = status.act.attempt => Justified(status)
    BY <1>1 DEF RecordsAgree, Reasoned
  <1>6. CASE Publish
    <2>1. /\ WriteStatus(new)
          /\ rec' = [rec EXCEPT
                       !.pc = IF rec.mode = "fault" THEN "contain" ELSE "apply",
                       !.st = IF rec.st = rec.base THEN rec.st ELSE new]
          /\ PatchAllowed(rec.base, rec.st)
      BY <1>6 DEF Publish, new
    <2>2. /\ rec'.pc = IF rec.mode = "fault" THEN "contain" ELSE "apply"
          /\ rec'.base = rec.base /\ rec'.st = rec.st /\ status' = rec.st
      BY <1>1, <1>3, <2>1 DEF Reconciler, WriteStatus
    <2>3. RecordsAgree'
      BY <1>4, <1>5, <2>1, <2>2 DEF RecordsAgree
    <2>4. Reasoned'
      BY <1>5, <2>2 DEF Reasoned, Justified
    <2> QED
      BY <2>3, <2>4
  <1>7. CASE PublishConflict
    <2>1. UNCHANGED status
      BY <1>7 DEF PublishConflict
    <2>2. CASE rec' = Idle
      BY <1>5, <2>1, <2>2, IdleReasoned
    <2>3. CASE rec.mode = "fault" /\ rec' = [rec EXCEPT !.pc = "contain"]
      <3>1. /\ rec'.pc = "contain" /\ rec'.base = rec.base /\ rec'.st = rec.st
        BY <1>1, <2>3 DEF Reconciler
      <3>2. RecordsAgree'
        BY <2>1, <3>1, QuietAgree
      <3>3. Reasoned'
        BY <1>5, <2>1, <2>3, <3>1 DEF Reasoned, SameAttempt
      <3> QED
        BY <3>2, <3>3
    <2> QED
      BY <1>7, <2>2, <2>3 DEF PublishConflict, Finish
  <1>8. CASE PublishFails
    <2>1. /\ PatchAllowed(rec.base, rec.st) /\ status' \in {status, rec.st}
          /\ rec'.base = rec.base /\ rec'.st.act = rec.st.act
          /\ rec'.pc \in {"contain", "record"}
      <3>1. PICK w \in {status, new} : WriteStatus(w)
        BY <1>8, PublishFailsStep DEF new
      <3>2. status' \in {status, rec.st}
        BY <1>3, <3>1 DEF WriteStatus
      <3> QED
        BY <1>8, <3>2, PublishFailsStep
    <2>2. rec'.pc = "contain" => rec.mode = "fault"
      BY <1>1, <1>8 DEF PublishFails, Reconciler
    <2>3. RecordsAgree'
      BY <1>4, <1>5, <2>1 DEF RecordsAgree
    <2>4. Reasoned'
      BY <1>5, <2>1, <2>2 DEF Reasoned, Justified, SameAttempt
    <2> QED
      BY <2>3, <2>4
  <1> QED
    BY <1>6, <1>7, <1>8

LEMMA WorkReasoned ==
    ASSUME TypeOK, RecordsAgree,
           Apply \/ ApplyDeletes \/ ApplyFails \/ Observe \/ ObserveFails
    PROVE  RecordsAgree' /\ Reasoned'
  <1>1. /\ rec'.base = rec.base /\ rec'.pc \in {"observe", "record"}
        /\ UNCHANGED status
        /\ rec.st.act.state = "Failed" => rec'.st.act.state = "Failed"
    BY ApplyStep, ObserveStep
  <1>2. rec \in Reconciler /\ rec.st \in Status /\ rec.gen \in Nat
    BY NumberType DEF TypeOK
  <1>3. rec'.st.act.request = rec.st.act.request
    <2>1. CASE Apply \/ ApplyDeletes \/ ApplyFails
      BY <2>1, ApplyStep
    <2>2. CASE Observe
      <3>1. rec'.st = Observed(rec.st, rec.gen)
        BY <1>2, <2>2 DEF Observe, Reconciler
      <3> QED
        BY <1>2, <3>1, ObservedReport
    <2>3. CASE ObserveFails
      <3>1. /\ Cond("Unknown", "WorkloadStatusUnknown", rec.gen) \in Condition
            /\ Cond("Unknown", "ActivationStatusUnknown", rec.gen) \in Condition
            /\ Cond("False", "ActivationStatusUnknown", rec.gen) \in Condition
        BY <1>2, CondType DEF TruthValue, Reason
      <3>2. rec.st.conds \in Conds
        BY <1>2 DEF Status
      <3>3. PICK conds \in
            {[rec.st.conds EXCEPT !.workload =
                 Cond("Unknown", "WorkloadStatusUnknown", rec.gen)],
             [rec.st.conds EXCEPT !.workload =
                 Cond("Unknown", "ActivationStatusUnknown", rec.gen)],
             [rec.st.conds EXCEPT !.actReady =
                 Cond("False", "ActivationStatusUnknown", rec.gen)]} :
               rec' = [rec EXCEPT
                     !.pc = "record", !.mode = "error", !.err = TRUE,
                     !.st = Reduce([rec.st EXCEPT !.conds = conds], rec.gen)]
        BY <2>3 DEF ObserveFails
      <3>4. conds \in Conds
        BY <3>1, <3>2, <3>3 DEF Conds
      <3> DEFINE x == [rec.st EXCEPT !.conds = conds]
      <3>5. x \in Status /\ x.act = rec.st.act
        BY <1>2, <3>4 DEF Status
      <3> HIDE DEF x
      <3>6. rec'.st = Reduce(x, rec.gen)
        BY <1>2, <3>3 DEF x, Reconciler
      <3> QED
        BY <1>2, <3>5, <3>6, ReduceType
    <2> QED
      BY <2>1, <2>2, <2>3
  <1>4. RecordsAgree'
    BY <1>1, <1>3, QuietAgree
  <1>5. Reasoned'
    BY <1>1 DEF Reasoned
  <1> QED
    BY <1>4, <1>5

\* The second patch: containment goes on with a failure that it wrote, or that
\* was read and is still persisted.
LEMMA RecordReasoned ==
    ASSUME TypeOK, MemoryIsConsistent, StatusIsEarned, RecordsAgree,
           Record \/ RecordConflict \/ RecordFails
    PROVE  RecordsAgree' /\ Reasoned'
  <1> DEFINE new == Patched(rec.base, rec.st)
  <1>1. Condemned(status.act) /\ Agrees(rec.base.act, status.act)
    BY DEF RecordsAgree
  <1>2. (rec.pc = "record" /\ PatchAllowed(rec.base, rec.st)) =>
           Condemned(new.act) /\ Agrees(rec.base.act, new.act)
    BY PatchAgrees
  <1>3. CASE Record
    <2> DEFINE st == IF rec.st = rec.base THEN rec.st ELSE new
    <2>1. /\ rec.pc = "record" /\ PatchAllowed(rec.base, rec.st) /\ WriteStatus(new)
          /\ \/ rec' = Idle
             \/ st.act.state = "Failed" /\ rec' = [rec EXCEPT !.pc = "contain", !.st = st]
      BY <1>3 DEF Record, Finish
    <2>2. rec.st = rec.base => new = status
      BY DEF Patched
    <2> HIDE DEF new
    <2>3. status' = new
      BY <2>1 DEF WriteStatus
    <2>4. CASE rec' = Idle
      BY <1>2, <2>1, <2>3, <2>4, IdleReasoned
    <2>5. CASE st.act.state = "Failed" /\ rec' = [rec EXCEPT !.pc = "contain", !.st = st]
      <3>1. rec'.pc = "contain" /\ rec'.base = rec.base /\ rec'.st = st
        BY <2>5 DEF TypeOK, Reconciler
      <3>2. RecordsAgree'
        BY <1>2, <2>1, <2>3, <3>1 DEF RecordsAgree
      <3>3. Reasoned'
        BY <1>1, <2>2, <2>3, <2>5, <3>1 DEF Reasoned, Justified, SameAttempt, Agrees
      <3> QED
        BY <3>2, <3>3
    <2> QED
      BY <2>1, <2>4, <2>5
  <1>4. CASE RecordConflict \/ RecordFails
    <2>1. /\ rec.pc = "record" /\ rec' = Idle
          /\ \/ UNCHANGED status
             \/ PatchAllowed(rec.base, rec.st) /\ status' \in {status, new}
      BY <1>4, RecordFailsStep DEF WriteStatus
    <2> HIDE DEF new
    <2> QED
      BY <1>1, <1>2, <2>1, IdleReasoned
  <1> QED
    BY <1>3, <1>4

\* Containment patches for the reason it checked.
LEMMA ContainReasoned ==
    ASSUME TypeOK, RecordsAgree, Reasoned,
           Contain \/ ContainFails \/ ScaleDown \/ ScaleDownConflict
    PROVE  RecordsAgree' /\ Reasoned'
  <1>1. UNCHANGED status /\ Condemned(status.act)
    BY ContainStep DEF RecordsAgree
  <1>2. CASE rec' = Idle
    BY <1>1, <1>2, IdleReasoned
  <1>3. CASE /\ rec'.pc \in {"record", "scale"} /\ rec'.base = rec.base
             /\ rec'.st.act = rec.st.act
    <2>1. RecordsAgree'
      BY <1>1, <1>3, QuietAgree
    <2>2. rec'.pc = "scale" => rec.pc = "contain" /\ SameAttempt(rec.st.act)
      <3>1. rec \in Reconciler
        BY DEF TypeOK
      <3>2. ASSUME NEW err, NEW event, AfterContain(err, event)
            PROVE  rec'.pc \in {"record", "idle"}
        <4>1. CASE rec.mode # "fault"
          BY <3>2, <4>1 DEF AfterContain, Finish, Idle
        <4>2. CASE rec.mode = "fault"
          <5>1. \E e, x : rec' = [rec EXCEPT !.pc = "record", !.err = e, !.st = x]
            BY <3>2, <4>2 DEF AfterContain
          <5> QED
            BY <3>1, <5>1 DEF Reconciler
        <4> QED
          BY <4>1, <4>2
      <3> QED
        BY <3>2 DEF Contain, ContainFails, ScaleDown, ScaleDownConflict
    <2>3. Reasoned'
      BY <1>1, <1>3, <2>2 DEF Reasoned
    <2> QED
      BY <2>1, <2>3
  <1> QED
    BY <1>2, <1>3, ContainStep

\* Nobody else writes the record.
LEMMA EnvironmentReasoned ==
    ASSUME TypeOK, RecordsAgree, Reasoned, Environment \/ UNCHANGED vars
    PROVE  RecordsAgree' /\ Reasoned'
  <1>1. CASE UNCHANGED <<status, rec>>
    BY <1>1 DEF RecordsAgree, Reasoned, SameAttempt
  <1>2. CASE UNCHANGED status /\ rec' = Idle
    BY <1>2, IdleReasoned DEF RecordsAgree
  <1>3. CASE Tick
    <2>1. /\ status' = OlderStatus(status) /\ rec'.pc = rec.pc
          /\ rec'.base = OlderStatus(rec.base) /\ rec'.st = OlderStatus(rec.st)
          /\ status \in Status /\ rec.base \in Status /\ rec.st \in Status
      BY <1>3, TickStep, NumberType
    <2>2. rec'.mode = rec.mode
      BY <1>3 DEF Tick, TypeOK, Reconciler
    <2>3. ASSUME NEW s \in Status
          PROVE  /\ OlderStatus(s).conds = s.conds
                 /\ OlderStatus(s).act.attempt = s.act.attempt
                 /\ OlderStatus(s).act.state = s.act.state
                 /\ OlderStatus(s).act.request = s.act.request
      BY OlderStatusKeeps
    <2>4. RecordsAgree'
      BY <2>1, <2>3 DEF RecordsAgree, Condemned, Agrees
    <2>5. Reasoned'
      BY <2>1, <2>2, <2>3 DEF Reasoned, SameAttempt, Justified
    <2> QED
      BY <2>4, <2>5
  <1>4. \/ UNCHANGED <<status, rec>> \/ Tick
        \/ UNCHANGED status /\ rec' = Idle
    BY UserStep, WorkloadStep, OperatorStep
       DEF Environment, RequestImport, ImportSucceeds, ImportFails, vars
  <1> QED
    BY <1>1, <1>2, <1>3, <1>4

\* Every step keeps containment justified.
LEMMA ContainmentStep ==
    TypeOK /\ MemoryIsConsistent /\ StatusIsEarned /\ (Usable /\ FaultsAreHeld)
        /\ PassIsCurrent /\ ContainmentIsJustified /\ [Next]_vars
    => ContainmentIsJustified'
  <1> SUFFICES ASSUME TypeOK, MemoryIsConsistent, StatusIsEarned, Usable,
                      FaultsAreHeld, PassIsCurrent, RecordsAgree, Reasoned,
                      ~StaleCache, [Next]_vars
               PROVE  RecordsAgree' /\ Reasoned'
    BY DEF ContainmentIsJustified, RecordsAgree, Reasoned
  <1>1. cache.fresh /\ (rec.pc = "publish" => rec.base = status)
    BY DEF PassIsCurrent
  <1>2. CASE Begin \/ BeginFails
    BY <1>1, <1>2, ReadReasoned
  <1>3. CASE Publish \/ PublishConflict \/ PublishFails
    BY <1>1, <1>3, PublishReasoned
  <1>4. CASE Apply \/ ApplyDeletes \/ ApplyFails \/ Observe \/ ObserveFails
    BY <1>4, WorkReasoned
  <1>5. CASE Record \/ RecordConflict \/ RecordFails
    BY <1>5, RecordReasoned
  <1>6. CASE Contain \/ ContainFails \/ ScaleDown \/ ScaleDownConflict
    BY <1>6, ContainReasoned
  <1>7. CASE Environment \/ UNCHANGED vars
    BY <1>7, EnvironmentReasoned
  <1> QED
    BY <1>2, <1>3, <1>4, <1>5, <1>6, <1>7 DEF Next, Reconcile

\* The workload goes down by the template of a failed attempt, or by containment.
LEMMA DownStep ==
    ASSUME TypeOK, PassIsCurrent, ContainmentIsJustified, ~StaleCache, Next,
           dep.replicas = 1, dep'.replicas = 0, dep'.attempt # 0
    PROVE  Justified(status)
  <1>1. CASE Apply \/ ApplyDeletes \/ ApplyFails
    <2>1. rec.st = status
      BY <1>1 DEF Apply, ApplyDeletes, ApplyFails, PassIsCurrent
    <2>2. dep' \in {dep, NoDeployment, AppliedDeployment(rec.st.act)}
      BY <1>1 DEF Apply, ApplyDeletes, ApplyFails
    <2>3. NoDeployment.attempt = 0
      BY DEF NoDeployment
    <2>4. AppliedDeployment(rec.st.act).replicas = DesiredReplicas(rec.st.act)
      BY DEF AppliedDeployment, TypeOK, Deployment
    <2>5. DesiredReplicas(rec.st.act) = 0
      BY <2>2, <2>3, <2>4
    <2> QED
      BY <2>1, <2>5 DEF DesiredReplicas, Justified
  <1>2. CASE ScaleDown
    BY <1>2 DEF ScaleDown, ContainmentIsJustified
  <1>3. CASE DeploymentReports
    BY <1>3 DEF DeploymentReports, TypeOK, Deployment
  <1>4. CASE UNCHANGED dep
    BY <1>4
  <1>5. \/ Apply \/ ApplyDeletes \/ ApplyFails \/ ScaleDown \/ DeploymentReports
        \/ UNCHANGED dep
    BY DEF Next, Reconcile, Environment, Begin, BeginFails, Publish, PublishConflict,
           PublishFails, Observe, ObserveFails, Record, RecordConflict, RecordFails,
           Contain, ContainFails, ScaleDownConflict, EditSelection, EditRetry,
           UserWrites, PodStarts, PodStops, PodReports, Sync, PollFires, Tick, Restart,
           RequestImport, ImportSucceeds, ImportFails
  <1> QED
    BY <1>1, <1>2, <1>3, <1>4, <1>5

\* With an informer that is never behind, the operator takes the workload down only
\* for a persisted failure of the current attempt or persisted faulty images,
\* whatever is edited or imported meanwhile and whichever patch fails or conflicts.
THEOREM ScaleDownsAreJustified ==
    ASSUME StaleCache = FALSE
    PROVE  Spec => ScaleDownIsJustified
  <1> DEFINE Down == (dep.replicas = 1 /\ dep'.replicas = 0 /\ dep'.attempt # 0)
                     => Justified(status)
  <1>1. Init => PassIsCurrent /\ ContainmentIsJustified
    <2>1. NoActivation.request.st = "None" /\ NoActivation.state = "None"
      BY DEF NoActivation, NoRequest
    <2>2. Condemned(NoActivation) /\ Agrees(NoActivation, NoActivation)
      BY <2>1 DEF Condemned, Agrees
    <2>3. /\ Idle.pc = "idle" /\ Idle.base = NoStatus /\ Idle.st = NoStatus
          /\ NoStatus.act = NoActivation
      BY DEF Idle, NoStatus
    <2>4. ASSUME Init PROVE PassIsCurrent /\ ContainmentIsJustified
      <3>1. /\ cache.fresh /\ rec.pc = "idle" /\ status.act = NoActivation
            /\ rec.base.act = NoActivation /\ rec.st.act = NoActivation
        BY <2>3, <2>4 DEF Init
      <3> QED
        BY <2>2, <3>1 DEF PassIsCurrent, ContainmentIsJustified
    <2> QED
      BY <2>4
  <1>2. TypeOK /\ MemoryIsConsistent /\ PassIsCurrent /\ [Next]_vars => PassIsCurrent'
    BY CurrentStep DEF MemoryIsConsistent
  <1>3. TypeOK /\ PassIsCurrent /\ ContainmentIsJustified /\ [Next]_vars => [Down]_vars
    BY DownStep
  <1> QED
    BY <1>1, <1>2, <1>3, ContainmentStep, FaultsStayHeld, TypeCorrect,
       MemoryConsistent, EarnedIsKept, PTL DEF Spec, ScaleDownIsJustified
=============================================================================
