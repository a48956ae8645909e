--------------------------- MODULE StorageMigration ---------------------------
(***************************************************************************)
(* The one-shot storage version migration of the ModelRegistry CRD. Every   *)
(* operator process starts one, outside leader election, thirty seconds     *)
(* after it comes up: StorageMigrationManager looks for the source version  *)
(* among the CRD's stored versions, asks the cluster's migrator             *)
(* (StorageVersionMigration, SVM) to rewrite the objects and, when that is  *)
(* not supported or fails, re-reads and re-writes every object itself.      *)
(*                                                                          *)
(* Whatever is written is stored in the target version. The processes read  *)
(* past the informer caches; an Update carries the resource version of the  *)
(* object that was read (held).                                             *)
(***************************************************************************)
EXTENDS Naturals, FiniteSets

CONSTANTS
    Processes,      \* operator processes, two of them during a rolling update
    Registries,     \* ModelRegistry objects
    SvmSupported,   \* the cluster serves the StorageVersionMigration API
    MaxEdits,       \* bound: writes of users
    MaxFaults       \* bound: API errors, deletions of the SVM object

ASSUME SvmAssumption == SvmSupported \in BOOLEAN
ASSUME BoundsAssumption == MaxEdits \in Nat /\ MaxFaults \in Nat
ASSUME FiniteAssumption == IsFiniteSet(Processes) /\ IsFiniteSet(Registries)
ASSUME RegistriesAssumption == Registries # {}

VARIABLES
    listed,     \* is the source version among the CRD's stored versions?
    obj,        \* the objects: [ver, mark, content]
    svm,        \* the StorageVersionMigration object
    proc,       \* the processes: program counter and locals
    count       \* bounds used so far: [edits, faults]

vars == <<listed, obj, svm, proc, count>>

\* content counts the writes of users, mark is the migrated annotation.
Object == [ver : {"none", "source", "target"}, mark : BOOLEAN, content : Nat]
NoObject == [ver |-> "none", mark |-> FALSE, content |-> 0]

\* todo: objects of the list still to migrate; name and copy: the one that was
\* read; held: is its resource version current? met: has this run met an error,
\* or an SVM object that disappeared? (observation only)
Process ==
    [pc : {"down", "waiting", "create", "post", "monitor", "list", "get", "put", "done", "error"},
     todo : SUBSET Registries, name : Registries, copy : Object, held : BOOLEAN,
     met : BOOLEAN]

At(pc) == [pc |-> pc, todo |-> {}, name |-> CHOOSE r \in Registries : TRUE,
           copy |-> NoObject, held |-> FALSE, met |-> FALSE]

\* A write of an object by anybody outdates the copies that processes hold.
WriteObject(r, o, locals) ==
    /\ obj' = [obj EXCEPT ![r] = o]
    /\ proc' = [p \in Processes |->
                  IF locals[p].name = r THEN [locals[p] EXCEPT !.held = FALSE] ELSE locals[p]]

Fault == count.faults < MaxFaults /\ count' = [count EXCEPT !.faults = @ + 1]

-----------------------------------------------------------------------------
(***************************************************************************)
(* StorageMigrationManager                                                  *)
(***************************************************************************)
\* StartMigrationMonitor.
Start(p) ==
    /\ proc[p].pc = "down"
    /\ proc' = [proc EXCEPT ![p] = At("waiting")]
    /\ UNCHANGED <<listed, obj, svm, count>>

Crash(p) ==
    /\ proc[p].pc # "down"
    /\ proc' = [proc EXCEPT ![p] = At("down")]
    /\ UNCHANGED <<listed, obj, svm, count>>

\* checkAndPerformMigration: nothing to do, or the first supported strategy.
Decide(p) ==
    /\ proc[p].pc = "waiting"
    /\ proc' = [proc EXCEPT ![p].pc =
                  IF ~listed THEN "done" ELSE IF SvmSupported THEN "create" ELSE "list"]
    /\ UNCHANGED <<listed, obj, svm, count>>

\* The CRD cannot be read, or the SVM API is not answering: not supported.
DecideFails(p) ==
    /\ proc[p].pc = "waiting" /\ Fault
    /\ \E pc \in {"error"} \cup (IF listed THEN {"list"} ELSE {}) :
          proc' = [proc EXCEPT ![p].pc = pc, ![p].met = TRUE]
    /\ UNCHANGED <<listed, obj, svm>>

\* PerformMigration of the SVM strategy: monitor the object that is there, or
\* create it. Any error of the Get leads to the Create.
GetSvm(p) ==
    /\ proc[p].pc = "create"
    /\ proc' = [proc EXCEPT ![p].pc = IF svm = "none" THEN "post" ELSE "monitor"]
    /\ UNCHANGED <<listed, obj, svm, count>>

GetSvmFails(p) ==
    /\ proc[p].pc = "create" /\ Fault
    /\ proc' = [proc EXCEPT ![p].pc = "post", ![p].met = TRUE]
    /\ UNCHANGED <<listed, obj, svm>>

CreateSvm(p) ==
    /\ proc[p].pc = "post" /\ svm = "none"
    /\ svm' = "running"
    /\ proc' = [proc EXCEPT ![p].pc = "monitor"]
    /\ UNCHANGED <<listed, obj, count>>

\* Another process created it between the Get and the Create (AlreadyExists), or
\* the API server does not answer: on to the manual strategy.
CreateSvmRaces(p) ==
    /\ proc[p].pc = "post" /\ svm # "none"
    /\ proc' = [proc EXCEPT ![p].pc = "list"]
    /\ UNCHANGED <<listed, obj, svm, count>>

CreateSvmFails(p) ==
    /\ proc[p].pc = "post" /\ Fault
    /\ proc' = [proc EXCEPT ![p].pc = "list", ![p].met = TRUE]
    /\ UNCHANGED <<listed, obj, svm>>

\* Bug: a failed migration only ends the monitor.
FoundIgnoringFailure(state) ==
    CASE state \in {"none", "succeeded", "failed"} -> "done" [] OTHER -> "monitor"

\* monitorStorageVersionMigration: what the monitor makes of a state it reads.
Found(state) ==
    CASE state \in {"none", "succeeded"} -> "done"
      [] state = "failed" -> "list"
      [] OTHER -> "monitor"

Monitor(p) ==
    /\ proc[p].pc = "monitor" /\ Found(svm) # "monitor"
    /\ proc' = [proc EXCEPT ![p].pc = Found(svm), ![p].met = @ \/ svm = "none"]
    /\ UNCHANGED <<listed, obj, svm, count>>

-----------------------------------------------------------------------------
(***************************************************************************)
(* ManualStrategy                                                           *)
(***************************************************************************)
List(p) ==
    /\ proc[p].pc = "list"
    /\ proc' = [proc EXCEPT ![p].pc = "get",
                            ![p].todo = {r \in Registries : obj[r].ver # "none"}]
    /\ UNCHANGED <<listed, obj, svm, count>>

ListFails(p) ==
    /\ proc[p].pc = "list" /\ Fault
    /\ proc' = [proc EXCEPT ![p].pc = "error", ![p].met = TRUE]
    /\ UNCHANGED <<listed, obj, svm>>

\* The next object of the list.
Handled(q, r) == [q EXCEPT !.pc = "get", !.todo = @ \ {r}]

\* Bug: the loop ends with the first object that fails.
GiveUp(q, r) == [q EXCEPT !.pc = "get", !.todo = {}]

\* An object that fails is logged, and the loop goes on.
Continue(q, r) == Handled(q, r)

\* An object was read, with its resource version.
Read(q, r, o) == [q EXCEPT !.pc = "put", !.name = r, !.copy = o, !.held = TRUE]

\* migrateResource reads the object in the target version. It is skipped when it
\* is marked, and failed when it is gone.
Get(p) ==
    \E r \in proc[p].todo :
        /\ proc[p].pc = "get"
        /\ proc' = [proc EXCEPT ![p] =
              CASE obj[r].ver = "none" -> Continue(@, r)
                [] obj[r].mark -> Handled(@, r)
                [] OTHER -> Read(@, r, obj[r])]
        /\ UNCHANGED <<listed, obj, svm, count>>

\* Bug: the Update carries no resource version.
PutAllowedUnlocked(p) == TRUE

\* The Update is refused unless the object is the one that was read.
PutAllowed(p) == proc[p].held

Put(p) ==
    LET r == proc[p].name
    IN  /\ proc[p].pc = "put" /\ PutAllowed(p)
        /\ WriteObject(r, [ver |-> "target", mark |-> TRUE, content |-> proc[p].copy.content],
                       [proc EXCEPT ![p] = Handled(@, r)])
        /\ UNCHANGED <<listed, svm, count>>

PutConflict(p) ==
    /\ proc[p].pc = "put" /\ ~PutAllowed(p)
    /\ proc' = [proc EXCEPT ![p] = Continue(@, proc[p].name)]
    /\ UNCHANGED <<listed, obj, svm, count>>

\* Any call for one object fails.
ObjectFails(p) ==
    /\ \/ proc[p].pc = "get" /\ proc[p].todo # {}
       \/ proc[p].pc = "put"
    /\ Fault
    /\ \E r \in proc[p].todo :
          /\ proc[p].pc = "put" => r = proc[p].name
          /\ proc' = [proc EXCEPT ![p] = [Continue(@, r) EXCEPT !.met = TRUE]]
    /\ UNCHANGED <<listed, obj, svm>>

\* verifyMigrationComplete only logs whether the source version is still listed.
Verify(p) ==
    /\ proc[p].pc = "get" /\ proc[p].todo = {}
    /\ proc' = [proc EXCEPT ![p].pc = "done"]
    /\ UNCHANGED <<listed, obj, svm, count>>

VerifyFails(p) ==
    /\ proc[p].pc = "get" /\ proc[p].todo = {} /\ Fault
    /\ proc' = [proc EXCEPT ![p].pc = "error", ![p].met = TRUE]
    /\ UNCHANGED <<listed, obj, svm>>

Steps(p) ==
    \/ Decide(p) \/ DecideFails(p) \/ GetSvm(p) \/ GetSvmFails(p) \/ CreateSvm(p)
    \/ CreateSvmRaces(p) \/ CreateSvmFails(p) \/ Monitor(p)
    \/ List(p) \/ ListFails(p) \/ Get(p) \/ Put(p) \/ PutConflict(p) \/ ObjectFails(p)
    \/ Verify(p) \/ VerifyFails(p)

-----------------------------------------------------------------------------
(***************************************************************************)
(* The cluster                                                              *)
(***************************************************************************)
\* Users write objects, which stores them in the target version, and delete them.
UserWrites ==
    \E r \in Registries :
        /\ obj[r].ver # "none" /\ count.edits < MaxEdits
        /\ count' = [count EXCEPT !.edits = @ + 1]
        /\ WriteObject(r, [obj[r] EXCEPT !.ver = "target", !.content = @ + 1], proc)
        /\ UNCHANGED <<listed, svm>>

UserDeletes ==
    \E r \in Registries :
        /\ obj[r].ver # "none" /\ count.edits < MaxEdits
        /\ count' = [count EXCEPT !.edits = @ + 1]
        /\ WriteObject(r, NoObject, proc)
        /\ UNCHANGED <<listed, svm>>

\* The migrator rewrites the objects, one by one, and reports.
MigratorWrites ==
    \E r \in Registries :
        /\ svm = "running" /\ obj[r].ver = "source"
        /\ WriteObject(r, [obj[r] EXCEPT !.ver = "target"], proc)
        /\ UNCHANGED <<listed, svm, count>>

MigratorReports ==
    /\ svm = "running"
    /\ svm' \in {"failed"} \cup
                (IF \A r \in Registries : obj[r].ver # "source" THEN {"succeeded"} ELSE {})
    /\ UNCHANGED <<listed, obj, proc, count>>

SvmDeleted ==
    /\ svm # "none" /\ Fault
    /\ svm' = "none"
    /\ UNCHANGED <<listed, obj, proc>>

Environment == UserWrites \/ UserDeletes \/ MigratorWrites \/ MigratorReports \/ SvmDeleted

-----------------------------------------------------------------------------
(***************************************************************************)
(* Specification                                                            *)
(***************************************************************************)
Init ==
    /\ listed \in BOOLEAN
    /\ obj = [r \in Registries |->
                [NoObject EXCEPT !.ver = IF listed THEN "source" ELSE "target"]]
    /\ svm = "none"
    /\ proc = [p \in Processes |-> At("down")]
    /\ count = [edits |-> 0, faults |-> 0]

Next ==
    \/ \E p \in Processes : Start(p) \/ Crash(p) \/ Steps(p)
    \/ Environment

Spec == Init /\ [][Next]_vars

\* A process that runs gets on, and the cluster's migrator, too.
FairSpec ==
    /\ Spec
    /\ \A p \in Processes : WF_vars(Start(p)) /\ WF_vars(Steps(p))
    /\ WF_vars(MigratorWrites) /\ WF_vars(MigratorReports)

-----------------------------------------------------------------------------
(***************************************************************************)
(* Properties                                                               *)
(***************************************************************************)
\* Every variable holds a value of the kind the code gives it.
TypeOK ==
    /\ listed \in BOOLEAN
    /\ obj \in [Registries -> Object]
    /\ svm \in {"none", "running", "succeeded", "failed"}
    /\ proc \in [Processes -> Process]
    /\ count \in [edits : 0 .. MaxEdits, faults : 0 .. MaxFaults]

AllMigrated == \A r \in Registries : obj[r].ver # "source"

\* Rewriting an object never undoes what a user did to it meanwhile: only users
\* change contents and delete, and what they deleted stays deleted
\* (migrateResource's read and its Update are not one step).
UserWritesSurvive ==
    [][\A r \in Registries :
         obj'[r].content # obj[r].content \/ (obj'[r].ver = "none") # (obj[r].ver = "none")
             => count'.edits = count.edits + 1]_vars

\* A process that reports success without having met an error has no object left
\* in the source version, although conflicts with users, with the migrator and
\* with another process made some of its Updates fail.
SuccessIsEarned ==
    \A p \in Processes : proc[p].pc = "done" /\ ~proc[p].met => AllMigrated

\* What a process that has met no error knows of its way to "done". An Update that
\* lost to another write can be skipped: whoever wrote stored the target version.
Earns(p) ==
    /\ proc[p].pc = "put" /\ ~proc[p].held => obj[proc[p].name].ver # "source"
    /\ ~proc[p].met => /\ proc[p].pc = "done" => AllMigrated
                       /\ proc[p].pc \in {"get", "put"} =>
                            \A r \in Registries : obj[r].ver = "source" => r \in proc[p].todo

\* The inductive invariant behind SuccessIsEarned: every reason to stop (no stored
\* source version, the migrator's success, a marked object, an empty list) means
\* that nothing is left.
Progress ==
    /\ ~listed \/ svm = "succeeded" => AllMigrated
    /\ \A r \in Registries : obj[r].mark => obj[r].ver # "source"
    /\ \A p \in Processes : Earns(p)

\* The migration runs once per process start, and a run may leave objects behind.
\* It is enough to restart the operator: if one process runs to an end again and
\* again every object is migrated, whichever calls failed and whatever became of
\* the SVM object.
RestartsMigrate ==
    (\E p \in Processes : []<>(proc[p].pc = "down") /\ []<>(proc[p].pc \in {"done", "error"}))
        => <>[]AllMigrated
=============================================================================
