------------------------ MODULE StorageMigrationProofs ------------------------
(***************************************************************************)
(* Theorems about StorageMigration, for any number of processes, objects,   *)
(* writes of users and faults.                                              *)
(***************************************************************************)
EXTENDS StorageMigration, TLAPS

\* A copy whose resource version is current is a copy of the object as it is.
HeldIsCurrent ==
    \A p \in Processes :
        proc[p].held => /\ obj[proc[p].name].ver # "none"
                        /\ proc[p].copy = obj[proc[p].name]

\* What holds of each step: the types, the copies that are held, and the changes of
\* objects that only users make.
Inv == TypeOK /\ HeldIsCurrent

Survives ==
    \A r \in Registries :
        obj'[r].content # obj[r].content \/ (obj'[r].ver = "none") # (obj[r].ver = "none")
            => count'.edits = count.edits + 1

LEMMA AtType ==
    ASSUME NEW pc \in {"down", "waiting"}
    PROVE  /\ At(pc) \in Process
           /\ ~At(pc).held
  <1>1. (CHOOSE r \in Registries : TRUE) \in Registries
    BY RegistriesAssumption
  <1> QED
    BY <1>1 DEF At, Process, Object, NoObject

\* A step that only moves one process, to a state that holds nothing new.
LEMMA LocalStep ==
    ASSUME Inv, NEW p \in Processes, NEW q \in Process,
           q.held => /\ proc[p].held
                     /\ q.name = proc[p].name
                     /\ q.copy = proc[p].copy,
           proc' = [proc EXCEPT ![p] = q], obj' = obj
    PROVE  /\ proc' \in [Processes -> Process]
           /\ HeldIsCurrent'
  <1>1. proc' \in [Processes -> Process]
    BY DEF Inv, TypeOK
  <1>2. ASSUME NEW x \in Processes, proc'[x].held
        PROVE  /\ obj'[proc'[x].name].ver # "none"
               /\ proc'[x].copy = obj'[proc'[x].name]
    BY <1>2 DEF Inv, TypeOK, HeldIsCurrent
  <1> QED
    BY <1>1, <1>2 DEF HeldIsCurrent

\* A write of an object leaves no process with an outdated copy that it holds.
LEMMA WriteStep ==
    ASSUME Inv, NEW r \in Registries, NEW o \in Object,
           NEW locals \in [Processes -> Process],
           \A x \in Processes : locals[x].held =>
               \/ locals[x].name = r
               \/ locals[x] = proc[x],
           WriteObject(r, o, locals)
    PROVE  /\ obj' \in [Registries -> Object]
           /\ proc' \in [Processes -> Process]
           /\ HeldIsCurrent'
  <1>1. obj' \in [Registries -> Object]
    BY DEF WriteObject, Inv, TypeOK
  <1>2. proc' \in [Processes -> Process]
    <2>1. ASSUME NEW p \in Processes
          PROVE  /\ locals[p] \in Process
                 /\ [locals[p] EXCEPT !.held = FALSE] \in Process
      <3>1. locals[p] \in Process
        OBVIOUS
      <3> QED
        BY <3>1 DEF Process
    <2> QED
      BY <2>1 DEF WriteObject
  <1>3. ASSUME NEW x \in Processes, proc'[x].held
        PROVE  /\ obj'[proc'[x].name].ver # "none"
               /\ proc'[x].copy = obj'[proc'[x].name]
    <2>1. locals[x] \in Process
      OBVIOUS
    <2>2. locals[x].name # r
      BY <1>3, <2>1 DEF WriteObject, Process
    <2>3. proc'[x] = locals[x]
      BY <2>2 DEF WriteObject
    <2>4. proc'[x] = proc[x]
      BY <1>3, <2>2, <2>3
    <2>5. obj'[proc[x].name] = obj[proc[x].name]
      BY <2>2, <2>3, <2>4 DEF WriteObject, Inv, TypeOK, Process
    <2> QED
      BY <1>3, <2>4, <2>5 DEF Inv, HeldIsCurrent
  <1> QED
    BY <1>1, <1>2, <1>3 DEF HeldIsCurrent

LEMMA FaultStep ==
    ASSUME TypeOK, Fault
    PROVE  /\ count' \in [edits : 0 .. MaxEdits, faults : 0 .. MaxFaults]
           /\ count'.edits = count.edits
  BY BoundsAssumption DEF TypeOK, Fault

\* Starting, stopping and deciding.
LEMMA ManagerStep ==
    ASSUME Inv, NEW p \in Processes,
           Start(p) \/ Crash(p) \/ Decide(p) \/ DecideFails(p) \/ GetSvm(p) \/ GetSvmFails(p)
             \/ CreateSvm(p) \/ CreateSvmRaces(p) \/ CreateSvmFails(p) \/ Monitor(p)
    PROVE  Inv' /\ Survives
  <1> USE DEF Inv
  <1>0. proc[p] \in Process
    BY DEF TypeOK
  <1>1. CASE Start(p) \/ Crash(p)
    <2>1. PICK pc \in {"down", "waiting"} : proc' = [proc EXCEPT ![p] = At(pc)]
      BY <1>1 DEF Start, Crash
    <2>2. UNCHANGED <<listed, obj, svm, count>>
      BY <1>1 DEF Start, Crash
    <2> HIDE DEF Inv
    <2>3. proc' \in [Processes -> Process] /\ HeldIsCurrent'
      BY <2>1, <2>2, AtType, LocalStep
    <2> QED
      BY <2>2, <2>3 DEF Inv, TypeOK, Survives
  <1>2. CASE Decide(p) \/ DecideFails(p) \/ GetSvm(p) \/ GetSvmFails(p)
             \/ CreateSvm(p) \/ CreateSvmRaces(p) \/ CreateSvmFails(p) \/ Monitor(p)
    <2>1. \E pc \in {"done", "create", "post", "list", "error", "monitor"}, met \in BOOLEAN :
            proc' = [proc EXCEPT ![p] = [proc[p] EXCEPT !.pc = pc, !.met = met]]
      <3>1. ASSUME NEW pc \in {"done", "create", "post", "list", "error", "monitor"},
                   proc' = [proc EXCEPT ![p].pc = pc]
            PROVE  proc' = [proc EXCEPT ![p] = [proc[p] EXCEPT !.pc = pc, !.met = proc[p].met]]
        BY <1>0, <3>1 DEF TypeOK, Process
      <3>2. ASSUME NEW pc \in {"done", "create", "post", "list", "error", "monitor"},
                   NEW met \in BOOLEAN, proc' = [proc EXCEPT ![p].pc = pc, ![p].met = met]
            PROVE  proc' = [proc EXCEPT ![p] = [proc[p] EXCEPT !.pc = pc, !.met = met]]
        BY <1>0, <3>2 DEF TypeOK, Process
      <3>3. proc[p].met \in BOOLEAN
        BY <1>0 DEF Process
      <3>4. CASE Decide(p)
        <4>1. PICK pc \in {"done", "create", "list"} : proc' = [proc EXCEPT ![p].pc = pc]
          BY <3>4 DEF Decide
        <4> QED
          BY <3>1, <3>3, <4>1
      <3>5. CASE DecideFails(p)
        <4>1. PICK pc \in {"error", "list"} : proc' = [proc EXCEPT ![p].pc = pc, ![p].met = TRUE]
          BY <3>5 DEF DecideFails
        <4> QED
          BY <3>2, <4>1
      <3>6. CASE GetSvm(p)
        <4>1. PICK pc \in {"post", "monitor"} : proc' = [proc EXCEPT ![p].pc = pc]
          BY <3>6 DEF GetSvm
        <4> QED
          BY <3>1, <3>3, <4>1
      <3>7. CASE GetSvmFails(p) \/ CreateSvmFails(p)
        <4>1. PICK pc \in {"post", "list"} : proc' = [proc EXCEPT ![p].pc = pc, ![p].met = TRUE]
          BY <3>7 DEF GetSvmFails, CreateSvmFails
        <4> QED
          BY <3>2, <4>1
      <3>8. CASE CreateSvm(p) \/ CreateSvmRaces(p)
        <4>1. PICK pc \in {"list", "monitor"} : proc' = [proc EXCEPT ![p].pc = pc]
          BY <3>8 DEF CreateSvm, CreateSvmRaces
        <4> QED
          BY <3>1, <3>3, <4>1
      <3>9. CASE Monitor(p)
        <4>1. Found(svm) \in {"done", "list"}
          BY <3>9 DEF Monitor, Found, TypeOK
        <4>2. PICK met \in BOOLEAN : proc' = [proc EXCEPT ![p].pc = Found(svm), ![p].met = met]
          <5>1. proc' = [proc EXCEPT ![p].pc = Found(svm), ![p].met = (proc[p].met \/ svm = "none")]
            BY <1>0, <3>9 DEF Monitor, TypeOK, Process
          <5>2. (proc[p].met \/ svm = "none") \in BOOLEAN
            OBVIOUS
          <5> QED
            BY <5>1, <5>2
        <4> QED
          BY <3>2, <4>1, <4>2
      <3> QED
        BY <1>2, <3>4, <3>5, <3>6, <3>7, <3>8, <3>9
    <2>2. PICK q \in Process :
            /\ proc' = [proc EXCEPT ![p] = q]
            /\ q.held = proc[p].held /\ q.name = proc[p].name /\ q.copy = proc[p].copy
      <3>1. PICK pc \in {"done", "create", "post", "list", "error", "monitor"}, met \in BOOLEAN :
              proc' = [proc EXCEPT ![p] = [proc[p] EXCEPT !.pc = pc, !.met = met]]
        BY <2>1
      <3>2. [proc[p] EXCEPT !.pc = pc, !.met = met] \in Process
        BY <1>0 DEF Process
      <3> QED
        BY <1>0, <3>1, <3>2 DEF Process
    <2>3. /\ listed' = listed /\ obj' = obj
          /\ svm' \in {"none", "running", "succeeded", "failed"}
      BY <1>2 DEF Decide, DecideFails, GetSvm, GetSvmFails, CreateSvm, CreateSvmRaces,
                  CreateSvmFails, Monitor, TypeOK
    <2>4. count' \in [edits : 0 .. MaxEdits, faults : 0 .. MaxFaults]
      BY <1>2, FaultStep DEF Decide, DecideFails, GetSvm, GetSvmFails, CreateSvm,
                  CreateSvmRaces, CreateSvmFails, Monitor, TypeOK
    <2> HIDE DEF Inv
    <2>5. proc' \in [Processes -> Process] /\ HeldIsCurrent'
      BY <2>2, <2>3, LocalStep
    <2> QED
      BY <2>3, <2>4, <2>5 DEF Inv, TypeOK, Survives
  <1> QED
    BY <1>1, <1>2

\* The manual strategy. Its Update is the only step of a process that writes.
LEMMA ManualStep ==
    ASSUME Inv, NEW p \in Processes,
           List(p) \/ ListFails(p) \/ Get(p) \/ Put(p) \/ PutConflict(p)
             \/ ObjectFails(p) \/ Verify(p) \/ VerifyFails(p)
    PROVE  Inv' /\ Survives
  <1> USE DEF Inv
  <1>0. proc[p] \in Process
    BY DEF TypeOK
  <1>1. CASE Put(p)
    <2> DEFINE r == proc[p].name
               o == [ver |-> "target", mark |-> TRUE, content |-> proc[p].copy.content]
               locals == [proc EXCEPT ![p] = Handled(proc[p], r)]
    <2>1. r \in Registries /\ proc[p].held
      BY <1>0, <1>1 DEF Put, PutAllowed, Process
    <2>2. proc[p].copy = obj[r] /\ obj[r].ver # "none" /\ obj[r] \in Object
      BY <2>1 DEF HeldIsCurrent, TypeOK
    <2>3. o \in Object
      BY <2>2 DEF Object
    <2>4. locals \in [Processes -> Process]
      <3>1. Handled(proc[p], r) \in Process
        BY <1>0 DEF Process, Handled
      <3> QED
        BY <3>1 DEF TypeOK
    <2>5. \A x \in Processes : locals[x].held => locals[x].name = r \/ locals[x] = proc[x]
      BY <1>0 DEF TypeOK, Process, Handled
    <2>6. WriteObject(r, o, locals) /\ UNCHANGED <<listed, svm, count>>
      BY <1>0, <1>1 DEF Put, TypeOK, Process
    <2> HIDE DEF Inv
    <2>7. /\ obj' \in [Registries -> Object]
          /\ proc' \in [Processes -> Process]
          /\ HeldIsCurrent'
      <3> HIDE DEF r, o, locals
      <3> QED
        BY <2>1, <2>3, <2>4, <2>5, <2>6, WriteStep
    <2>8. obj' = [obj EXCEPT ![r] = o]
      BY <2>6 DEF WriteObject
    <2>9. Survives
      BY <2>2, <2>8 DEF Survives, Inv, TypeOK
    <2> QED
      BY <2>6, <2>7, <2>9 DEF Inv, TypeOK
  <1>2. CASE List(p) \/ ListFails(p) \/ Get(p) \/ PutConflict(p) \/ ObjectFails(p)
             \/ Verify(p) \/ VerifyFails(p)
    <2>1. /\ listed' = listed /\ obj' = obj /\ svm' = svm
          /\ count' \in [edits : 0 .. MaxEdits, faults : 0 .. MaxFaults]
      BY <1>2, FaultStep DEF List, ListFails, Get, PutConflict, ObjectFails, Verify,
                             VerifyFails, TypeOK
    <2>2. proc' \in [Processes -> Process] /\ HeldIsCurrent'
      <3>1. CASE List(p)
        <4> DEFINE q == [proc[p] EXCEPT !.pc = "get",
                                        !.todo = {r \in Registries : obj[r].ver # "none"}]
        <4>1. q \in Process /\ q.held = proc[p].held /\ q.name = proc[p].name
                /\ q.copy = proc[p].copy
          BY <1>0 DEF Process
        <4>2. proc' = [proc EXCEPT ![p] = q]
          BY <1>0, <3>1 DEF List, TypeOK, Process
        <4> HIDE DEF Inv, q
        <4> QED
          BY <2>1, <4>1, <4>2, LocalStep
      <3>2. CASE ListFails(p) \/ Verify(p) \/ VerifyFails(p)
        <4>1. PICK pc \in {"error", "done"}, met \in BOOLEAN :
                proc' = [proc EXCEPT ![p] = [proc[p] EXCEPT !.pc = pc, !.met = met]]
          <5>1. CASE ListFails(p) \/ VerifyFails(p)
            <6>1. proc' = [proc EXCEPT ![p] = [proc[p] EXCEPT !.pc = "error", !.met = TRUE]]
              BY <1>0, <5>1 DEF ListFails, VerifyFails, TypeOK, Process
            <6> QED
              BY <6>1
          <5>2. CASE Verify(p)
            <6>1. proc' = [proc EXCEPT ![p] =
                              [proc[p] EXCEPT !.pc = "done", !.met = proc[p].met]]
              BY <1>0, <5>2 DEF Verify, TypeOK, Process
            <6>2. proc[p].met \in BOOLEAN
              BY <1>0 DEF Process
            <6> QED
              BY <6>1, <6>2
          <5> QED
            BY <3>2, <5>1, <5>2
        <4> DEFINE q == [proc[p] EXCEPT !.pc = pc, !.met = met]
        <4>2. q \in Process /\ q.held = proc[p].held /\ q.name = proc[p].name
                /\ q.copy = proc[p].copy
          BY <1>0 DEF Process
        <4> HIDE DEF Inv, q
        <4> QED
          BY <2>1, <4>1, <4>2, LocalStep DEF q
      <3>3. CASE PutConflict(p) \/ ObjectFails(p)
        <4>1. PICK r \in Registries, met \in BOOLEAN :
                proc' = [proc EXCEPT ![p] = [proc[p] EXCEPT !.pc = "get",
                                               !.todo = proc[p].todo \ {r}, !.met = met]]
          <5>1. CASE PutConflict(p)
            <6>1. proc' = [proc EXCEPT ![p] =
                     [proc[p] EXCEPT !.pc = "get", !.todo = proc[p].todo \ {proc[p].name},
                                     !.met = proc[p].met]]
              BY <1>0, <5>1 DEF PutConflict, Continue, Handled, TypeOK, Process
            <6>2. proc[p].met \in BOOLEAN /\ proc[p].name \in Registries
              BY <1>0 DEF Process
            <6> QED
              BY <6>1, <6>2
          <5>2. CASE ObjectFails(p)
            <6>1. PICK r \in proc[p].todo :
                    proc' = [proc EXCEPT ![p] = [Continue(proc[p], r) EXCEPT !.met = TRUE]]
              BY <5>2 DEF ObjectFails, TypeOK
            <6>2. r \in Registries
              BY <1>0 DEF Process
            <6>3. proc' = [proc EXCEPT ![p] =
                     [proc[p] EXCEPT !.pc = "get", !.todo = proc[p].todo \ {r}, !.met = TRUE]]
              BY <1>0, <6>1 DEF Continue, Handled, Process
            <6> QED
              BY <6>2, <6>3
          <5> QED
            BY <3>3, <5>1, <5>2
        <4> DEFINE q == [proc[p] EXCEPT !.pc = "get", !.todo = proc[p].todo \ {r}, !.met = met]
        <4>2. q \in Process /\ q.held = proc[p].held /\ q.name = proc[p].name
                /\ q.copy = proc[p].copy
          BY <1>0 DEF Process
        <4> HIDE DEF Inv, q
        <4> QED
          BY <2>1, <4>1, <4>2, LocalStep DEF q
      <3>4. CASE Get(p)
        <4>1. PICK r \in proc[p].todo : proc' = [proc EXCEPT ![p] =
                CASE obj[r].ver = "none" -> Continue(proc[p], r)
                  [] obj[r].mark -> Handled(proc[p], r)
                  [] OTHER -> Read(proc[p], r, obj[r])]
          BY <3>4 DEF Get, TypeOK
        <4>2. r \in Registries /\ obj[r] \in Object
          BY <1>0 DEF Process, TypeOK
        <4>3. CASE obj[r].ver = "none" \/ obj[r].mark
          <5> DEFINE q == Handled(proc[p], r)
          <5>1. proc' = [proc EXCEPT ![p] = q]
            <6>1. CASE obj[r].ver = "none"
              BY <4>1, <6>1 DEF Continue
            <6>2. CASE obj[r].ver # "none" /\ obj[r].mark
              BY <4>1, <6>2
            <6> QED
              BY <4>3, <6>1, <6>2
          <5>2. q \in Process /\ q.held = proc[p].held /\ q.name = proc[p].name
                  /\ q.copy = proc[p].copy
            BY <1>0 DEF Process, Handled
          <5> HIDE DEF Inv, q
          <5> QED
            BY <2>1, <5>1, <5>2, LocalStep
        <4>4. CASE obj[r].ver # "none" /\ ~obj[r].mark
          <5> DEFINE q == Read(proc[p], r, obj[r])
          <5>1. proc' = [proc EXCEPT ![p] = q]
            BY <4>1, <4>4
          <5>2. q \in Process /\ q.name = r /\ q.copy = obj[r]
            BY <1>0, <4>2 DEF Process, Read
          <5> HIDE DEF q
          <5>3. proc' \in [Processes -> Process]
            BY <5>1, <5>2 DEF TypeOK
          <5>4. ASSUME NEW x \in Processes, proc'[x].held
                PROVE  /\ obj'[proc'[x].name].ver # "none"
                       /\ proc'[x].copy = obj'[proc'[x].name]
            BY <2>1, <4>4, <5>1, <5>2, <5>4 DEF HeldIsCurrent, TypeOK
          <5> QED
            BY <5>3, <5>4 DEF HeldIsCurrent
        <4> QED
          BY <4>3, <4>4
      <3> QED
        BY <1>2, <3>1, <3>2, <3>3, <3>4
    <2> QED
      BY <2>1, <2>2 DEF TypeOK, Survives
  <1> QED
    BY <1>1, <1>2

\* Users and the cluster's migrator.
LEMMA EnvironmentStep ==
    ASSUME Inv, Environment
    PROVE  Inv' /\ Survives
  <1> USE DEF Inv
  <1>1. \A x \in Processes : proc[x] \in Process
    BY DEF TypeOK
  <1>2. ASSUME NEW r \in Registries, NEW o \in Object, WriteObject(r, o, proc)
        PROVE  /\ obj' \in [Registries -> Object]
               /\ proc' \in [Processes -> Process]
               /\ HeldIsCurrent'
    <2>1. proc \in [Processes -> Process]
      BY DEF TypeOK
    <2> HIDE DEF Inv
    <2> QED
      BY <1>2, <2>1, WriteStep
  <1>3. CASE UserWrites \/ UserDeletes
    <2>1. PICK r \in Registries : \E o \in Object :
            /\ WriteObject(r, o, proc)
            /\ count.edits < MaxEdits
            /\ count' = [count EXCEPT !.edits = count.edits + 1]
            /\ UNCHANGED <<listed, svm>>
      <3>1. CASE UserWrites
        <4>1. PICK r \in Registries :
                /\ count.edits < MaxEdits
                /\ WriteObject(r, [obj[r] EXCEPT !.ver = "target",
                                                !.content = obj[r].content + 1], proc)
                /\ count' = [count EXCEPT !.edits = count.edits + 1]
                /\ UNCHANGED <<listed, svm>>
          BY <3>1 DEF UserWrites, TypeOK
        <4>2. obj[r] \in Object /\ obj[r].content + 1 \in Nat
          BY <4>1 DEF TypeOK, Object
        <4> QED
          BY <4>1, <4>2 DEF Object
      <3>2. CASE UserDeletes
        <4>1. NoObject \in Object
          BY BoundsAssumption DEF NoObject, Object
        <4> QED
          BY <3>2, <4>1 DEF UserDeletes
      <3> QED
        BY <1>3, <3>1, <3>2
    <2>2. /\ count' \in [edits : 0 .. MaxEdits, faults : 0 .. MaxFaults]
          /\ count'.edits = count.edits + 1
      BY <2>1, BoundsAssumption DEF TypeOK
    <2> QED
      BY <1>2, <2>1, <2>2 DEF TypeOK, Survives
  <1>4. CASE MigratorWrites
    <2>1. PICK r \in Registries :
            /\ obj[r].ver = "source"
            /\ WriteObject(r, [obj[r] EXCEPT !.ver = "target"], proc)
            /\ UNCHANGED <<listed, svm, count>>
      BY <1>4 DEF MigratorWrites
    <2>2. obj[r] \in Object /\ [obj[r] EXCEPT !.ver = "target"] \in Object
      BY DEF TypeOK, Object
    <2>3. obj' = [obj EXCEPT ![r] = [obj[r] EXCEPT !.ver = "target"]]
      BY <2>1 DEF WriteObject
    <2>4. Survives
      BY <2>1, <2>2, <2>3 DEF Survives, TypeOK, Object
    <2> QED
      BY <1>2, <2>1, <2>2, <2>4 DEF TypeOK
  <1>5. CASE MigratorReports \/ SvmDeleted
    <2>1. /\ listed' = listed /\ obj' = obj /\ proc' = proc
          /\ svm' \in {"none", "running", "succeeded", "failed"}
          /\ count' \in [edits : 0 .. MaxEdits, faults : 0 .. MaxFaults]
      BY <1>5, FaultStep DEF MigratorReports, SvmDeleted, TypeOK
    <2> QED
      BY <2>1 DEF TypeOK, HeldIsCurrent, Survives
  <1> QED
    BY <1>3, <1>4, <1>5 DEF Environment

LEMMA NextStep ==
    ASSUME Inv, [Next]_vars
    PROVE  Inv' /\ [Survives]_vars
  <1>1. CASE UNCHANGED vars
    BY <1>1 DEF Inv, TypeOK, HeldIsCurrent, vars
  <1>2. CASE Next
    BY <1>2, ManagerStep, ManualStep, EnvironmentStep DEF Next, Steps
  <1> QED
    BY <1>1, <1>2

LEMMA InitStep == Init => Inv
  <1> SUFFICES ASSUME Init PROVE Inv
    OBVIOUS
  <1>1. obj \in [Registries -> Object] /\ listed \in BOOLEAN
    <2>1. NoObject \in Object
      BY BoundsAssumption DEF NoObject, Object
    <2>2. [NoObject EXCEPT !.ver = IF listed THEN "source" ELSE "target"] \in Object
      BY <2>1 DEF Object
    <2> QED
      BY <2>2 DEF Init
  <1>2. proc \in [Processes -> Process] /\ \A p \in Processes : ~proc[p].held
    BY AtType DEF Init
  <1> QED
    BY <1>1, <1>2, BoundsAssumption DEF Init, Inv, TypeOK, HeldIsCurrent

-----------------------------------------------------------------------------
(***************************************************************************)
(* SuccessIsEarned                                                          *)
(***************************************************************************)
\* No step stores an object in the source version, or leaves a process with an
\* outdated copy of an object that is still in it.
Forward ==
    \A r \in Registries : obj'[r] # obj[r] => obj'[r].ver # "source"

Bystander(x) ==
    \/ proc'[x] = proc[x]
    \/ /\ proc'[x] = [proc[x] EXCEPT !.held = FALSE]
       /\ obj'[proc[x].name].ver # "source"

LEMMA ForwardKeeps == ASSUME Forward, AllMigrated PROVE AllMigrated'
  BY DEF Forward, AllMigrated

LEMMA BystanderEarns ==
    ASSUME Inv, NEW x \in Processes, Earns(x), Forward, Bystander(x)
    PROVE  Earns(x)'
  <1>1. proc[x] \in Process
    BY DEF Inv, TypeOK
  <1>2. /\ proc'[x].pc = proc[x].pc /\ proc'[x].met = proc[x].met
        /\ proc'[x].todo = proc[x].todo /\ proc'[x].name = proc[x].name
        /\ proc[x].name \in Registries
    BY <1>1 DEF Bystander, Process
  <1>3. \A r \in Registries : obj'[r].ver = "source" => obj[r].ver = "source"
    BY DEF Forward
  <1>4. proc'[x].pc = "put" /\ ~proc'[x].held => obj'[proc'[x].name].ver # "source"
    <2>1. CASE proc'[x] = proc[x]
      BY <1>2, <1>3, <2>1 DEF Earns
    <2>2. CASE obj'[proc[x].name].ver # "source"
      BY <1>2, <2>2
    <2> QED
      BY <2>1, <2>2 DEF Bystander
  <1> QED
    BY <1>2, <1>3, <1>4, ForwardKeeps DEF Earns

\* A write of the target version, or a deletion.
LEMMA WriteForward ==
    ASSUME Inv, NEW r \in Registries, NEW o \in Object, o.ver # "source",
           NEW locals \in [Processes -> Process], WriteObject(r, o, locals)
    PROVE  /\ Forward
           /\ \A x \in Processes : locals[x] = proc[x] => Bystander(x)
  <1>1. Forward
    BY DEF WriteObject, Forward, Inv, TypeOK
  <1>2. obj'[r].ver # "source"
    BY DEF WriteObject, Inv, TypeOK
  <1> QED
    BY <1>1, <1>2 DEF WriteObject, Bystander

\* A step of process p that writes no object.
LEMMA LocalEarns ==
    ASSUME Inv, Progress, NEW p \in Processes, NEW q,
           proc' = [proc EXCEPT ![p] = q], UNCHANGED <<listed, obj>>,
           svm' = "succeeded" => svm = "succeeded" \/ AllMigrated,
           Earns(p)'
    PROVE  Progress'
  <1>1. Forward
    BY DEF Forward
  <1>2. ASSUME NEW x \in Processes, x # p PROVE Earns(x)'
    <2>1. Bystander(x)
      BY <1>2 DEF Bystander, Inv, TypeOK
    <2> QED
      BY <1>1, <2>1, BystanderEarns DEF Progress
  <1>3. \A r \in Registries : obj'[r].mark => obj'[r].ver # "source"
    BY DEF Progress
  <1>4. ~listed' \/ svm' = "succeeded" => AllMigrated'
    BY <1>1, ForwardKeeps DEF Progress
  <1> QED
    BY <1>2, <1>3, <1>4 DEF Progress

LEMMA ManagerEarns ==
    ASSUME Inv, Progress, NEW p \in Processes,
           Start(p) \/ Crash(p) \/ Decide(p) \/ DecideFails(p) \/ GetSvm(p) \/ GetSvmFails(p)
             \/ CreateSvm(p) \/ CreateSvmRaces(p) \/ CreateSvmFails(p) \/ Monitor(p)
    PROVE  Progress'
  <1>0. proc[p] \in Process /\ p \in DOMAIN proc
    BY DEF Inv, TypeOK
  <1>1. CASE Start(p) \/ Crash(p)
    <2>1. PICK pc \in {"down", "waiting"} : proc' = [proc EXCEPT ![p] = At(pc)]
      BY <1>1 DEF Start, Crash
    <2>2. UNCHANGED <<listed, obj, svm>>
      BY <1>1 DEF Start, Crash
    <2>3. proc'[p].pc \in {"down", "waiting"}
      BY <1>0, <2>1 DEF At
    <2>4. Earns(p)'
      BY <2>3 DEF Earns
    <2> QED
      BY <2>1, <2>2, <2>4, LocalEarns
  <1>2. CASE Decide(p)
    <2> DEFINE pc == IF ~listed THEN "done" ELSE IF SvmSupported THEN "create" ELSE "list"
    <2>1. proc' = [proc EXCEPT ![p] = [proc[p] EXCEPT !.pc = pc]] /\ UNCHANGED <<listed, obj, svm>>
      BY <1>0, <1>2 DEF Decide
    <2>2. proc'[p].pc = pc /\ proc'[p].met = proc[p].met
      BY <1>0, <2>1 DEF Process
    <2>3. ~listed => AllMigrated'
      BY <2>1 DEF Progress, AllMigrated
    <2>4. Earns(p)'
      BY <2>2, <2>3 DEF Earns
    <2> QED
      BY <2>1, <2>4, LocalEarns
  <1>3. CASE DecideFails(p)
    <2>1. PICK pc \in {"error", "list"} :
            proc' = [proc EXCEPT ![p] = [proc[p] EXCEPT !.pc = pc, !.met = TRUE]]
      BY <1>0, <1>3 DEF DecideFails
    <2>2. UNCHANGED <<listed, obj, svm>>
      BY <1>3 DEF DecideFails
    <2>3. proc'[p].pc \in {"error", "list"}
      BY <1>0, <2>1 DEF Process
    <2>4. Earns(p)'
      BY <2>3 DEF Earns
    <2> QED
      BY <2>1, <2>2, <2>4, LocalEarns
  <1>4. CASE GetSvm(p) \/ GetSvmFails(p) \/ CreateSvm(p) \/ CreateSvmRaces(p) \/ CreateSvmFails(p)
    <2>1. PICK q \in Process :
            /\ proc' = [proc EXCEPT ![p] = q] /\ q.pc \in {"post", "monitor", "list"}
      <3>1. \E pc \in {"post", "monitor", "list"} :
              \/ proc' = [proc EXCEPT ![p] = [proc[p] EXCEPT !.pc = pc]]
              \/ proc' = [proc EXCEPT ![p] = [proc[p] EXCEPT !.pc = pc, !.met = TRUE]]
        BY <1>0, <1>4 DEF GetSvm, GetSvmFails, CreateSvm, CreateSvmRaces, CreateSvmFails
      <3>2. \A pc \in {"post", "monitor", "list"} :
              /\ [proc[p] EXCEPT !.pc = pc] \in Process
              /\ [proc[p] EXCEPT !.pc = pc].pc = pc
              /\ [proc[p] EXCEPT !.pc = pc, !.met = TRUE] \in Process
              /\ [proc[p] EXCEPT !.pc = pc, !.met = TRUE].pc = pc
        BY <1>0 DEF Process
      <3> QED
        BY <3>1, <3>2
    <2>2. UNCHANGED <<listed, obj>> /\ svm' \in {svm, "running"}
      BY <1>4 DEF GetSvm, GetSvmFails, CreateSvm, CreateSvmRaces, CreateSvmFails
    <2>3. Earns(p)'
      BY <1>0, <2>1 DEF Earns
    <2> QED
      BY <2>1, <2>2, <2>3, LocalEarns
  <1>5. CASE Monitor(p)
    <2> DEFINE q == [proc[p] EXCEPT !.pc = Found(svm), !.met = proc[p].met \/ svm = "none"]
    <2>1. proc' = [proc EXCEPT ![p] = q] /\ UNCHANGED <<listed, obj, svm>>
      BY <1>0, <1>5 DEF Monitor
    <2>2. q.pc = Found(svm) /\ (~q.met => svm # "none")
      BY <1>0 DEF Process
    <2>3. /\ Found(svm) \in {"done", "list"}
          /\ Found(svm) = "done" => svm \in {"none", "succeeded"}
      BY <1>5 DEF Monitor, Found, Inv, TypeOK
    <2>4. svm = "succeeded" => AllMigrated'
      BY <2>1 DEF Progress, AllMigrated
    <2> HIDE DEF q
    <2>5. Earns(p)'
      BY <1>0, <2>1, <2>2, <2>3, <2>4 DEF Earns
    <2> QED
      BY <2>1, <2>5, LocalEarns
  <1> QED
    BY <1>1, <1>2, <1>3, <1>4, <1>5

\* A step that writes an object, in the target version, or deletes it.
LEMMA WriteEarns ==
    ASSUME Inv, Progress, NEW r \in Registries, NEW o \in Object, o.ver # "source",
           NEW locals \in [Processes -> Process], WriteObject(r, o, locals),
           UNCHANGED <<listed, svm>>,
           \A x \in Processes : locals[x] = proc[x] \/ Earns(x)'
    PROVE  Progress'
  <1>1. Forward /\ \A x \in Processes : locals[x] = proc[x] => Bystander(x)
    BY WriteForward
  <1>2. \A x \in Processes : Earns(x)'
    BY <1>1, BystanderEarns DEF Progress
  <1>3. \A s \in Registries : obj'[s].mark => obj'[s].ver # "source"
    BY DEF Progress, WriteObject, Inv, TypeOK
  <1>4. ~listed' \/ svm' = "succeeded" => AllMigrated'
    BY <1>1, ForwardKeeps DEF Progress
  <1> QED
    BY <1>2, <1>3, <1>4 DEF Progress

LEMMA ManualEarns ==
    ASSUME Inv, Progress, NEW p \in Processes,
           List(p) \/ ListFails(p) \/ Get(p) \/ Put(p) \/ PutConflict(p)
             \/ ObjectFails(p) \/ Verify(p) \/ VerifyFails(p)
    PROVE  Progress'
  <1>0. proc[p] \in Process /\ p \in DOMAIN proc /\ Earns(p)
    BY DEF Inv, TypeOK, Progress
  <1>1. CASE List(p)
    <2> DEFINE q == [proc[p] EXCEPT !.pc = "get",
                                    !.todo = {r \in Registries : obj[r].ver # "none"}]
    <2>1. proc' = [proc EXCEPT ![p] = q] /\ UNCHANGED <<listed, obj, svm>>
      BY <1>0, <1>1 DEF List, Process
    <2>2. q.pc = "get" /\ q.todo = {r \in Registries : obj[r].ver # "none"}
      BY <1>0 DEF Process
    <2> HIDE DEF q
    <2>3. Earns(p)'
      BY <1>0, <2>1, <2>2 DEF Earns
    <2> QED
      BY <2>1, <2>3, LocalEarns
  <1>2. CASE ListFails(p) \/ VerifyFails(p)
    <2> DEFINE q == [proc[p] EXCEPT !.pc = "error", !.met = TRUE]
    <2>1. proc' = [proc EXCEPT ![p] = q] /\ UNCHANGED <<listed, obj, svm>>
      BY <1>0, <1>2 DEF ListFails, VerifyFails, Process
    <2>2. q.pc = "error"
      BY <1>0 DEF Process
    <2> HIDE DEF q
    <2>3. Earns(p)'
      BY <1>0, <2>1, <2>2 DEF Earns
    <2> QED
      BY <2>1, <2>3, LocalEarns
  <1>3. CASE Verify(p)
    <2> DEFINE q == [proc[p] EXCEPT !.pc = "done"]
    <2>1. /\ proc' = [proc EXCEPT ![p] = q] /\ UNCHANGED <<listed, obj, svm>>
          /\ proc[p].pc = "get" /\ proc[p].todo = {}
      BY <1>0, <1>3 DEF Verify, Process
    <2>2. q.pc = "done" /\ q.met = proc[p].met
      BY <1>0 DEF Process
    <2>3. ~proc[p].met => AllMigrated'
      BY <1>0, <2>1 DEF Earns, AllMigrated
    <2> HIDE DEF q
    <2>4. Earns(p)'
      BY <1>0, <2>1, <2>2, <2>3 DEF Earns
    <2> QED
      BY <2>1, <2>4, LocalEarns
  <1>5. CASE Get(p)
    <2>0. UNCHANGED <<listed, obj, svm>> /\ proc[p].pc = "get"
      BY <1>5 DEF Get
    <2>1. PICK r \in proc[p].todo : proc' = [proc EXCEPT ![p] =
            CASE obj[r].ver = "none" -> Continue(proc[p], r)
              [] obj[r].mark -> Handled(proc[p], r)
              [] OTHER -> Read(proc[p], r, obj[r])]
      BY <1>5 DEF Get, Inv, TypeOK
    <2>2. r \in Registries
      BY <1>0 DEF Process
    <2>3. CASE obj[r].ver = "none" \/ obj[r].mark
      <3> DEFINE q == Handled(proc[p], r)
      <3>1. proc' = [proc EXCEPT ![p] = q]
        <4>1. CASE obj[r].ver = "none"
          BY <2>1, <4>1 DEF Continue
        <4>2. CASE obj[r].ver # "none" /\ obj[r].mark
          BY <2>1, <4>2
        <4> QED
          BY <2>3, <4>1, <4>2
      <3>2. q.pc = "get" /\ q.todo = proc[p].todo \ {r} /\ q.met = proc[p].met
        BY <1>0 DEF Process, Handled
      <3>3. obj[r].ver # "source"
        BY <2>2, <2>3 DEF Progress
      <3> HIDE DEF q
      <3>4. Earns(p)'
        BY <1>0, <2>0, <3>1, <3>2, <3>3 DEF Earns
      <3> QED
        BY <2>0, <3>1, <3>4, LocalEarns
    <2>4. CASE obj[r].ver # "none" /\ ~obj[r].mark
      <3> DEFINE q == Read(proc[p], r, obj[r])
      <3>1. proc' = [proc EXCEPT ![p] = q]
        BY <2>1, <2>4
      <3>2. q.pc = "put" /\ q.todo = proc[p].todo /\ q.met = proc[p].met /\ q.held
        BY <1>0 DEF Process, Read
      <3> HIDE DEF q
      <3>3. Earns(p)'
        BY <1>0, <2>0, <3>1, <3>2 DEF Earns
      <3> QED
        BY <2>0, <3>1, <3>3, LocalEarns
    <2> QED
      BY <2>3, <2>4
  <1>6. CASE PutConflict(p)
    <2> DEFINE q == Handled(proc[p], proc[p].name)
    <2>1. /\ proc' = [proc EXCEPT ![p] = q] /\ UNCHANGED <<listed, obj, svm>>
          /\ proc[p].pc = "put" /\ ~proc[p].held
      BY <1>0, <1>6 DEF PutConflict, PutAllowed, Continue
    <2>2. /\ q.pc = "get" /\ q.todo = proc[p].todo \ {proc[p].name} /\ q.met = proc[p].met
      BY <1>0 DEF Process, Handled
    <2>3. obj[proc[p].name].ver # "source"
      BY <1>0, <2>1 DEF Earns
    <2> HIDE DEF q
    <2>4. Earns(p)'
      BY <1>0, <2>1, <2>2, <2>3 DEF Earns
    <2> QED
      BY <2>1, <2>4, LocalEarns
  <1>7. CASE ObjectFails(p)
    <2>1. PICK r \in proc[p].todo :
            proc' = [proc EXCEPT ![p] = [Continue(proc[p], r) EXCEPT !.met = TRUE]]
      BY <1>7 DEF ObjectFails, Inv, TypeOK
    <2> DEFINE q == [Continue(proc[p], r) EXCEPT !.met = TRUE]
    <2>2. q.pc = "get" /\ q.met
      BY <1>0 DEF Continue, Handled, Process
    <2>3. UNCHANGED <<listed, obj, svm>>
      BY <1>7 DEF ObjectFails
    <2> HIDE DEF q
    <2>4. Earns(p)'
      BY <1>0, <2>1, <2>2 DEF Earns, q
    <2> QED
      BY <2>1, <2>3, <2>4, LocalEarns
  <1>8. CASE Put(p)
    <2> DEFINE r == proc[p].name
               o == [ver |-> "target", mark |-> TRUE, content |-> proc[p].copy.content]
               q == Handled(proc[p], r)
               locals == [proc EXCEPT ![p] = q]
    <2>1. r \in Registries /\ proc[p].pc = "put"
      BY <1>0, <1>8 DEF Put, Process
    <2>2. o \in Object /\ o.ver # "source"
      BY <1>0 DEF Process, Object
    <2>3. q \in Process /\ q.pc = "get" /\ q.todo = proc[p].todo \ {r} /\ q.met = proc[p].met
      BY <1>0 DEF Process, Handled
    <2>4. WriteObject(r, o, locals) /\ UNCHANGED <<listed, svm>>
      BY <1>0, <1>8 DEF Put, Inv, TypeOK, Process
    <2> HIDE DEF q, o
    <2>5. locals \in [Processes -> Process]
      BY <2>3 DEF Inv, TypeOK
    <2>6. \A x \in Processes : x # p => locals[x] = proc[x]
      BY DEF Inv, TypeOK
    <2>7. Forward
      <3> HIDE DEF r, locals
      <3> QED
        BY <2>1, <2>2, <2>4, <2>5, WriteForward
    <2>8. obj'[r].ver # "source"
      BY <2>1, <2>2, <2>4 DEF WriteObject, Inv, TypeOK
    <2>9. /\ proc'[p].pc = "get" /\ proc'[p].todo = proc[p].todo \ {r}
          /\ proc'[p].met = proc[p].met
      <3>1. locals[p] = q
        BY <1>0
      <3>2. proc'[p] = q \/ proc'[p] = [q EXCEPT !.held = FALSE]
        BY <2>4, <3>1 DEF WriteObject
      <3> QED
        BY <2>3, <3>2 DEF Process
    <2>10. Earns(p)'
      BY <1>0, <2>1, <2>7, <2>8, <2>9 DEF Earns, Forward
    <2>11. \A x \in Processes : locals[x] = proc[x] \/ Earns(x)'
      BY <2>6, <2>10
    <2> HIDE DEF r, locals
    <2> QED
      BY <2>1, <2>2, <2>4, <2>5, <2>11, WriteEarns
  <1> QED
    BY <1>1, <1>2, <1>3, <1>5, <1>6, <1>7, <1>8

LEMMA EnvironmentEarns ==
    ASSUME Inv, Progress, Environment
    PROVE  Progress'
  <1>1. ASSUME NEW r \in Registries, NEW o \in Object, o.ver # "source",
               WriteObject(r, o, proc), UNCHANGED <<listed, svm>>
        PROVE  Progress'
    <2>1. proc \in [Processes -> Process]
      BY DEF Inv, TypeOK
    <2> QED
      BY <1>1, <2>1, WriteEarns
  <1>2. \A r \in Registries : obj[r] \in Object
    BY DEF Inv, TypeOK
  <1>3. CASE UserWrites
    <2>1. PICK r \in Registries :
            /\ WriteObject(r, [obj[r] EXCEPT !.ver = "target",
                                            !.content = obj[r].content + 1], proc)
            /\ UNCHANGED <<listed, svm>>
      BY <1>3 DEF UserWrites
    <2> DEFINE o == [obj[r] EXCEPT !.ver = "target", !.content = obj[r].content + 1]
    <2>2. obj[r] \in Object /\ obj[r].content + 1 \in Nat
      BY <1>2 DEF Object
    <2>3. o \in Object /\ o.ver # "source"
      BY <2>2 DEF Object
    <2> HIDE DEF o
    <2> QED
      BY <1>1, <2>1, <2>3 DEF o
  <1>4. CASE UserDeletes
    <2>1. NoObject \in Object /\ NoObject.ver # "source"
      BY DEF NoObject, Object
    <2> QED
      BY <1>1, <1>4, <2>1 DEF UserDeletes
  <1>5. CASE MigratorWrites
    <2>1. PICK r \in Registries :
            /\ WriteObject(r, [obj[r] EXCEPT !.ver = "target"], proc)
            /\ UNCHANGED <<listed, svm>>
      BY <1>5 DEF MigratorWrites
    <2> DEFINE o == [obj[r] EXCEPT !.ver = "target"]
    <2>2. o \in Object /\ o.ver # "source"
      BY <1>2 DEF Object
    <2> HIDE DEF o
    <2> QED
      BY <1>1, <2>1, <2>2 DEF o
  <1>6. CASE MigratorReports \/ SvmDeleted
    <2>1. /\ UNCHANGED <<listed, obj, proc>>
          /\ svm' = "succeeded" => \A r \in Registries : obj[r].ver # "source"
      BY <1>6 DEF MigratorReports, SvmDeleted
    <2> QED
      BY <2>1 DEF Progress, Earns, AllMigrated
  <1> QED
    BY <1>3, <1>4, <1>5, <1>6 DEF Environment

LEMMA InitEarns == Init => Progress
  <1> SUFFICES ASSUME Init PROVE Progress
    OBVIOUS
  <1>1. \A r \in Registries : ~obj[r].mark /\ (~listed => obj[r].ver = "target")
    BY DEF Init, NoObject
  <1>2. \A p \in Processes : proc[p].pc = "down"
    BY DEF Init, At
  <1> QED
    BY <1>1, <1>2 DEF Init, Progress, Earns, AllMigrated

\* With any number of operator processes migrating at the same time, next to the
\* cluster's migrator, no write or deletion of a user is ever undone.
THEOREM MigrationKeepsUserWrites == Spec => UserWritesSurvive
  <1>1. Inv /\ [Next]_vars => Inv' /\ [Survives]_vars
    BY NextStep
  <1>2. Spec => [][Survives]_vars
    BY InitStep, <1>1, PTL DEF Spec
  <1>3. UserWritesSurvive <=> [][Survives]_vars
    BY DEF UserWritesSurvive, Survives
  <1> QED
    BY <1>2, <1>3

\* What a process knows on its way to "done", whatever fails and whoever else writes.
THEOREM ProgressIsKept == Spec => []Progress
  <1>1. Inv /\ Progress /\ [Next]_vars => Inv' /\ Progress'
    <2> SUFFICES ASSUME Inv, Progress, [Next]_vars PROVE Inv' /\ Progress'
      OBVIOUS
    <2>1. Inv'
      BY NextStep
    <2>2. CASE Next
      <3>1. CASE Environment
        BY <2>1, <3>1, EnvironmentEarns
      <3>2. ASSUME NEW p \in Processes, Start(p) \/ Crash(p) \/ Steps(p) PROVE Progress'
        BY <3>2, ManagerEarns, ManualEarns DEF Steps
      <3> QED
        BY <2>1, <2>2, <3>1, <3>2 DEF Next
    <2>3. CASE UNCHANGED vars
      <3>1. UNCHANGED <<listed, obj, svm, proc>>
        BY <2>3 DEF vars
      <3>2. ASSUME NEW p \in Processes PROVE Earns(p)'
        BY <3>1 DEF Progress, Earns, AllMigrated
      <3> QED
        BY <2>1, <3>1, <3>2 DEF Progress, AllMigrated
    <2> QED
      BY <2>1, <2>2, <2>3
  <1> QED
    BY InitStep, InitEarns, <1>1, PTL DEF Spec

\* A process that reports success without having met an error has left no object in
\* the source version, for any number of processes, objects, writes and faults.
THEOREM SuccessMeansMigrated == Spec => []SuccessIsEarned
  <1>1. Progress => SuccessIsEarned
    BY DEF Progress, Earns, SuccessIsEarned
  <1> QED
    BY <1>1, ProgressIsKept, PTL
=============================================================================
