--------------------------- MODULE ActivationLifecycle ---------------------------
(***************************************************************************)
(* What the activation protocol promises to whoever reads a Catalog's       *)
(* status, without passes, caches, patches or conflicts: the life of the    *)
(* activation record (docs/catalog-image-activation.md).                    *)
(*                                                                          *)
(* Attempts are numbered in the order they are recorded. An attempt ends in *)
(* "Failed" for good; the success record moves only to the current attempt, *)
(* and only once a pod of that attempt was validated and ready; a workload  *)
(* never runs ahead of the record.                                          *)
(***************************************************************************)
EXTENDS Naturals

VARIABLES
    attempt,    \* the recorded attempt, 0 before the first
    state,      \* its state
    last,       \* the attempt recorded as the last successful one
    proven,     \* attempts that have had a validated, ready pod
    workload    \* the attempt the Deployment carries, 0 without one

vars == <<attempt, state, last, proven, workload>>

Init ==
    /\ attempt = 0
    /\ state = "None"
    /\ last = 0
    /\ proven = {}
    /\ workload = 0

\* A new request is recorded. The success record survives it.
Request ==
    /\ attempt' = attempt + 1
    /\ state' \in {"Pending", "Failed"}
    /\ UNCHANGED <<last, proven, workload>>

\* The current attempt is decided, or falls back to pending. Failed is final.
Decide ==
    /\ attempt # 0
    /\ state # "Failed"
    /\ state' \in {"Pending", "Succeeded", "Failed"}
    /\ last' \in {last, attempt}
    /\ state' = "Succeeded" => last' = attempt
    /\ last' # last => attempt \in proven
    /\ UNCHANGED <<attempt, proven, workload>>

\* The workload carries an attempt that was recorded before.
RollOut ==
    /\ workload' \in 0 .. attempt
    /\ UNCHANGED <<attempt, state, last, proven>>

\* A pod of a recorded attempt passes validation and becomes ready.
Prove ==
    /\ \E a \in 1 .. attempt : proven' = proven \cup {a}
    /\ UNCHANGED <<attempt, state, last, workload>>

Next == Request \/ Decide \/ RollOut \/ Prove

Spec == Init /\ [][Next]_vars
=============================================================================
