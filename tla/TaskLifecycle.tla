--------------------------- MODULE TaskLifecycle ----------------------------
(***************************************************************************)
(* What the writers of a VideoTask promise together: the transitions the   *)
(* status column may make, that the Provider's identifier is written once, *)
(* and that the reference object is released for deletion only by the      *)
(* write that ends the task.  Every operation of the API, the worker and   *)
(* the reconciliation script is one of these steps or leaves the three     *)
(* columns alone; Submission and Polling are checked to implement it.      *)
(***************************************************************************)
CONSTANTS ProviderTaskIds, NoId

VARIABLES status,          \* VideoTask.status
          providerTaskId,  \* VideoTask.providerTaskId
          cleanupReady     \* VideoTask.providerAssetCleanupReadyAt is set

vars == <<status, providerTaskId, cleanupReady>>

Final == {"SUCCEEDED", "FAILED", "CANCELLED", "EXPIRED"}

Init == /\ status = "QUEUED"
        /\ providerTaskId = NoId
        /\ cleanupReady = FALSE

\* A worker takes the task.
Start == /\ status = "QUEUED"
         /\ status' = "SUBMITTING"
         /\ UNCHANGED <<providerTaskId, cleanupReady>>

\* The create call, or an operator, names the Provider task.
Accept == /\ status \in {"SUBMITTING", "RECONCILIATION_REQUIRED"}
          /\ providerTaskId = NoId
          /\ status' = "PROCESSING"
          /\ providerTaskId' \in ProviderTaskIds
          /\ cleanupReady' = FALSE

\* Nobody knows whether the Provider has the task.
OutcomeUnknown == /\ status = "SUBMITTING"
                  /\ status' = "RECONCILIATION_REQUIRED"
                  /\ UNCHANGED <<providerTaskId, cleanupReady>>

\* The Provider does not have the task: the object may go.
NotCreated == /\ status \in {"SUBMITTING", "RECONCILIATION_REQUIRED"}
              /\ providerTaskId = NoId
              /\ status' = "FAILED"
              /\ cleanupReady' = TRUE
              /\ UNCHANGED providerTaskId

\* The Provider's task has ended, or its output is stored.
Finish == /\ status = "PROCESSING"
          /\ status' \in Final
          /\ cleanupReady' = TRUE
          /\ UNCHANGED providerTaskId

\* The local deadline passed before the Provider's task ended.
LoseTrack == /\ status = "PROCESSING"
             /\ status' = "RECONCILIATION_REQUIRED"
             /\ cleanupReady' = FALSE
             /\ UNCHANGED providerTaskId

\* The user gives the task up: whatever the Provider does, the object stays.
Cancel == /\ status \in {"QUEUED", "SUBMITTING", "PROCESSING"}
          /\ status' = "CANCELLED"
          /\ UNCHANGED <<providerTaskId, cleanupReady>>

Next == \/ Start \/ Accept \/ OutcomeUnknown \/ NotCreated
        \/ Finish \/ LoseTrack \/ Cancel

Spec == Init /\ [][Next]_vars
=============================================================================
