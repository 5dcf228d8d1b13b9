------------------------------ MODULE TaskPool ------------------------------
(***************************************************************************)
(* What the master server promises, without queues, epochs, timers,        *)
(* snapshots or crashes: a pool of tasks, each of them waiting, running,   *)
(* done or discarded, and a pass counter that advances when the last       *)
(* running task of the pass is done.                                       *)
(*                                                                         *)
(* A crash of the master is not visible in the pool.                       *)
(*                                                                         *)
(* The design (doc/v2/design/cluster_train/README.md:59-60) discards a     *)
(* task that failed too often for good, and resets the counters of all     *)
(* tasks in a new pass.  The pool promises less, as the code does: a       *)
(* discarded task is back in the next pass with its counter, and is        *)
(* discarded by its first failure there.                                   *)
(***************************************************************************)
EXTENDS Naturals

CONSTANTS NumTasks, FailureMax

VARIABLES
    loaded,    \* the dataset was accepted
    status,    \* status[id]: where task id is in its life
    failures,  \* failures[id]: failures of the task since it last finished
    pass       \* the pass the pool runs

poolVars == <<loaded, status, failures, pass>>

PoolIDs == 1..NumTasks

Statuses == {"todo", "pending", "done", "discarded"}

\* Types of the abstract pool.
PoolTypeOK ==
    /\ loaded \in BOOLEAN
    /\ status \in [PoolIDs -> Statuses]
    /\ failures \in [PoolIDs -> Nat]
    /\ pass \in Nat

PoolInit ==
    /\ loaded = FALSE
    /\ status = [id \in PoolIDs |-> "todo"]
    /\ failures = [id \in PoolIDs |-> 0]
    /\ pass = 0

Load ==
    /\ ~loaded
    /\ loaded' = TRUE
    /\ UNCHANGED <<status, failures, pass>>

Dispatch(id) ==
    /\ loaded
    /\ status[id] = "todo"
    /\ status' = [status EXCEPT ![id] = "pending"]
    /\ UNCHANGED <<loaded, failures, pass>>

\* The last task of the pass: nothing else waits or runs.
LastOfPass(id) ==
    \A other \in PoolIDs \ {id} : status[other] \in {"done", "discarded"}

Finish(id) ==
    /\ loaded
    /\ status[id] = "pending"
    /\ ~ LastOfPass(id)
    /\ status' = [status EXCEPT ![id] = "done"]
    /\ failures' = [failures EXCEPT ![id] = 0]
    /\ UNCHANGED <<loaded, pass>>

\* Only the counter of the task that finishes is reset; those that finished
\* before have theirs at zero, those that were discarded keep it.
FinishPass(id) ==
    /\ loaded
    /\ status[id] = "pending"
    /\ LastOfPass(id)
    /\ status' = [other \in PoolIDs |-> "todo"]
    /\ failures' = [failures EXCEPT ![id] = 0]
    /\ pass' = pass + 1
    /\ UNCHANGED loaded

Retry(id) ==
    /\ loaded
    /\ status[id] = "pending"
    /\ failures[id] < FailureMax
    /\ status' = [status EXCEPT ![id] = "todo"]
    /\ failures' = [failures EXCEPT ![id] = @ + 1]
    /\ UNCHANGED <<loaded, pass>>

Discard(id) ==
    /\ loaded
    /\ status[id] = "pending"
    /\ failures[id] >= FailureMax
    /\ status' = [status EXCEPT ![id] = "discarded"]
    /\ failures' = [failures EXCEPT ![id] = @ + 1]
    /\ UNCHANGED <<loaded, pass>>

PoolNext ==
    \/ Load
    \/ \E id \in PoolIDs :
          Dispatch(id) \/ Finish(id) \/ FinishPass(id) \/ Retry(id) \/ Discard(id)

PoolSpec == PoolInit /\ [][PoolNext]_poolVars
=============================================================================
