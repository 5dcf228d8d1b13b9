-------------------------- MODULE MasterRefinement --------------------------
(***************************************************************************)
(* The master server with a store that never fails implements TaskPool.    *)
(* The pool is read off the snapshot: every handler saves what it did      *)
(* before it answers, so a crash and a recovery leave the pool as it was.  *)
(***************************************************************************)
EXTENDS MasterService

EntriesOf(q) == {q[i] : i \in 1..Len(q)}

\* Where task id is in the snapshot.
StatusOf(st, id) ==
    CASE IsPending(st, id)      -> "pending"
      [] InQueue(st.Todo, id)   -> "todo"
      [] InQueue(st.Done, id)   -> "done"
      [] InQueue(st.Failed, id) -> "discarded"

FailuresOf(st, id) ==
    IF IsPending(st, id)
    THEN st.Pending[id].NumFailure
    ELSE (CHOOSE e \in EntriesOf(st.Todo) \cup EntriesOf(st.Done)
                          \cup EntriesOf(st.Failed) : e.ID = id).NumFailure

Pool == INSTANCE TaskPool WITH
    loaded   <- store # NoState,
    status   <- [id \in TaskIDs |-> IF store = NoState THEN "todo" ELSE StatusOf(store, id)],
    failures <- [id \in TaskIDs |-> IF store = NoState THEN 0 ELSE FailuresOf(store, id)],
    pass     <- IF store = NoState THEN 0 ELSE store.CurPass

\* The master implements the pool: each handler is one step of the pool or no
\* step at all, tasks change hands only as TaskPool says, and crashes,
\* recoveries, late reports and expired timers are invisible.  The pool is that
\* of the code, not of the design: NewPassResetsFailures is false.
ImplementsTaskPool == Pool!PoolSpec

\* A new pass begins with the failure counters of all tasks at zero, as
\* doc/v2/design/cluster_train/README.md:60 has it.  TaskFinished resets the
\* counters of finished tasks and appends the discarded ones as they are.
NewPassResetsFailures ==
    [][store # NoState /\ store'.CurPass > store.CurPass =>
          \A id \in TaskIDs : FailuresOf(store', id) = 0]_vars
=============================================================================
