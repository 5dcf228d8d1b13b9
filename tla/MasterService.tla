--------------------------- MODULE MasterService ---------------------------
(***************************************************************************)
(* The task queues of the master server (go/master/service.go).            *)
(*                                                                         *)
(* The master partitions the dataset into tasks, hands tasks to trainers,  *)
(* takes them back when a trainer reports a failure or a timer expires,    *)
(* and starts a new pass when no task is left to run.  Every handler runs  *)
(* with Service.mu held, so a handler is one action; the last thing a      *)
(* handler that changed the queues does is to save them (snapshot), and    *)
(* the error of that save decides what the handler does next.              *)
(*                                                                         *)
(* The callers are left open here: any task ID may be reported finished,   *)
(* any task meta may be reported failed, at any time.  TrainingJob closes  *)
(* the system with the trainers' record loop.                              *)
(***************************************************************************)
EXTENDS Integers, Sequences

CONSTANTS
    NumTasks,    \* number of tasks partition() makes of the dataset
    FailureMax,  \* failures a task survives before it is discarded
    NumPasses,   \* passes the trainers ask for: the bound on CurPass
    SaveFaults,  \* TRUE when Store.Save may return an error
    NoEntry,     \* "no such key" in the map of pending tasks
    NoState      \* the store holds no snapshot yet

ASSUME MasterAssumption ==
    /\ NumTasks \in Nat
    /\ FailureMax \in Nat
    /\ NumPasses \in Nat
    /\ SaveFaults \in BOOLEAN

VARIABLES
    state,   \* Service.state: the four queues and the pass counter
    ready,   \* Service.ready is closed (and Service.initDone is set)
    timers,  \* closures scheduled by time.AfterFunc: [ID, Epoch] of the task
    store,   \* the snapshot in the store
    up,      \* the master process runs
    handed   \* history: the dispatches GetTask has answered with success

vars == <<state, ready, timers, store, up, handed>>

----------------------------------------------------------------------------
(* Data.                                                                   *)

TaskIDs == 1..NumTasks

TaskMeta == [ID : TaskIDs, Epoch : Nat]

\* A task entry: the task's meta and its failure counter.  The chunks of a
\* task never change, they are identified with its ID.
TaskEntry == [ID : TaskIDs, Epoch : Nat, NumFailure : Nat]

\* NoEntry and NoState stand for an absent key; they are no ordinary value.
ASSUME NoEntryAssumption == NoEntry \notin TaskEntry

MasterState == [Todo    : Seq(TaskEntry),
                Pending : [TaskIDs -> TaskEntry \cup {NoEntry}],
                Done    : Seq(TaskEntry),
                Failed  : Seq(TaskEntry),
                CurPass : Nat]

ASSUME NoStateAssumption == NoState \notin MasterState

EmptyState == [Todo    |-> <<>>,
               Pending |-> [id \in TaskIDs |-> NoEntry],
               Done    |-> <<>>,
               Failed  |-> <<>>,
               CurPass |-> 0]

IsPending(st, id) == st.Pending[id] # NoEntry

NothingPending(st) == \A id \in TaskIDs : ~IsPending(st, id)

MetaOf(entry) == [ID |-> entry.ID, Epoch |-> entry.Epoch]

\* What partition() returns: fresh entries with consecutive IDs (the random
\* offset of the IDs is dropped).
partition == [i \in 1..NumTasks |-> [ID |-> i, Epoch |-> 0, NumFailure |-> 0]]

----------------------------------------------------------------------------
(* What the handlers do to the queues.                                     *)

\* Faulty variant: the epoch goes down.
NextEntry_Backwards(st) == [Head(st.Todo) EXCEPT !.Epoch = @ - 1]

\* Faulty variant: the epoch stays as it is.
NextEntry_SameEpoch(st) == Head(st.Todo)

\* GetTask: the head of Todo gets a new epoch and becomes pending.
NextEntry(st) == [Head(st.Todo) EXCEPT !.Epoch = @ + 1]

NextMeta(st) == MetaOf(NextEntry(st))

Dispatched(st) ==
    LET t == NextEntry(st)
    IN  [Todo    |-> Tail(st.Todo),
         Pending |-> [st.Pending EXCEPT ![t.ID] = t],
         Done    |-> st.Done,
         Failed  |-> st.Failed,
         CurPass |-> st.CurPass]

\* Faulty variant: the task is not deleted from Pending.
MovedToDone_StaysPending(st, id) ==
    [st EXCEPT !.Done = Append(@, [st.Pending[id] EXCEPT !.NumFailure = 0])]

\* TaskFinished: the pending task moves to Done with its counter reset.
MovedToDone(st, id) ==
    [Todo    |-> st.Todo,
     Pending |-> [st.Pending EXCEPT ![id] = NoEntry],
     Done    |-> Append(st.Done, [st.Pending[id] EXCEPT !.NumFailure = 0]),
     Failed  |-> st.Failed,
     CurPass |-> st.CurPass]

\* TaskFinished: the next pass runs what was done and what was discarded.
NewPass(st) ==
    [Todo    |-> st.Done \o st.Failed,
     Pending |-> st.Pending,
     Done    |-> <<>>,
     Failed  |-> <<>>,
     CurPass |-> st.CurPass + 1]

\* Faulty variant: the pass is over when Todo is empty.
PassOver_IgnoresPending(st) == st.Todo = <<>>

PassOver(st) == st.Todo = <<>> /\ NothingPending(st)

\* Faulty variant: no pass is started.
Finished_NoNewPass(st, id) == MovedToDone(st, id)

Finished(st, id) ==
    IF PassOver(MovedToDone(st, id))
    THEN NewPass(MovedToDone(st, id))
    ELSE MovedToDone(st, id)

\* processFailedTask: the pending task goes back to Todo, or is discarded.
Unfinished(st, id) ==
    LET t == [st.Pending[id] EXCEPT !.NumFailure = @ + 1]
    IN  [Todo    |-> IF t.NumFailure > FailureMax
                     THEN st.Todo ELSE Append(st.Todo, t),
         Pending |-> [st.Pending EXCEPT ![id] = NoEntry],
         Done    |-> st.Done,
         Failed  |-> IF t.NumFailure > FailureMax
                     THEN Append(st.Failed, t) ELSE st.Failed,
         CurPass |-> st.CurPass]

----------------------------------------------------------------------------
(* Saving and recovering.                                                  *)

\* Outcomes of Store.Save: it succeeds; it fails and nothing is written; it
\* fails although the write took effect (the answer of etcd was lost).
SaveOutcomes == IF SaveFaults THEN {"ok", "lost", "applied"} ELSE {"ok"}

snapshot(saved) == store' = IF saved = "lost" THEN store ELSE state'

\* Faulty variant: recover() schedules nothing.
RecoveredTimers_None(st) == {}

\* The timers recover() schedules, one per pending task.
RecoveredTimers(st) ==
    {MetaOf(st.Pending[id]) : id \in {i \in TaskIDs : IsPending(st, i)}}

----------------------------------------------------------------------------
(* The handlers.                                                           *)

\* SetDataset: only the first call that manages to save is honoured.
SetDataset(saved) ==
    /\ up /\ ~ready
    /\ state' = [state EXCEPT !.Todo = partition]
    /\ snapshot(saved)
    /\ ready' = (saved = "ok")
    /\ UNCHANGED <<timers, up, handed>>

\* The error GetTask returns when it hands out no task.
GetTaskError(passID) ==
    CASE passID < state.CurPass -> "ErrPassBefore"
      [] passID > state.CurPass -> "ErrPassAfter"
      [] passID = state.CurPass /\ state.Done = <<>> /\ NothingPending(state)
                                -> "ErrAllTaskFailed"
      [] OTHER                  -> "ErrNoMoreAvailable"

CanDispatch(passID) == passID = state.CurPass /\ state.Todo # <<>>

\* Faulty variant: the error of the save is dropped.
GetTask_DropsError(passID, saved) ==
    /\ up /\ ready
    /\ CanDispatch(passID)
    /\ state' = Dispatched(state)
    /\ snapshot(saved)
    /\ timers' = timers \cup {NextMeta(state)}
    /\ handed' = handed \cup {NextMeta(state)}
    /\ UNCHANGED <<ready, up>>

\* GetTask.  A failed save returns before the timeout check is scheduled.
GetTask(passID, saved) ==
    /\ up /\ ready
    /\ CanDispatch(passID)
    /\ state' = Dispatched(state)
    /\ snapshot(saved)
    /\ \/ /\ saved = "ok"
          /\ timers' = timers \cup {NextMeta(state)}
          /\ handed' = handed \cup {NextMeta(state)}
       \/ /\ saved # "ok"
          /\ UNCHANGED <<timers, handed>>
    /\ UNCHANGED <<ready, up>>

\* TaskFinished.  The caller names the task by its ID alone.
TaskFinished(id, saved) ==
    /\ up /\ ready
    /\ IsPending(state, id)
    /\ state' = Finished(state, id)
    /\ snapshot(saved)
    /\ UNCHANGED <<ready, timers, up, handed>>

\* processFailedTask ignores a report about an earlier dispatch of the task.
processFailedTask(meta, saved) ==
    /\ IsPending(state, meta.ID)
    /\ state.Pending[meta.ID].Epoch = meta.Epoch
    /\ state' = Unfinished(state, meta.ID)
    /\ snapshot(saved)

TaskFailed(meta, saved) ==
    /\ up /\ ready
    /\ processFailedTask(meta, saved)
    /\ UNCHANGED <<ready, timers, up, handed>>

\* The closure made by checkTimeoutFunc: it runs once, and does nothing when
\* the task is no longer pending or is pending under a later epoch.
checkTimeoutFunc(meta, saved) ==
    /\ up
    /\ meta \in timers
    /\ timers' = timers \ {meta}
    /\ \/ processFailedTask(meta, saved)
       \/ /\ ~ (/\ IsPending(state, meta.ID)
                /\ state.Pending[meta.ID].Epoch = meta.Epoch)
          /\ UNCHANGED <<state, store>>
    /\ UNCHANGED <<ready, up, handed>>

----------------------------------------------------------------------------
(* The process.                                                            *)

\* The process dies: everything but the store is gone.
Crash ==
    /\ up
    /\ up' = FALSE
    /\ state' = EmptyState
    /\ ready' = FALSE
    /\ timers' = {}
    /\ UNCHANGED <<store, handed>>

\* A new process runs NewService, which calls recover().
NewService ==
    /\ ~up
    /\ up' = TRUE
    /\ \/ /\ store = NoState
          /\ UNCHANGED <<state, ready, timers>>
       \/ /\ store # NoState
          /\ state' = store
          /\ ready' = TRUE
          /\ timers' = RecoveredTimers(store)
    /\ UNCHANGED <<store, handed>>

Init ==
    /\ state = EmptyState
    /\ ready = FALSE
    /\ timers = {}
    /\ store = NoState
    /\ up = TRUE
    /\ handed = {}

\* The trainers ask for passes 0 .. NumPasses - 1.
Passes == 0..(NumPasses - 1)

Next ==
    \/ \E saved \in SaveOutcomes :
          \/ SetDataset(saved)
          \/ \E passID \in Passes : GetTask(passID, saved)
          \/ \E id \in TaskIDs : TaskFinished(id, saved)
          \/ \E meta \in handed : TaskFailed(meta, saved)
          \/ \E meta \in timers : checkTimeoutFunc(meta, saved)
    \/ Crash
    \/ NewService

Spec == Init /\ [][Next]_vars

----------------------------------------------------------------------------
(* Properties.                                                             *)

\* Queues hold entries of tasks, in memory and in the store (taskQueues).
TypeOK ==
    /\ state \in MasterState
    /\ ready \in BOOLEAN
    /\ timers \subseteq TaskMeta
    /\ store \in MasterState \cup {NoState}
    /\ up \in BOOLEAN
    /\ handed \subseteq TaskMeta

InQueue(q, id) == \E i \in 1..Len(q) : q[i].ID = id

Distinct(q) == \A i, j \in 1..Len(q) : q[i].ID = q[j].ID => i = j

\* Every task is in exactly one place.
Conserved(st) ==
    /\ Distinct(st.Todo) /\ Distinct(st.Done) /\ Distinct(st.Failed)
    /\ \A id \in TaskIDs :
          /\ IsPending(st, id) => st.Pending[id].ID = id
          /\ \/ IsPending(st, id)
             \/ InQueue(st.Todo, id)
             \/ InQueue(st.Done, id)
             \/ InQueue(st.Failed, id)
          /\ IsPending(st, id) => ~ InQueue(st.Todo, id)
          /\ IsPending(st, id) => ~ InQueue(st.Done, id)
          /\ IsPending(st, id) => ~ InQueue(st.Failed, id)
          /\ InQueue(st.Todo, id) => ~ InQueue(st.Done, id)
          /\ InQueue(st.Todo, id) => ~ InQueue(st.Failed, id)
          /\ InQueue(st.Done, id) => ~ InQueue(st.Failed, id)

\* No task is lost and none is duplicated, in the running master and in
\* what the next master will recover, whatever the saves did and whenever
\* the master crashed.
TasksConserved ==
    /\ ready => Conserved(state)
    /\ store # NoState => Conserved(store)

\* No entry is older than dispatch m of the same task.
NoneOlder(q, m) == \A i \in 1..Len(q) : q[i].ID = m.ID => m.Epoch <= q[i].Epoch

NotBehind(st, m) ==
    /\ IsPending(st, m.ID) => m.Epoch <= st.Pending[m.ID].Epoch
    /\ NoneOlder(st.Todo, m) /\ NoneOlder(st.Done, m) /\ NoneOlder(st.Failed, m)

\* What the recovered master will hand out next is newer than everything a
\* trainer ever received, also when saves fail or apply without an answer.
HandedIsDurable ==
    \A m \in handed : /\ store # NoState /\ NotBehind(store, m)
                      /\ ready => NotBehind(state, m)

\* Until the dataset is set and saved the queues of a running master are
\* those of NewService or of a SetDataset whose save failed, and no trainer
\* has received a task.
UnreadyIsFresh ==
    /\ ~ready => /\ NothingPending(state)
                 /\ state.Done = <<>>
                 /\ state.Failed = <<>>
    /\ up /\ ~ready => handed = {}

\* A dispatch (task, epoch) is given to one trainer once and for all: GetTask
\* never answers with a task and epoch it answered before, even after crashes
\* and failed saves.  It is what makes the epoch test of processFailedTask
\* tell an old dispatch from a new one.
HandoutIsFresh ==
    [][\A passID \in Passes : GetTask(passID, "ok") => NextMeta(state) \notin handed]_vars

\* With a reliable store every pending task has a timer that will take it
\* back: no task can stay pending for ever after its trainer is gone (GetTask
\* and recover schedule checkTimeoutFunc).  When the save of GetTask fails it
\* does not hold: the task stays pending and its timer is never made.
PendingIsTimed ==
    \A id \in TaskIDs : IsPending(state, id) => MetaOf(state.Pending[id]) \in timers
=============================================================================
