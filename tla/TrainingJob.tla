---------------------------- MODULE TrainingJob ----------------------------
(***************************************************************************)
(* A training job: the master server and the trainers that read records    *)
(* through its client (go/master/client.go, cloud_reader of                *)
(* python/paddle/v2/reader/creator.py).                                    *)
(*                                                                         *)
(* A trainer sets the dataset once, then for each pass loops: GetTask,     *)
(* read the records of the task, TaskFinished.  A call is one step of the  *)
(* master and of the caller, except that the answer of GetTask travels and *)
(* is lost when the master dies first.  A call the master does not answer  *)
(* returns an error: SetDataset's and TaskFinished's errors are dropped,   *)
(* GetTask is called again.  A trainer that is disconnected after a crash  *)
(* only takes local steps, so its failing calls may be placed before the   *)
(* new master starts.                                                      *)
(***************************************************************************)
EXTENDS MasterService, FiniteSets

CONSTANTS
    Trainers,    \* the trainer processes
    MaxCrashes,  \* bound: crashes of the master
    MaxDeaths,   \* bound: deaths of trainers
    MaxLate,     \* bound: timeouts of tasks a live trainer still works on
    MaxFaults,   \* bound: all of these together
    NoTask       \* the trainer holds no task

ASSUME JobAssumption ==
    /\ IsFiniteSet(Trainers)
    /\ NumPasses # 0   \* range(num_passes): a trainer without a pass asks for nothing
    /\ MaxCrashes \in Nat /\ MaxDeaths \in Nat
    /\ MaxLate \in Nat /\ MaxFaults \in Nat

VARIABLES
    pc,        \* pc[t]: where trainer t is in its loop
    pass,      \* pass[t]: the passID trainer t asks for
    task,      \* task[t]: the dispatch trainer t received or is sent
    crashes, deaths, late,  \* faults so far
    reads,     \* history: reads[id] counts complete reads of a task
    discards   \* history: discards[id] counts how often it was discarded

trainerVars == <<pc, pass, task>>
faultVars == <<crashes, deaths, late>>
jobVars == <<vars, trainerVars, faultVars, reads, discards>>

Capped(n) == IF n > NumPasses THEN NumPasses ELSE n

MayFail == crashes + deaths + late < MaxFaults

Goto(t, label) == pc' = [pc EXCEPT ![t] = label]

----------------------------------------------------------------------------
(* The loop of a trainer.                                                  *)

\* cloud_reader: set_dataset, its result is not looked at.
SetDatasetCall(t, saved) ==
    /\ pc[t] = "set"
    /\ \/ SetDataset(saved)
       \/ up /\ ready /\ UNCHANGED vars
    /\ Goto(t, "get")
    /\ UNCHANGED <<pass, task, faultVars, reads, discards>>

\* getRecords: the master hands out a task, the answer is on its way.
GetTaskCall(t) ==
    /\ pc[t] = "get"
    /\ GetTask(pass[t], "ok")
    /\ Goto(t, "reply")
    /\ task' = [task EXCEPT ![t] = NextMeta(state)]
    /\ UNCHANGED <<pass, faultVars, reads, discards>>

\* getRecords: the snapshot failed, the trainer will ask again.
GetTaskCallFails(t, saved) ==
    /\ pc[t] = "get"
    /\ saved # "ok"
    /\ GetTask(pass[t], saved)
    /\ UNCHANGED <<trainerVars, faultVars, reads, discards>>

\* Faulty variant: a trainer that is ahead of the master goes on, too.
EndsPass_PassAfter == {"ErrPassBefore", "ErrPassAfter", "ErrNoMoreAvailable", "ErrAllTaskFailed"}

\* getRecords: these errors end the pass of this trainer; ErrPassAfter makes
\* it wait and ask again, which changes nothing.
EndsPass == {"ErrPassBefore", "ErrNoMoreAvailable", "ErrAllTaskFailed"}

EndOfPass(t) ==
    /\ pc[t] = "get"
    /\ up /\ ready
    /\ ~ CanDispatch(pass[t])
    /\ GetTaskError(pass[t]) \in EndsPass
    /\ pass' = [pass EXCEPT ![t] = @ + 1]
    /\ Goto(t, IF pass[t] + 1 = NumPasses THEN "end" ELSE "get")
    /\ UNCHANGED <<vars, task, faultVars, reads, discards>>

ReceiveTask(t) ==
    /\ pc[t] = "reply"
    /\ Goto(t, "work")
    /\ UNCHANGED <<vars, pass, task, faultVars, reads, discards>>

\* getRecords: the last record of the task was read.
ReadRecords(t) ==
    /\ pc[t] = "work"
    /\ Goto(t, "fin")
    /\ reads' = [reads EXCEPT ![task[t].ID] = Capped(@ + 1)]
    /\ UNCHANGED <<vars, pass, task, faultVars, discards>>

\* getRecords: the task is reported by its ID; the answer is not looked at.
TaskFinishedCall(t, saved) ==
    /\ pc[t] = "fin"
    /\ \/ TaskFinished(task[t].ID, saved)
       \/ up /\ ready /\ ~ IsPending(state, task[t].ID) /\ UNCHANGED vars
    /\ Goto(t, "get")
    /\ task' = [task EXCEPT ![t] = NoTask]
    /\ UNCHANGED <<pass, faultVars, reads, discards>>

\* The connection is broken: SetDataset and TaskFinished give up.
CallFails(t) ==
    /\ ~ up
    /\ pc[t] \in {"set", "fin"}
    /\ Goto(t, "get")
    /\ task' = [task EXCEPT ![t] = NoTask]
    /\ UNCHANGED <<vars, pass, faultVars, reads, discards>>

----------------------------------------------------------------------------
(* Timers, crashes, deaths.                                                *)

Discarded(id) == InQueue(state'.Failed, id) /\ ~ InQueue(state.Failed, id)

\* A timer fires.  MaxLate bounds how often it does so on a live trainer.
Expire(meta, saved) ==
    /\ checkTimeoutFunc(meta, saved)
    /\ \/ /\ \A t \in Trainers : task[t] # meta
          /\ UNCHANGED late
       \/ /\ \E t \in Trainers : task[t] = meta
          /\ MayFail /\ late < MaxLate
          /\ late' = late + 1
    /\ discards' = [id \in TaskIDs |-> IF Discarded(id) THEN Capped(discards[id] + 1)
                                                        ELSE discards[id]]
    /\ UNCHANGED <<trainerVars, crashes, deaths, reads>>

\* The master dies: an answer that has not arrived is lost, the call returns
\* an error.
MasterCrash ==
    /\ MayFail /\ crashes < MaxCrashes
    /\ crashes' = crashes + 1
    /\ Crash
    /\ pc' = [t \in Trainers |-> IF pc[t] = "reply" THEN "get" ELSE pc[t]]
    /\ task' = [t \in Trainers |-> IF pc[t] = "reply" THEN NoTask ELSE task[t]]
    /\ UNCHANGED <<pass, deaths, late, reads, discards>>

MasterRestart ==
    /\ NewService
    /\ UNCHANGED <<trainerVars, faultVars, reads, discards>>

Die(t) ==
    /\ MayFail /\ deaths < MaxDeaths
    /\ deaths' = deaths + 1
    /\ pc[t] \notin {"dead", "end"}
    /\ Goto(t, "dead")
    /\ task' = [task EXCEPT ![t] = NoTask]
    /\ UNCHANGED <<vars, pass, crashes, late, reads, discards>>

\* Kubernetes starts a new process: pass_num starts again at 0.
Restart(t) ==
    /\ pc[t] = "dead"
    /\ Goto(t, "set")
    /\ pass' = [pass EXCEPT ![t] = 0]
    /\ UNCHANGED <<vars, task, faultVars, reads, discards>>

----------------------------------------------------------------------------
JobInit ==
    /\ Init
    /\ pc = [t \in Trainers |-> "set"]
    /\ pass = [t \in Trainers |-> 0]
    /\ task = [t \in Trainers |-> NoTask]
    /\ crashes = 0 /\ deaths = 0 /\ late = 0
    /\ reads = [id \in TaskIDs |-> 0]
    /\ discards = [id \in TaskIDs |-> 0]

\* One iteration of trainer t's loop.
Loop(t) ==
    \/ \E saved \in SaveOutcomes : \/ SetDatasetCall(t, saved)
                                   \/ GetTaskCallFails(t, saved)
                                   \/ TaskFinishedCall(t, saved)
    \/ GetTaskCall(t)
    \/ EndOfPass(t)
    \/ ReceiveTask(t)
    \/ ReadRecords(t)
    \/ CallFails(t)

ExpireTask(id) ==
    \E meta \in timers, saved \in SaveOutcomes : meta.ID = id /\ Expire(meta, saved)

JobNext ==
    \/ \E t \in Trainers : Loop(t) \/ Die(t) \/ Restart(t)
    \/ \E id \in TaskIDs : ExpireTask(id)
    \/ MasterCrash
    \/ MasterRestart

JobSpec == JobInit /\ [][JobNext]_jobVars

\* Trainers that live go on, calls are answered, timers fire, processes that
\* Kubernetes restarts are restarted.
JobFairness ==
    /\ \A t \in Trainers : WF_jobVars(Loop(t)) /\ WF_jobVars(Restart(t))
    /\ \A id \in TaskIDs : WF_jobVars(ExpireTask(id))
    /\ WF_jobVars(MasterRestart)

FairJobSpec == JobSpec /\ JobFairness

----------------------------------------------------------------------------
(* Properties.                                                             *)

\* Types of the trainers, what they hold and what is on its way to them.
JobTypeOK ==
    /\ TypeOK
    /\ pc \in [Trainers -> {"set", "get", "reply", "work", "fin", "end", "dead"}]
    /\ pass \in [Trainers -> 0..NumPasses]
    /\ task \in [Trainers -> TaskMeta \cup {NoTask}]
    /\ crashes \in 0..MaxCrashes /\ deaths \in 0..MaxDeaths /\ late \in 0..MaxLate
    /\ reads \in [TaskIDs -> 0..NumPasses] /\ discards \in [TaskIDs -> 0..NumPasses]

\* What a pass owes to task id in the queues st: one read or one discard for
\* every pass completed, one more when the task is already done in this one.
Owed(st, id) == st.CurPass + (IF InQueue(st.Done, id) THEN 1 ELSE 0)

\* The job goes through the whole dataset in every pass: the pass counter
\* never runs ahead of the data really read, although TaskFinished accepts
\* reports about any earlier dispatch of a task, whatever the saves and the
\* crashes did in between.
FullPass ==
    /\ ready => \A id \in TaskIDs : reads[id] + discards[id] >= Owed(state, id)
    /\ store # NoState => \A id \in TaskIDs : reads[id] + discards[id] >= Owed(store, id)

\* A trainer is at most one pass ahead of the pass the master would recover:
\* with a reliable store ErrPassAfter only means that the others still work.
OnePassAhead ==
    \A t \in Trainers : pass[t] <= 1 + (IF store = NoState THEN 0 ELSE store.CurPass)

\* A task does not stay pending for ever: its trainer finishes it or its timer
\* takes it back, also when the trainer or the master died.
PendingIsTemporary ==
    \A id \in TaskIDs :
        (store # NoState /\ IsPending(store, id)) ~> (store # NoState /\ ~ IsPending(store, id))

\* The job makes progress until all its passes are completed.
JobCompletes == <>(store # NoState /\ store.CurPass = NumPasses)

\* It does so when the master does not crash, no trainer dies and no task is
\* discarded: a timeout that beats a live trainer and the late report that
\* follows it do not stop the job.
CalmJobCompletes ==
    \/ <>(crashes > 0 \/ deaths > 0 \/ \E id \in TaskIDs : discards[id] > 0)
    \/ JobCompletes
=============================================================================
