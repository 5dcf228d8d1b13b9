# Paddle: concurrent and fault-tolerant training, specified

This directory holds TLA+ specifications of the parts of Paddle whose
correctness depends on the order in which processes and threads act and on what
survives when they die. Two groups of modules:

- the fault-tolerant cluster of `go/`: the master server that deals out the
  dataset, the trainers that read it, the servers that keep the parameters, and
  the locks, timers, snapshots and checkpoints between them;
- the concurrent core of `paddle/fluid`: the parameter server and the trainers
  of synchronous distributed training, the two parallel executors, the reader
  pipeline, and the allocator below them.

`PROJECT.json` maps each definition to the lines it is translated from.

## The system and its parts

Paddle is a deep learning framework. Most of its source is tensor operators,
device code and Python front ends: sequential numerics, where a test says more
than a model. The logic with shared state is in these parts.

| part | state | operations | what makes it hard | what makes it correct |
|---|---|---|---|---|
| master task queues, `go/master/service.go` | Todo, Pending, Done, Failed, CurPass; `ready`; timers; snapshot in the store | SetDataset, GetTask, TaskFinished, TaskFailed, timeout closures, snapshot, recover | saves that fail, with or without effect; crashes; reports about earlier dispatches | no task lost or doubled; a dispatch is unique; the pass counter counts real passes |
| dataset partitioning, same file | chunks, tasks | readChunks, partition | short last task, empty files, odd flag values | every chunk in exactly one task |
| save-model election, same file | savingTrainer, timers | RequestSaveModel | timers of older requests | one saver at a time, blocks end |
| master client and reader, `go/master/client.go`, `python/paddle/v2/reader/creator.py` | pass, current task, record channel, connection | SetDataset, GetTask, TaskFinished loop; monitorMaster | dropped errors, lost answers, restarts in pass 0 | every pass reads the whole dataset; the job ends |
| parameter initialisation, `go/pserver/client` | etcd lock and done key | Select, InitParam, FinishInitParams, Done, GetParams | leases that expire, trainers that die half-way while their calls run on, errors of etcd, test-then-act in the handlers | initialised once, completely; the key tells the truth |
| parameter server, `go/pserver/service.go` | optMap, `initialized`; checkpoint file; key in etcd | InitParam, FinishInitParams, SendGrad, GetParam, checkpoint, LoadCheckpoint | weights encoded without the mutex; crash or error between two steps of a checkpoint | what was reported saved survives; weights and state agree; the key names a whole file |
| master lock and store, `go/master/etcd_client.go` | lock, lease, state key | Save, Load, re-lock | two masters | one writer |
| connections, `go/connection/conn.go` | client, wait list | Connect, Close, Call | reconnecting | calls get through once the peer is up |
| pserver registration, `go/pserver/etcd_client.go` | index keys with leases | Register, ps_desired | restart under another index | one server per index |
| fluid RPC server and listen_and_serv, `paddle/fluid/operators/distributed`, `distributed_ops` | barrier counters, client_num_, cur_cond_, received variables | SetCond, WaitCond, WaitBarrier, IncreaseBatchBarrier, Complete, RunSyncLoop; send, recv, barrier, prefetch and checkpoint_notify operators | trainers that leave during a phase, gradients parsed before the gate, few threads | rounds do not mix, parameters are not read while they are written, nobody waits for ever |
| fluid graph executors, `paddle/fluid/framework/details` | pending counts, ready and complete queues, exception, local scopes | Run of the threaded and the fast executor, exceptions, dropping scopes | pool threads that end together, exceptions while others run, the next run after one that threw | each operator once, after its inputs; no operator outlives its scope; runs end |
| fluid reader pipeline, `paddle/fluid/operators/reader`, `python/paddle/fluid/layers/io.py` | bounded queue, futures, buffer slots, provider thread | Send, Receive, Close, ReOpen, ReadNext, Shutdown, Start, start(), reset() | waiters across Close and ReOpen, reads whose futures were dropped | passes are whole, nothing is replayed or overwritten in use |
| fluid memory, `paddle/fluid/memory/detail` | descriptors, pool, counters | Alloc, Free, split, merge, RefillPool, CleanIdleNormalAlloc | links across several merges, sizes at the edge of a split, wrapping counters | blocks tile their chunk, holders are disjoint, the pool is the free blocks |
| fluid file readers, same directory | thread pools, monitors | MultiFileReader, CTRReader | status flags read before they are set | every file once |

How they interact: trainers call the master and the parameter servers by RPC;
the master and the servers keep what must survive in etcd (and, for a
checkpoint, in a file); timers call back into the master under its mutex;
Kubernetes restarts dead processes, which start from what etcd holds, a
trainer from pass 0. In fluid, a trainer's executor runs a graph whose reader
operator takes batches from the pipeline and whose send, barrier and receive
operators call the parameter server; the server's RPC threads and its loop
share the counters and the scope under one mutex; tensors come from the
allocator.

`PROJECT.json` lists all components, including those left out, and the hazards
with their lines.

## Modules

**MasterService** is the master. Every handler holds `Service.mu`, so a handler
is one action, including its trailing `snapshot()`. The save has three
outcomes: it works, it fails without effect, it fails after taking effect (an
etcd answer was lost); GetTask's and SetDataset's early returns on error are
kept, as is the fact that memory is not rolled back. Entries carry ID, epoch
and failure counter; the chunks of a task are identified with its ID. Closures
made by `checkTimeoutFunc` are a set of (ID, epoch) and may run at any time.
`Crash` loses everything but the store, `NewService` recovers and schedules a
timer per pending task. Callers are unconstrained: TaskFinished may name any
task, TaskFailed any dispatch ever made. `handed` is a history variable.
GetTask calls that return an error, and reports that the handlers ignore, change nothing and are stutters.

**TaskPool** is the abstract specification of the master: a status and a
failure count per task and a pass number, no queues, epochs, timers, snapshots
or crashes. **MasterRefinement** gives the mapping: the pool is read off the
snapshot, which a handler writes before it answers. The pool promises what the
code keeps, and that is not what the design says. `cluster_train/README.md:59`
discards a task that fails too often, and `:60` starts a pass by "moving all
tasks in the done queue to todo queue and reset the timeout counter of all tasks
to zero". TaskFinished (`service.go:438`) appends the discarded tasks to the new
Todo as they are, so FinishPass brings them back with their counters, and their
first failure in the new pass discards them again.

**TrainingJob** composes the master with the trainers' loop: set the dataset
(result ignored), then for each pass GetTask, read, TaskFinished. The answer of GetTask
travels and is lost when the master dies first. A trainer leaves its pass
on ErrPassBefore, ErrNoMoreAvailable and ErrAllTaskFailed, and retries on
everything else. Trainers die and restart in pass 0. The histories `reads`
and `discards` count what really happened to the data. The trainers never
call TaskFailed, just as `client.go` does not.

**TaskPartition** is `readChunks` and `partition` as functions. The assumption
`PartitionCorrect` compares them with a direct definition for every dataset of
up to 4 files of up to 3 chunks and seven values of the flag; TLC evaluates it
whenever it runs **MCMaster**, which extends MasterRefinement and this module.

**SaveModelElection** is RequestSaveModel with time in ticks. A closure may run later than its tick. The
history `promise` counts down the block each approved trainer was
promised, `again` records that a trainer asked while it was saving.

**ParameterInit** has several trainers initialising several servers. Select is
two steps (lock, transaction), and so are the handlers InitParam and
FinishInitParams, which test the channel before they take the mutex or close
it. Trainers die and restart; a handler that runs for a dead trainer goes on, and
a request on its way is handled or not (`orphans`), while the lock stays with the
dead session (`Gone`) until its lease ends. That lease outlasts the orphaned
calls unless an expiry is spent on it: LoseLease is every expiry that comes too
early, under a live trainer or under such a call. Etcd may return errors: Select
then panics; Done's transaction fails with or without effect and the lock stays;
Unlock fails with or without effect. A second close of the channel kills the
server: its memory is lost, calls in progress and later ones on the old
connection fail, and the new process is empty or has loaded a checkpoint. Which
checkpoint it is says ParameterServer; here it is any earlier number of updates.

**ParameterServer** is one server. The checkpoint goroutine is stepped: copy
the states under the mutex, encode the weights one parameter at a time
without it, write the file, remove the old one, put the key; each step can
fail or be the last one before a crash, in the middle of writing the file too
(`Partial`). A parameter is two counters, the
updates in its weights and in its optimizer state. Every optimizer's
DeserializeState overwrites the weights with those in the state
(`paddle/legacy/optimizer/*_optimizer.cc`), so `Loaded` takes both from the state.
The trainer looks at no result: its calls are lost while the server is down, and
are not repeated. Until the done key is set another trainer may be selected and
begin again (Reselect). `safe`, `torn` and `left` are histories.

**SyncTraining** is synchronous training in fluid: `RunSyncLoop` on the server,
with the barriers and gates of `RPCServer`, its request handlers, and trainers
that send gradients, send a batch barrier, fetch parameters, send a fetch
barrier, and may read tables (prefetch) or ask for a checkpoint in between.
Each action is one critical section of `RPCServer::mutex_` or one piece of
work outside of it. A gradient is written into the receive scope when its
request is parsed, before the handler waits for the send phase; a waiting
handler keeps one of `rpc_send_thread_num` threads. A gradient is the number
of its round, the parameters are the number of rounds optimised. `Close`
is `Executor::Close`, between any two batches. `departure` is a history.

**DagRun** is what a run of an executor promises, **GraphExecutor** the two
executors of ParallelExecutor inside `ScopeBufferedSSAGraphExecutor`, run several times,
also after a run that threw. In the threaded executor the calling thread pops
variables and hands ready operators to the pool; in the fast one a pool task
runs an operator, counts its dependents down one atomic decrement at a time and
goes on with the first that is ready. `phase` says where an operator is, and
the refinement of DagRun is read off it. **MCGraphExecutor** names the graphs.

**ReaderPipeline** is `py_reader` with its double buffer: the provider thread of
a pass, the blocking queue, the one thread of BufferedReader's pool, and the
training thread with `start()`, the read operator and `reset()`. Reads whose
futures `ShutdownImpl` dropped stay in the pool as `orphans`. Python steps of the provider need
the interpreter lock, which `push` releases and `reset` keeps. The buffer has two
slots in `create_double_buffer_reader_op.cc`. With a single one a pass would end
after one batch: `ReadNextImpl` keeps the slot it returned until its next call,
and that call finds `position_` empty. A read that meets the end of the data
empties its slot, or, on a device, only the slot of cpu_buffer_ behind it;
Emptied is either.

**BuddyAllocator** is the allocator with one action per outcome of Alloc
(a huge block, an existing block, a new chunk) and of Free. Splitting and
merging are functions on the descriptors, as in `memory_block.cc`, and the
counters wrap. `Idle` is CleanIdleNormalAlloc. If the system has no
memory, or a huge allocation fails, Alloc returns nullptr or throws and changes
nothing. MaxChunk is a constant: on a device without chunks RefillPool calls
GpuMaxChunkSize again, which computes the same number from the flag and the
device, or throws.

Definitions named `X_Something` and commented "Faulty variant" are plausible
mistakes in the code `X` models. No specification uses them; replacing `X` by
one makes TLC report the property it is paired with in `PROJECT.json`.

## Runs

Those expected to pass:

| run | question | bounds |
|---|---|---|
| master_reliable | does the master implement TaskPool, and has every pending task a timer, when saves do not fail; is partition right? | 2 tasks, passes 0 and 1, FailureMax 1, any number of crashes |
| job_faulty | with failed saves, crashes, deaths and late timeouts: is a task lost, doubled or issued twice, does the pass counter run ahead of the data read? | 2 trainers, 2 tasks, 2 passes, two faults out of a master crash, a death, a late timeout; saves fail freely |
| job_reliable | do trainers run away from the master, do tasks stay pending, does a calm job end? | same, saves do not fail, fair |
| election | one saver at a time if nobody asks twice; every block ends | 3 trainers, durations 0 to 3, 3 live timers |
| init_faulty | is the done key ever wrong; does anything overwrite or doubly close a server while leases hold; does a calm job get initialised? | 3 trainers, 2 servers, one death, one expiry, one error of etcd |
| server_faulty | does a completed checkpoint survive; is a recovered parameter coherent; does the key name a whole file; do files pile up? | 2 parameters, one update each, 3 checkpoints, 2 crashes, 2 trainers, errors everywhere |
| sync | do rounds mix, is a parameter read while it is optimised, what is left of a trainer that left, does training end? | 3 trainers, one dense and one sparse gradient, 3 batches, one send thread |
| executors | do both executors implement DagRun, is an operator ever queued or running without scopes, is the right exception thrown, does every run end? | 3 operators in 6 graphs, optional fetch of a fed or a computed variable, 2 threads, 3 runs, 2 exceptions, scopes dropped every second run |
| py_reader | is a batch lost, replayed or overwritten in use; do passes end? | queue of 2, buffer of 2, 4 batches, 3 passes, 2 early resets |
| buddy | do links, pool, holders and counters stay consistent under every sequence of Alloc and Free? | 3 regions, chunks of 13 bytes, requests that leave a rest, an unsplittable rest, or are huge; counters modulo 128 |

Why these bounds are enough to be interesting: two tasks are the fewest for
which one can be pending while another is queued, and for which a pass can end
in either order; two passes let a report of the first pass arrive in the
second; FailureMax 1 makes both retry and discard happen. In master_reliable
the trainers ask for passes 0 and 1, so the counter itself reaches 2. Two servers
let a trainer die between two of them. Three checkpoints let one fail after
the previous file was removed and another be made after that; one update is enough
for weights and state to differ in a file. Three trainers let one leave while another is at a
barrier and the third still computes, and a single send thread is the hardest case
for the gate. Three operators allow a chain, a fork, a join of two outputs of
one operator and two operators that end together. Four batches do not fit into
queue and buffer minus the slot in use, so the provider blocks. A chunk of 13 with requests for
4, 8 and 13 bytes (descriptor included, aligned to 4) has splits with and without a
rest, a rest of exactly one descriptor that is not split off, three blocks to merge
in every order, and a request above the chunk that is huge.
Deadlock checking is off where the job, the bounded
faults or the input really end.

Those that show a disagreement between the code and what the repository says
of it:

| run | statement | what happens |
|---|---|---|
| job_stall | "The training job will continue to make progress if there is at least one training process running" (`doc/v2/design/cluster_train/README.md:99`) | A trainer dies with a pending task. GetTask answers ErrNoMoreAvailable to the others, which go on to the next pass; when the timer returns the task nobody asks for that pass. |
| sync_stall | "Wait util all the clients have reached the barrier for one rpc method" (`rpc_server.h:82`) | A trainer completes after the counters were reset and before the phase changes. Complete takes a fetch barrier back that the reset had already removed, the counter is -1, and the next get barrier, which compares with `==`, is one short for ever. |

### Known counterexamples without a run of their own

Each is reproduced by putting the property named into the cfg in place of its
properties.

| property | cfg | what happens |
|---|---|---|
| OneSaver | Election.cfg | The timer of the first of two requests of one trainer clears the block of the second (`master/client.py` promises the block for `block_ms`). |
| NewPassResetsFailures | MasterReliable.cfg | A discarded task enters the next pass with its failure counter (`cluster_train/README.md:60` resets the counters of all tasks; `service.go:438` appends Failed to Todo as it is). |
| JobInitializes | InitFaulty.cfg | FinishInitParams stops at the first server that is already initialised: after a death half-way the others are never told, Done is never called, the lock stays held (`pserver_client.md` has a restarted trainer restart the initialisation). An error of Done's transaction has the same effect without a death: the trainer goes on with the lock, and all others wait in Select. |
| KeyCoversEveryServer | InitFaulty.cfg | A lease expires under a trainer that is inside FinishInitParams. A second one is selected and goes through FinishInitParams; behind it the first closes a channel a second time, and that server's process panics and comes back empty. The second trainer reaches Done and sets the key. |
| ServesEverything | ServerFaulty.cfg | The server restarts between two InitParam calls; the trainer goes on, and FinishInitParams declares it initialised with a parameter missing. |
| CheckpointLoadable | ServerFaulty.cfg | The old file is removed before the new key is put; a crash in between leaves a key for a missing file and every restart panics (`checkpointing.md` puts the key first). NamedFileLoads says that this is the only gap. |
| RunReturns | GraphExecutor.cfg | The fast executor never starts the fetch of a variable that no operator generates; the threaded one does not count an operator down that raised, so delayed operators wait for ever in later runs. RunEnds excludes exactly these two. |
| UsedIsUsed | BuddyAllocator.cfg | A split whose rest has no room for a descriptor is not made; Alloc counted the size asked for, Free takes the block's back, and total_used_ drifts and wraps below zero. |

Others have no property of their own. A master crash
that makes a trainer's TaskFinished fail stalls the job as the death of a
trainer does; so does a pass whose last pending task is discarded, because only
TaskFinished looks for the end of a pass; this is why CalmJobCompletes excludes
crashes and discards. If the master is down when every trainer calls
SetDataset, no dataset is set. If a lease expires under a trainer that is
initialising, or under a call that outlived its trainer, a second trainer
initialises too: a channel may be closed twice or parameters replaced that
already took gradients; NoDoubleClose and UpdatesKept
are therefore stated for `expiries = 0`. DoneIsTrue holds with expired leases, and
leaves out the servers that panicked, as KeyCoversEveryServer shows it has to. A recovered server does not start the
checkpoint goroutine (FinishInitParams does, and refuses to run there), so it
never saves again.
PendingIsTimed is false when the save in GetTask fails: the task is pending and
the function returns before it makes the timer. In SyncTraining the dense
gradients of a trainer that left in a get phase stay in the receive scope and
are merged in every later round, because ResetBarrierCounter clears
need_reset_all_vars_ first: DepartedForgotten excludes these two steps of the
loop by name. LockStep and FreshMerge need a dense gradient: a trainer whose
gradients are all sparse and without rows sends nothing, so its batch barrier
arrives while others still fetch. In GraphExecutor a fast executor that has thrown once may throw the old
exception again, hence the condition in HonestThrow. In ReaderPipeline an
early `reset()` may never return: the queue is open again before `exited` is
set, the provider fills it and blocks in `push`, and `join` waits for it; or an
orphaned read takes the first batch of the new pass, so that the pass is
short. PassesEnd and WholePasses are stated for jobs without an early reset.

## Fairness

- TrainingJob: weak fairness of each trainer's loop and restart, of the timer of
  each task, and of the master's restart. The loop is sequential code whose calls
  return or are retried, `time.AfterFunc` fires, and the cluster manager restarts
  containers. Crashes, deaths and late timeouts are never forced.
- SaveModelElection: time passes (Tick) and a due closure gets the mutex,
  which no handler keeps.
- ParameterInit: live trainers step, dead ones are restarted, handlers of
  orphaned calls run on, and the leases of the dead end. Weak
  fairness of Select is enough: each trainer takes the lock once per life, so a
  lock that is not kept for ever is in the end free for whoever still waits.
  SendGrad, Die, LoseLease and errors of etcd are not forced.
- ParameterServer has safety properties only, and no fairness.
- SyncTraining: the server's loop, each trainer and the handlers of its requests
  are threads that go on when they can; a condition variable is notified under
  the mutex by every change that can free a waiter. A trainer that is out of
  data closes its executor; that a trainer with data left may close as well is a
  choice and never forced early, `Close` being only weakly fair.
- GraphExecutor: the calling thread and the pool go on. Beginning a run and
  raising are never forced.
- ReaderPipeline: each of the three threads goes on; early resets are never forced.

## Proofs

Each component has its theorems in a module of its own, `XProofs` for module
`X`; those of MasterService and TrainingJob share TrainingJobProofs, the second
resting on the first. They hold for every value of the constants that satisfies the assumption
named in the component's module (numbers are naturals, sets are finite where
they are counted, the markers for "absent" are not values); what a theorem
assumes beyond that is said below. Every module is built in the same way: an
inductive invariant as a conjunction of named parts, lemmas on the operators of
the model, one lemma per action or group of actions, and one temporal step
per theorem.

| module | theorem | states | extra assumption |
|---|---|---|---|
| TrainingJobProofs | TypeCorrect | TypeOK | |
| | TasksNeverLost | TasksConserved | |
| | DurableHandout | HandedIsDurable | |
| | FreshHandout | HandoutIsFresh (action property) | |
| | NoOrphanedTask | PendingIsTimed | the store does not fail |
| | MasterImplementsPool | ImplementsTaskPool, of the master | the store does not fail |
| | JobImplementsPool | ImplementsTaskPool, of the whole job | the store does not fail |
| | JobIsMaster | a job is a behaviour of MasterService | |
| | JobTypeCorrect | JobTypeOK | |
| | EveryPassIsFull | FullPass | |
| | NeverTwoAhead | OnePassAhead | the store does not fail |
| SaveModelElectionProofs | ElectionTypeCorrect | ElectionTypeOK | |
| | OneSaverAtATime | OneSaverAskedOnce | |
| ParameterInitProofs | InitTypeCorrect | InitTypeOK | |
| | DoneKeyIsTrue | DoneIsTrue | |
| | ChannelsClosedOnce | NoDoubleClose | |
| | NoUpdateOverwritten | UpdatesKept (action property) | |
| ParameterServerProofs | ServerTypeCorrect | ServerTypeOK | |
| | CheckpointsKept | SafeUpdatesKept | |
| | CoherentParameters | Coherent | |
| | KeyNamesWholeFile | NamedFileLoads | |
| | DiskHoldsNoStray | NoStrayFiles | |
| SyncTrainingProofs | SyncTypeCorrect | SyncTypeOK | there is a dense gradient |
| | MergesTheRound | FreshMerge | there is a dense gradient |
| | RunsInLockStep | LockStep | there is a dense gradient |
| | DepartedAreForgotten | DepartedForgotten | there is a dense gradient |
| GraphExecutorProofs | ExecTypeCorrect | ExecTypeOK | |
| | ScopesKept | ScopesOutliveOps | |
| | HonestException | HonestThrow | |
| | ExecutorsImplementDagRun | ImplementsDagRun | |
| ReaderPipelineProofs | PipelineTypeCorrect | PipelineTypeOK | |
| | CurrentBatchKept | LatestBatchIntact | |
| | NothingReplayed | NoReplay | |
| | PassesAreWhole | WholePasses | at least two buffer slots |
| BuddyAllocatorProofs | ChunksTiled | BlocksTile | |
| | PoolExact | PoolIsFreeBlocks | |
| | HoldersApart | HoldersDisjoint | |
| | SearchIsBestFit | BestFit | |
| | CountersAddUp | MemoryAccounted | |
| | BuddyTypeCorrect | BuddyTypeOK | |

The arguments:

**TrainingJobProofs, the master.** `MasterInv == TypeOK /\ TasksConserved /\
HandedIsDurable /\ UnreadyIsFresh`. TasksConserved speaks of the store as well
as of memory because NewService copies one into the other. HandedIsDurable is
what makes FreshHandout inductive: a new epoch is larger than that of the entry
in Todo, so it is enough that no entry, in memory or in the store, is behind a
dispatch made before. It survives failed saves because GetTask records a
dispatch only after a successful one. UnreadyIsFresh is needed for SetDataset,
which sets only Todo: the other queues must be empty at that point, and nobody
may hold an old dispatch of the tasks that start again at epoch 0.

**TrainingJobProofs, the job.** The refinement reads the pool off the store, while
handlers work on memory; `SavedIsCurrent` says that the two agree while the
master is ready, which needs a store that does not fail. Then every state transformer
(dispatch, finish, unfinish, next pass, set) is shown to be a step of TaskPool
on the entry of its task and to leave the others alone. For the job,
`JobInv == MasterInv /\ JobTypeOK /\ TrainersKnown /\ PassesBounded /\ AllPaid`.
AllPaid is what makes FullPass inductive. A task owes one read or discard per
pass the counter has passed, and one more once it is in Done or Failed, in memory
and in the store alike, as a recovery may go back to the latter. TaskFinished
names a task by its ID alone, so the report of an old dispatch can end a new
one; AllPaid therefore asks for a surplus, one read for every trainer that has
read the task and not yet reported it. TrainersKnown says that what a trainer
holds was handed out, PassesBounded that the counter stays within NumPasses.
OnePassAhead uses SavedIsCurrent: a trainer moves on when the master has told
it that its pass is over, or has nothing left in it.

**SaveModelElectionProofs.** Until a trainer asks again while it saves, either nobody
saves, no timer runs and no promise is open, or exactly one timer runs and it
outlasts the promise made to savingTrainer. So a closure never clears the block of another trainer.

**ParameterInitProofs.** LoopsDone says how far each loop over the servers has come, in
terms of the servers that have not panicked: behind the loop of InitParam everything is
stored, behind that of FinishInitParams everything is initialised; OrphansStored says
the same of the calls of dead trainers. DoneIsTrue follows
even when leases expire, as only a panic takes a server back, and then it counts
as panicked. The other two are about the gap between test
and act: while no lease has expired too early, whoever initialises holds the lock
(InitialiserHoldsLock), a call at work for a dead trainer keeps it from everyone
(LockOutlastsOrphans), and what a handler has seen of the channel is still true
(CheckIsCurrent), so no server panics.

**ParameterServerProofs.** A checkpoint in progress is a chain: copied states
are not ahead of memory, what is encoded and then the file agree with the
copy, the copy is not behind the last complete checkpoint. SafeOnDisk and
SafeInMemory carry the last complete checkpoint across crashes. NamedFileLoads
needs that the file of a checkpoint is whole before its name is put into the key
(KeyIsWritten) and that every checkpoint has a new name, so that neither a file
half written nor an old one removed is the one the key names, but for the gap
`torn` records; NoStrayFiles follows each file from WriteFile to the key, to
os.Remove, or to `left`.

**SyncTrainingProofs.** `SyncInv` ties each trainer's place in its batch to the
phase of the server (Places), the barrier counters to the numbers of trainers
at those places (Counters: exact for the send barrier; the get barrier may only be
too low, which is how sync_stall arises), rounds to the version (RoundOf), and
the receive scope to what was sent and by whom (Unanswered, Received,
Departed). The heart is the counting: a barrier that is met with `==` means
that every active trainer is at it, also when trainers leave in the same phase.

**GraphExecutorProofs.** `ExecInv` has two parts for both executors and
a group for each. Wrapped: a run has its scopes, and between runs, when they may be dropped, no
operator is queued or running, only about to push. Caught: something was raised exactly when an operator
failed, and what the holder has is the first of it, EnforceNotMet before
EOFException, unless the fast executor has thrown before; Run drains only
after an exception. From these HonestThrow and ScopesOutliveOps follow.
*Threaded*: a variable is pending and not ready exactly while its generator is not
over, an operator's count is the number of its pending inputs, and it leaves
"pending" when that reaches zero. So pendingVars is empty only when every operator
is over: each generates a variable, a leaf a dummy one (`AddOutputToLeafOps`).
RunningCounted bounds running_ops_ by the operators of all runs, since it keeps those that raised.
*Fast*: an operator's count is the number of inputs whose generator has
not ended or has yet to hand them over (Missing), so a notification takes off
exactly one; the operator a task goes on with is ready and no other task has it
(NextInv); remaining is the number of tasks (FastShape), hence
FastThrow finds none at work. That a return finds all operators ended is a
counting argument: num_complete adds up numbers that tasks carried from operator to
operator, so Credited labels each ended operator with the task that carries it or
with the entry of the queue that reports it. The labels make num_complete at most
the number of operators reported and popped, each counted once; when it equals the
size of the graph, all have ended. Each step is then Begin, Start, Finish, Return or
Throw of DagRun, or changes nothing there: Start for StartOp and GoOn, whose
operator has no pending or missing input, Finish for the end of Run or an exception.

**ReaderPipelineProofs.** SlotInv: ended reads come first, no two reads share
a slot and none uses the slot in use; while a read without a future is in the
pool, no read with one has ended, because the pool has one thread. OrderInv
orders all batches on their way, delivered, stored, in the thread's hands and queued, and
bounds them by what was pushed; an early reset only drops some. WholeInv, for jobs without
an early reset, says which batch is at each place, by its number in the job's plan, and that the
end is met only when the provider has closed the queue and nothing is on its way.

**BuddyAllocatorProofs.** `Consistent(d, p, l)` is stated for any descriptors,
pool and holders, since Free composes up to three updates: blocks do not
overlap, stay in their region, and are linked to the block that starts where they end; the pool is the set of free
blocks; no two free blocks are neighbours, except, half-way through Free,
at the block being freed. Each of Split, Merge, refill and removal keeps it. Accounted
adds that total_used_ and total_free_ together are the chunks' bytes modulo the
width of size_t; it is proved with congruences, since each counter may wrap.

Only model-checked:

- all liveness properties and everything under fairness, as ENABLED and fairness
  are out of the prover's reach;
- the partition algorithm: what a recursive definition computes for every input
  needs induction over data, which these provers do not do. No module uses
  RECURSIVE.

The type invariants JobTypeOK, ElectionTypeOK, InitTypeOK, ServerTypeOK and
BuddyTypeOK are in no run; they are proved.

## Not modelled

- Numerics (operators, optimizers, the text format of serialised weights, which
  keeps few digits), device drivers, program construction in Python, inference,
  and the legacy C++ parameter server. They are most of the source: sequential
  arithmetic on tensors that has nothing for a model checker to explore. This is
  why the modules cover a small share of the repository's lines.
- `go/`: a chunk that cannot be opened, a scan that fails, and the record
  channel between getRecords and Python; connections (`conn.go`: Close does not
  reset the client) and the monitors of the master's and the servers' addresses;
  registration of servers. The size limit of an etcd request and decoding errors of a
  snapshot. A second master: Save's re-lock is folded into its outcomes.
- fluid RPC: RunAsyncLoop, which has no barriers; ShutDown, which sets exit_flag_
  without the mutex and ends the process; monomer variables; RPC errors, which are LOG(FATAL);
  BRPC, which implements the same interface.
- Executors: a fetch of a variable that is not in the graph, which throws before
  any operator is started; the wait for device streams, gradient-accumulation passes, and the
  construction of the graph.
- Readers: speed_test_mode, destructors, the file and CTR readers.
- Allocator: the fallback memory (only reached for index 1 of a device, which
  `GPUAllocator::Alloc` never returns), the guard words of descriptors, the
  limits of the system allocators and a change of max_chunk_size_.

## Plan

Done: the modules above.

Every invariant, action property and refinement that a run checks is proved; new
modules come with their proofs.

Next modules: two masters with lock, lease and re-lock; connections with the
monitors; registration of servers; the record channel; the file readers.
