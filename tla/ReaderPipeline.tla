---------------------------- MODULE ReaderPipeline ----------------------------
(***************************************************************************)
(* py_reader with its double buffer.  A Python thread pushes the batches   *)
(* of a pass into a LoDTensorBlockingQueue and closes it; the one thread   *)
(* of BufferedReader's pool moves batches from the queue into buffer       *)
(* slots; the training thread takes them in the read operator, and calls   *)
(* reset() at the end of a pass, or before it.                             *)
(*                                                                         *)
(* A batch is its pass and its number.  Each action is one critical        *)
(* section of BlockingQueue::mutex_ or a piece of one thread's work; a     *)
(* wait on a condition variable is a guard, every change that can make a   *)
(* predicate true being followed by a notification.  Python steps of the   *)
(* provider need the interpreter lock, which push() releases and reset()   *)
(* keeps.  BufferedReader::mu_ and status_ are left out: only the training *)
(* thread calls ReadNext, Shutdown and Start.                              *)
(***************************************************************************)
EXTENDS Integers, Sequences, SequencesExt

CONSTANTS Capacity,     \* capacity_ of the queue
          BufferSize,   \* buffer_size_, 2 for the double buffer
          PassBatches,  \* batches the provider makes for a pass
          MaxPasses,    \* bound on the passes of the job
          MaxEarly      \* bound on the resets before the end of a pass

ASSUME PipelineAssumption ==
    /\ {Capacity, BufferSize, PassBatches} \subseteq Nat \ {0}
    /\ {MaxPasses, MaxEarly} \subseteq Nat

Slots == 1..BufferSize
Batch == [pass : 1..MaxPasses, n : 1..PassBatches]
NoBatch == [pass |-> 0, n |-> 0]

VARIABLES
    queue,      \* queue_
    closed,     \* closed_
    position,   \* position_: the slot of each read and how it ended
    orphans,    \* slots of the reads in the pool whose futures were dropped
    taken,      \* the batch the pool's thread has received and not stored
    buffer,     \* gpu_buffer_ (cpu_buffer_ without a device)
    prev,       \* prev_pos_, 0 for -1UL
    provider,   \* "over", "python" or inside "push"
    made,       \* batches of this pass the provider has pushed
    exited,     \* reader.exited
    main,       \* the next step of the training thread
    pass,       \* the pass of the training thread
    early,      \* number of early resets
    delivered   \* history: the batches that the read operator returned

queueVars == <<queue, closed>>
bufferVars == <<position, orphans, taken, buffer, prev>>
pythonVars == <<provider, made, exited, main, pass, early, delivered>>
pipelineVars == <<queueVars, bufferVars, pythonVars>>

-----------------------------------------------------------------------------
(* BlockingQueue *)

(* Faulty variant: one element too many fits. *)
Send_OffByOne(b) ==
    /\ Len(queue) <= Capacity \/ closed
    /\ queue' = IF closed THEN queue ELSE Append(queue, b)
    /\ UNCHANGED closed

Send(b) ==
    /\ Len(queue) < Capacity \/ closed
    /\ queue' = IF closed THEN queue ELSE Append(queue, b)
    /\ UNCHANGED closed

(* Faulty variant: Close does not wake a receiver. *)
Receive_Waits(b) ==
    /\ queue # <<>>
    /\ b = Head(queue)
    /\ queue' = Tail(queue)
    /\ UNCHANGED closed

(* Faulty variant: a closed queue gives nothing any more. *)
Receive_ClosedFirst(b) ==
    /\ queue # <<>> \/ closed
    /\ b = IF closed THEN NoBatch ELSE Head(queue)
    /\ queue' = IF closed THEN queue ELSE Tail(queue)
    /\ UNCHANGED closed

(* Faulty variant: the element is not popped. *)
Receive_Keeps(b) ==
    /\ queue # <<>> \/ closed
    /\ b = IF queue = <<>> THEN NoBatch ELSE Head(queue)
    /\ UNCHANGED <<queue, closed>>

(* The batch received, NoBatch when Receive returns false. *)
Receive(b) ==
    /\ queue # <<>> \/ closed
    /\ b = IF queue = <<>> THEN NoBatch ELSE Head(queue)
    /\ queue' = IF queue = <<>> THEN queue ELSE Tail(queue)
    /\ UNCHANGED closed

ReOpen == closed' = FALSE /\ queue' = <<>>

Close == closed' = TRUE /\ UNCHANGED queue

-----------------------------------------------------------------------------
(* BufferedReader's pool of one thread *)

(* The oldest read of position_ in the pool, 0 if there is none. *)
FirstPending == SelectInSeq(position, LAMBDA r : r.out = "pending")

(* The pool runs its tasks in order: those without a future are older, and *)
(* the reads of position_ that are in the pool are its last ones.          *)
PoolTasks ==
    orphans \o (IF FirstPending = 0 THEN <<>>
                ELSE [i \in 1..(Len(position) + 1 - FirstPending) |->
                        position[FirstPending + i - 1].slot])

FinishTask(out) ==
    IF orphans # <<>>
      THEN orphans' = Tail(orphans) /\ UNCHANGED position
      ELSE position' = [position EXCEPT ![FirstPending].out = out] /\ UNCHANGED orphans

(* The read that meets the end of the data clears the tensors of its slot; *)
(* on a device it leaves gpu_buffer_ as it is.                             *)
Emptied(i) == buffer' \in {buffer, [buffer EXCEPT ![i] = NoBatch]}

(* reader_->ReadNext; a closed and empty queue ends the task with -1UL. *)
TaskReceives ==
    /\ PoolTasks # <<>> /\ taken = NoBatch
    /\ Receive(taken')
    /\ IF taken' = NoBatch THEN FinishTask("eof") /\ Emptied(Head(PoolTasks))
                           ELSE UNCHANGED <<position, orphans, buffer>>
    /\ UNCHANGED <<prev, pythonVars>>

TaskStores ==
    /\ taken # NoBatch
    /\ buffer' = [buffer EXCEPT ![Head(PoolTasks)] = taken]
    /\ taken' = NoBatch
    /\ FinishTask("full")
    /\ UNCHANGED <<queueVars, prev, pythonVars>>

-----------------------------------------------------------------------------
(* BufferedReader in the training thread *)

ReadAsync(slots) == [i \in DOMAIN slots |-> [slot |-> slots[i], out |-> "pending"]]

ReadTillBufferFullAsync == ReadAsync([i \in Slots |-> i])

(* ReadNextImpl meets the result of a read that found the end. *)
SkipEnd ==
    /\ main = "reading" /\ position # <<>> /\ Head(position).out = "eof"
    /\ position' = Tail(position)
    /\ UNCHANGED <<queueVars, orphans, taken, buffer, prev, pythonVars>>

(* Faulty variant: the slot just handed out is read into again. *)
Reused_Current(i) == <<i>>

(* The slot that ReadNextImpl hands back to the pool when it returns slot i. *)
Reused(i) == IF prev = 0 THEN <<>> ELSE <<prev>>

ReadNext ==
    /\ main = "reading" /\ position # <<>> /\ Head(position).out = "full"
    /\ LET i == Head(position).slot
       IN /\ delivered' = Append(delivered, buffer[i])
          /\ position' = Tail(position) \o ReadAsync(Reused(i))
          /\ prev' = i
    /\ main' = "training"
    /\ UNCHANGED <<queueVars, orphans, taken, buffer, provider, made, exited, pass, early>>

(* Nothing is left to wait for: the read operator throws EOFException. *)
ReadEnds ==
    /\ main = "reading" /\ position = <<>>
    /\ main' = "shutdown"
    /\ UNCHANGED <<queueVars, bufferVars, provider, made, exited, pass, early, delivered>>

(* ReaderBase::Shutdown: the queue is closed and the futures are dropped, *)
(* not waited for: their tasks stay in the pool.                          *)
Shutdown ==
    /\ main = "shutdown"
    /\ Close
    /\ orphans' = PoolTasks
    /\ position' = <<>>
    /\ prev' = 0
    /\ main' = "start"
    /\ UNCHANGED <<taken, buffer, provider, made, exited, pass, early, delivered>>

Start ==
    /\ main = "start"
    /\ ReOpen
    /\ position' = ReadTillBufferFullAsync
    /\ main' = "exit"
    /\ UNCHANGED <<orphans, taken, buffer, prev, provider, made, exited, pass, early, delivered>>

-----------------------------------------------------------------------------
(* The training thread in Python *)

(* reader.start(): a new provider thread. *)
StartPass ==
    /\ main = "between" /\ pass < MaxPasses
    /\ pass' = pass + 1
    /\ provider' = "python" /\ made' = 0
    /\ main' = "training"
    /\ UNCHANGED <<queueVars, bufferVars, exited, early, delivered>>

RunStep ==
    /\ main = "training"
    /\ main' = "reading"
    /\ UNCHANGED <<queueVars, bufferVars, provider, made, exited, pass, early, delivered>>

(* reader.reset() without waiting for the end of the pass. *)
ResetEarly ==
    /\ main = "training" /\ early < MaxEarly
    /\ early' = early + 1
    /\ main' = "shutdown"
    /\ UNCHANGED <<queueVars, bufferVars, provider, made, exited, pass, delivered>>

SetExited ==
    /\ main = "exit"
    /\ exited' = TRUE
    /\ main' = "join"
    /\ UNCHANGED <<queueVars, bufferVars, provider, made, pass, early, delivered>>

Join ==
    /\ main = "join" /\ provider = "over"
    /\ exited' = FALSE
    /\ main' = "between"
    /\ UNCHANGED <<queueVars, bufferVars, provider, made, pass, early, delivered>>

-----------------------------------------------------------------------------
(* The provider thread.  ResetAll keeps the interpreter lock. *)

HasInterpreter == main # "start"

CallPush ==
    /\ provider = "python" /\ HasInterpreter
    /\ ~exited /\ made < PassBatches
    /\ provider' = "push"
    /\ UNCHANGED <<queueVars, bufferVars, made, exited, main, pass, early, delivered>>

Push ==
    /\ provider = "push"
    /\ Send([pass |-> pass, n |-> made + 1])
    /\ made' = made + 1
    /\ provider' = "python"
    /\ UNCHANGED <<bufferVars, exited, main, pass, early, delivered>>

ProviderEnds ==
    /\ provider = "python" /\ HasInterpreter
    /\ exited \/ made = PassBatches
    /\ Close
    /\ provider' = "over"
    /\ UNCHANGED <<bufferVars, made, exited, main, pass, early, delivered>>

-----------------------------------------------------------------------------
(* The startup program has created the reader; no pass has started. *)
PipelineInit ==
    /\ queue = <<>> /\ closed = FALSE
    /\ position = ReadTillBufferFullAsync
    /\ orphans = <<>> /\ taken = NoBatch
    /\ buffer = [i \in Slots |-> NoBatch]
    /\ prev = 0
    /\ provider = "over" /\ made = 0 /\ exited = FALSE
    /\ main = "between" /\ pass = 0 /\ early = 0
    /\ delivered = <<>>

MainStep == StartPass \/ RunStep \/ SkipEnd \/ ReadNext \/ ReadEnds
                \/ Shutdown \/ Start \/ SetExited \/ Join
ProviderStep == CallPush \/ Push \/ ProviderEnds
PoolStep == TaskReceives \/ TaskStores

PipelineNext == MainStep \/ ProviderStep \/ PoolStep \/ ResetEarly

(* Each of the three threads goes on when it can; nobody has to reset early. *)
PipelineSpec ==
    /\ PipelineInit /\ [][PipelineNext]_pipelineVars
    /\ WF_pipelineVars(MainStep)
    /\ WF_pipelineVars(ProviderStep)
    /\ WF_pipelineVars(PoolStep)

-----------------------------------------------------------------------------
(* Types; also: the queue keeps to its capacity, and no slot waits for two *)
(* reads of the current futures (ReadAsync writes cpu_buffer_[i] unlocked). *)
PipelineTypeOK ==
    /\ queue \in Seq(Batch) /\ Len(queue) <= Capacity
    /\ closed \in BOOLEAN /\ exited \in BOOLEAN
    /\ position \in Seq([slot : Slots, out : {"pending", "full", "eof"}])
    /\ IsInjective([i \in DOMAIN position |-> position[i].slot])
    /\ orphans \in Seq(Slots)
    /\ taken \in Batch \cup {NoBatch}
    /\ buffer \in [Slots -> Batch \cup {NoBatch}]
    /\ prev \in 0..BufferSize
    /\ provider \in {"over", "python", "push"}
    /\ made \in 0..PassBatches /\ pass \in 0..MaxPasses /\ early \in 0..MaxEarly
    /\ main \in {"between", "training", "reading", "shutdown", "start", "exit", "join"}
    /\ delivered \in Seq(Batch)

(* The batch the training step works on is not overwritten before the next *)
(* one was read, also when reads of an earlier pass are still in the pool  *)
(* (the rule about prev_pos_ in BufferedReader::ReadNextImpl).             *)
LatestBatchIntact == prev # 0 => buffer[prev] = Last(delivered)

Older(a, b) == a.pass < b.pass \/ (a.pass = b.pass /\ a.n < b.n)

(* Whatever is reset and when, and whatever an old provider or an old read *)
(* still does, no batch is delivered twice and none after a later one.     *)
NoReplay ==
    \A i, j \in DOMAIN delivered : i < j => Older(delivered[i], delivered[j])

(* The k-th batch of a job whose passes are read to their ends. *)
Planned(k) == [pass |-> ((k - 1) \div PassBatches) + 1,
               n |-> ((k - 1) % PassBatches) + 1]

(* If reset() is only called at the end of a pass, the training thread gets *)
(* every batch of every pass in order, and EOFException only after the last: *)
(* ReOpen loses nothing and the provider's close ends no later pass.         *)
WholePasses ==
    early = 0 =>
        /\ \A k \in DOMAIN delivered : delivered[k] = Planned(k)
        /\ main = "shutdown" => Len(delivered) = pass * PassBatches

(* Then the job also gets through all its passes. *)
PassesEnd == <>(early > 0 \/ (pass = MaxPasses /\ main = "between"))

=============================================================================
