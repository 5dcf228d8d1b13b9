------------------------- MODULE ReaderPipelineProofs -------------------------
(***************************************************************************)
(* Proofs about ReaderPipeline: what the training step works on is not     *)
(* overwritten, nothing is replayed, and passes are whole.                 *)
(***************************************************************************)
EXTENDS ReaderPipeline, TLAPS, WellFoundedInduction

-----------------------------------------------------------------------------
(* The inductive invariant. *)

Read == [slot : Slots, out : {"pending", "full", "eof"}]

(* The types of what the buffered reader keeps, and of the rest. *)
BufferTypes ==
    /\ position \in Seq(Read) /\ orphans \in Seq(Slots)
    /\ taken \in Batch \cup {NoBatch}
    /\ buffer \in [Slots -> Batch \cup {NoBatch}]
    /\ prev \in 0..BufferSize
    /\ delivered \in Seq(Batch)

ThreadTypes ==
    /\ queue \in Seq(Batch) /\ Len(queue) <= Capacity
    /\ closed \in BOOLEAN /\ exited \in BOOLEAN
    /\ provider \in {"over", "python", "push"}
    /\ made \in 0..PassBatches /\ pass \in 0..MaxPasses /\ early \in 0..MaxEarly
    /\ main \in {"between", "training", "reading", "shutdown", "start", "exit", "join"}

Pending(i) == position[i].out = "pending"

(* The reads that have ended are the first ones, as the pool has one thread. *)
PendingLast == \A i, j \in DOMAIN position : i < j /\ Pending(i) => Pending(j)

(* No two reads go into one slot, and none into the slot in use. *)
SlotsApart ==
    /\ \A i, j \in DOMAIN position : position[i].slot = position[j].slot => i = j
    /\ \A i \in DOMAIN position : position[i].slot # prev

(* While a read without a future is in the pool no read with one has ended. *)
OrphansFirst == orphans # <<>> => prev = 0 /\ \A i \in DOMAIN position : Pending(i)

(* The batch in the pool's hands is that of a task. *)
TakenForTask == taken # NoBatch => orphans # <<>> \/ \E i \in DOMAIN position : Pending(i)

FullHasBatch == \A i \in DOMAIN position : position[i].out = "full" => buffer[position[i].slot] \in Batch

ThreadsKnown ==
    /\ main = "start" => prev = 0 /\ position = <<>>
    /\ main = "between" => provider = "over"
    /\ main # "between" => pass > 0
    /\ provider = "push" => made < PassBatches

LatestKept == prev # 0 => delivered # <<>> /\ buffer[prev] = delivered[Len(delivered)]

BufferInv ==
    /\ BufferTypes /\ PendingLast /\ SlotsApart /\ OrphansFirst /\ TakenForTask
    /\ FullHasBatch /\ LatestKept

SlotInv == BufferInv /\ ThreadTypes /\ ThreadsKnown

(* The batches on their way, from the training thread back to the provider. *)
Delivered(b) == \E i \in DOMAIN delivered : b = delivered[i]
Stored(b) == \E i \in DOMAIN position : position[i].out = "full" /\ b = buffer[position[i].slot]
Taken(b) == taken # NoBatch /\ b = taken
Queued(b) == \E i \in DOMAIN queue : b = queue[i]

Pushed(b) == b.pass < pass \/ (b.pass = pass /\ b.n <= made)

Ordered(s) == \A i, j \in DOMAIN s : i < j => Older(s[i], s[j])

StoredInOrder ==
    \A i, j \in DOMAIN position :
        i < j /\ position[i].out = "full" /\ position[j].out = "full"
            => Older(buffer[position[i].slot], buffer[position[j].slot])

OrderInv ==
    /\ Ordered(delivered) /\ StoredInOrder /\ Ordered(queue)
    /\ \A a, b \in Batch :
         /\ Delivered(a) /\ (Stored(b) \/ Taken(b) \/ Queued(b)) => Older(a, b)
         /\ Stored(a) /\ (Taken(b) \/ Queued(b)) => Older(a, b)
         /\ Taken(a) /\ Queued(b) => Older(a, b)
    /\ \A b \in Batch : Delivered(b) \/ Stored(b) \/ Taken(b) \/ Queued(b) => Pushed(b)

(* Without early resets: how many batches were pushed so far, ... *)
Made == IF pass = 0 THEN 0 ELSE (pass - 1) * PassBatches + made

(* ... where they are, f of them in the buffer, ... *)
InHand == IF taken = NoBatch THEN 0 ELSE 1

Places(f) ==
    /\ \A j \in DOMAIN position : j <= f <=> position[j].out = "full"
    /\ \A j \in 1..f : buffer[position[j].slot] = Planned(Len(delivered) + j)
    /\ taken # NoBatch => taken = Planned(Len(delivered) + f + 1)
    /\ \A q \in DOMAIN queue : queue[q] = Planned(Len(delivered) + f + InHand + q)
    /\ Len(delivered) + f + InHand + Len(queue) = Made

(* ... and when the end may be met. *)
Drained == closed /\ queue = <<>> /\ taken = NoBatch

Reads == Len(position) + (IF prev = 0 THEN 0 ELSE 1)

Ends ==
    /\ closed => provider = "over" /\ made = PassBatches
    /\ exited => main = "join"
    /\ (\E j \in DOMAIN position : position[j].out = "eof") => Drained
    /\ main \in {"training", "reading"} => Reads = BufferSize \/ Drained
    /\ main \in {"shutdown", "start"} => position = <<>> /\ Drained
    /\ main \in {"exit", "join", "between"} =>
         /\ ~closed /\ queue = <<>> /\ prev = 0 /\ Len(position) = BufferSize /\ taken = NoBatch
         /\ \A j \in DOMAIN position : Pending(j)
         /\ provider = "over" /\ (pass > 0 => made = PassBatches)

InPlan == \A k \in DOMAIN delivered : delivered[k] = Planned(k)

Whole == orphans = <<>> /\ InPlan /\ (\E f \in 0..Len(position) : Places(f)) /\ Ends

WholeInv == early = 0 => Whole

-----------------------------------------------------------------------------
(* Sequences. *)

LEMMA TailOf ==
    ASSUME NEW S, NEW s \in Seq(S), s # <<>>
    PROVE  /\ Tail(s) \in Seq(S) /\ Len(s) \in Nat /\ Len(s) >= 1 /\ DOMAIN s = 1..Len(s)
           /\ Len(Tail(s)) = Len(s) - 1 /\ DOMAIN Tail(s) = 1..(Len(s) - 1)
           /\ \A i \in 1..(Len(s) - 1) : Tail(s)[i] = s[i + 1]
           /\ Head(s) = s[1] /\ s[1] \in S
OBVIOUS

LEMMA AppendTo ==
    ASSUME NEW S, NEW s \in Seq(S), NEW e \in S
    PROVE  /\ Append(s, e) \in Seq(S) /\ Len(s) \in Nat /\ DOMAIN s = 1..Len(s)
           /\ Len(Append(s, e)) = Len(s) + 1 /\ DOMAIN Append(s, e) = 1..(Len(s) + 1)
           /\ \A i \in 1..Len(s) : Append(s, e)[i] = s[i]
           /\ Append(s, e)[Len(s) + 1] = e
OBVIOUS

LEMMA ConcatOne ==
    ASSUME NEW S, NEW s \in Seq(S), NEW e \in S
    PROVE  /\ s \o <<e>> \in Seq(S) /\ Len(s) \in Nat /\ DOMAIN s = 1..Len(s)
           /\ Len(s \o <<e>>) = Len(s) + 1 /\ DOMAIN (s \o <<e>>) = 1..(Len(s) + 1)
           /\ \A i \in 1..Len(s) : (s \o <<e>>)[i] = s[i]
           /\ (s \o <<e>>)[Len(s) + 1] = e
           /\ s \o <<>> = s
OBVIOUS

LEMMA Smallest ==
    ASSUME NEW T, T \subseteq Nat, T # {}
    PROVE  Min(T) \in T /\ \A y \in T : Min(T) <= y
<1> DEFINE R == OpToRel(<, Nat)
<1>1. IsWellFoundedOn(R, Nat)
  BY NatLessThanWellFounded
<1>2. \A x, y \in Nat : <<y, x>> \in R <=> y < x
  BY DEF OpToRel
<1> HIDE DEF R
<1>3. PICK x \in T : \A y \in T : ~ (<<y, x>> \in R)
  BY <1>1, WFMin
<1>4. ASSUME NEW y \in T PROVE x <= y
  <2>1. x \in Nat /\ y \in Nat
    OBVIOUS
  <2>2. ~ (y < x)
    BY <1>2, <1>3, <2>1
  <2> QED
    BY <2>1, <2>2
<1> QED
  BY <1>4 DEF Min

-----------------------------------------------------------------------------
(* The pool's tasks. *)

LEMMA FirstOfPending ==
    ASSUME position \in Seq(Read)
    PROVE  /\ FirstPending = 0 => \A i \in DOMAIN position : ~ Pending(i)
           /\ FirstPending # 0 => /\ FirstPending \in DOMAIN position /\ Pending(FirstPending)
                                  /\ \A j \in DOMAIN position : j < FirstPending => ~ Pending(j)
<1> DEFINE I == {i \in 1..Len(position) : position[i].out = "pending"}
<1>1. FirstPending = IF I # {} THEN Min(I) ELSE 0
  BY DEF FirstPending, SelectInSeq
<1>2. I \subseteq Nat /\ I \subseteq DOMAIN position /\ DOMAIN position = 1..Len(position) /\ Len(position) \in Nat
  OBVIOUS
<1>3. I # {} => Min(I) \in I /\ \A y \in I : Min(I) <= y
  BY <1>2, Smallest
<1>4. \A i \in DOMAIN position : i \in I <=> Pending(i)
  BY <1>2 DEF Pending
<1> HIDE DEF I
<1>5. CASE I = {}
  BY <1>1, <1>4, <1>5
<1>6. CASE I # {}
  <2>1. FirstPending \in I /\ \A y \in I : FirstPending <= y
    BY <1>1, <1>3, <1>6
  <2>2. ASSUME NEW j \in DOMAIN position, j < FirstPending PROVE ~ Pending(j)
    BY <1>2, <1>4, <2>1, <2>2
  <2> QED
    BY <1>2, <1>4, <2>1, <2>2
<1> QED
  BY <1>5, <1>6

LEMMA TasksOf ==
    ASSUME position \in Seq(Read), orphans \in Seq(Slots)
    PROVE  /\ PoolTasks \in Seq(Slots)
           /\ orphans # <<>> => PoolTasks # <<>> /\ Head(PoolTasks) = Head(orphans)
           /\ orphans = <<>> => (PoolTasks # <<>> <=> FirstPending # 0)
           /\ orphans = <<>> /\ FirstPending # 0 => Head(PoolTasks) = position[FirstPending].slot
<1> DEFINE k == FirstPending
           n == Len(position) + 1 - k
           rest == [i \in 1..n |-> position[k + i - 1].slot]
<1>1. CASE k = 0
  BY <1>1 DEF PoolTasks
<1>2. CASE k # 0
  <2>1. k \in 1..Len(position) /\ Len(position) \in Nat
    BY <1>2, FirstOfPending
  <2>2. PoolTasks = orphans \o rest
    BY <1>2 DEF PoolTasks
  <2> HIDE DEF k
  <2>3. n \in Nat \ {0}
    BY <2>1
  <2>4. \A i \in 1..n : k + i - 1 \in 1..Len(position)
    BY <2>1
  <2>5. \A i \in 1..n : position[k + i - 1].slot \in Slots
    <3> SUFFICES ASSUME NEW i \in 1..n PROVE position[k + i - 1].slot \in Slots
      OBVIOUS
    <3>1. position[k + i - 1] \in Read
      BY <2>4
    <3> QED
      BY <3>1 DEF Read
  <2>6. rest \in Seq(Slots) /\ rest # <<>> /\ rest[1] = position[k].slot
    <3> HIDE DEF n
    <3>1. rest \in [1..n -> Slots]
      BY <2>5
    <3>2. rest \in Seq(Slots) /\ Len(rest) = n
      BY <2>3, <3>1
    <3>3. 1 \in 1..n /\ k + 1 - 1 = k
      BY <2>1, <2>3
    <3> QED
      BY <2>3, <3>2, <3>3
  <2> HIDE DEF rest
  <2>7. orphans # <<>> => PoolTasks # <<>> /\ Head(PoolTasks) = Head(orphans)
    BY <2>2, <2>6
  <2>8. orphans = <<>> => PoolTasks # <<>> /\ Head(PoolTasks) = position[k].slot
    BY <2>2, <2>6
  <2> QED
    BY <1>2, <2>2, <2>6, <2>7, <2>8 DEF k
<1> QED
  BY <1>1, <1>2

LEMMA Numbers ==
    /\ Capacity \in Nat \ {0} /\ BufferSize \in Nat \ {0} /\ PassBatches \in Nat \ {0}
    /\ MaxPasses \in Nat /\ MaxEarly \in Nat
    /\ NoBatch \notin Batch /\ Slots = 1..BufferSize /\ 0 \notin Slots
<1>1. NoBatch.pass = 0 /\ \A b \in Batch : b.pass # 0
  BY DEF NoBatch, Batch
<1> QED
  BY <1>1, PipelineAssumption DEF Slots

(* A task ends: one without a future, or the oldest read of position_. *)
FinishesOrphan ==
    /\ orphans # <<>> /\ orphans' = Tail(orphans) /\ position' = position

FinishesRead(k, out) ==
    /\ orphans = <<>> /\ orphans' = <<>>
    /\ k \in DOMAIN position /\ Pending(k) /\ \A j \in DOMAIN position : j < k => ~ Pending(j)
    /\ position' \in Seq(Read) /\ Len(position') = Len(position)
    /\ DOMAIN position' = DOMAIN position
    /\ position'[k].slot = position[k].slot /\ position'[k].out = out
    /\ \A j \in DOMAIN position \ {k} : position'[j] = position[j]

LEMMA FinishIs ==
    ASSUME BufferTypes, PoolTasks # <<>>, NEW out \in {"full", "eof"}, FinishTask(out)
    PROVE  \/ FinishesOrphan /\ Head(PoolTasks) = Head(orphans)
           \/ \E k \in DOMAIN position : FinishesRead(k, out) /\ Head(PoolTasks) = position[k].slot
<1>0. position \in Seq(Read) /\ orphans \in Seq(Slots)
  BY DEF BufferTypes
<1>1. CASE orphans # <<>>
  BY <1>0, <1>1, TasksOf DEF FinishTask, FinishesOrphan
<1>2. CASE orphans = <<>>
  <2> DEFINE k == FirstPending
  <2>1. k # 0 /\ Head(PoolTasks) = position[k].slot
    BY <1>0, <1>2, TasksOf
  <2>2. k \in DOMAIN position /\ Pending(k) /\ \A j \in DOMAIN position : j < k => ~ Pending(j)
    BY <1>0, <2>1, FirstOfPending
  <2>3. position' = [position EXCEPT ![k].out = out] /\ orphans' = <<>>
    BY <1>2 DEF FinishTask
  <2> HIDE DEF k
  <2>4. position[k] \in Read
    BY <1>0, <2>2
  <2> DEFINE r == [position[k] EXCEPT !.out = out]
  <2>5. r \in Read /\ r.slot = position[k].slot /\ r.out = out
    BY <2>4 DEF Read
  <2>6. position' = [position EXCEPT ![k] = r]
    BY <2>3
  <2> HIDE DEF r
  <2>7. /\ position' \in Seq(Read) /\ Len(position') = Len(position)
        /\ DOMAIN position' = DOMAIN position /\ position'[k] = r
        /\ \A j \in DOMAIN position \ {k} : position'[j] = position[j]
    BY <1>0, <2>2, <2>5, <2>6
  <2>8. FinishesRead(k, out)
    BY <1>2, <2>2, <2>3, <2>5, <2>7 DEF FinishesRead
  <2> QED
    BY <2>1, <2>2, <2>8
<1> QED
  BY <1>1, <1>2

-----------------------------------------------------------------------------
(* Each step keeps the buffer in order. *)

LEMMA BufferQuiet ==
    ASSUME BufferInv, UNCHANGED <<bufferVars, delivered>>
    PROVE  BufferInv'
BY DEF BufferInv, BufferTypes, bufferVars, PendingLast, SlotsApart, OrphansFirst, TakenForTask,
       FullHasBatch, LatestKept, Pending

(* The slot a read empties holds no batch that is stored or in use. *)
LEMMA EmptiesUnused ==
    ASSUME BufferInv, PoolTasks # <<>>, FinishTask("eof"), Emptied(Head(PoolTasks))
    PROVE  /\ buffer' \in [Slots -> Batch \cup {NoBatch}]
           /\ \A i \in DOMAIN position : position[i].out = "full"
                    => buffer'[position[i].slot] = buffer[position[i].slot]
           /\ prev # 0 => buffer'[prev] = buffer[prev]
<1> USE DEF Pending
<1> DEFINE h == Head(PoolTasks)
<1>1. /\ BufferTypes /\ position \in Seq(Read) /\ orphans \in Seq(Slots)
      /\ buffer \in [Slots -> Batch \cup {NoBatch}] /\ prev \in Slots \cup {0}
  BY Numbers DEF BufferInv, BufferTypes
<1>2. PoolTasks \in Seq(Slots)
  BY <1>1, TasksOf
<1>3. h \in Slots
  BY <1>2, TailOf
<1>4. buffer' = buffer \/ buffer' = [buffer EXCEPT ![h] = NoBatch]
  BY DEF Emptied
<1>5. \/ orphans # <<>>
      \/ \E k \in DOMAIN position : Pending(k) /\ h = position[k].slot
  BY <1>1, FinishIs DEF FinishesOrphan, FinishesRead
<1> HIDE DEF h
<1>6. CASE orphans # <<>>
  <2>1. prev = 0 /\ \A i \in DOMAIN position : position[i].out # "full"
    BY <1>6 DEF BufferInv, OrphansFirst
  <2> QED
    BY <1>1, <1>3, <1>4, <2>1
<1>7. ASSUME NEW k \in DOMAIN position, Pending(k), h = position[k].slot
      PROVE  /\ \A i \in DOMAIN position : position[i].out = "full"
                    => buffer'[position[i].slot] = buffer[position[i].slot]
             /\ prev # 0 => buffer'[prev] = buffer[prev]
  <2>1. \A i \in DOMAIN position : position[i] \in Read
    BY <1>1
  <2>2. \A i \in DOMAIN position : position[i].slot \in Slots
    BY <2>1 DEF Read
  <2>3. prev # h /\ \A i \in DOMAIN position \ {k} : position[i].slot # h
    BY <1>7 DEF BufferInv, SlotsApart
  <2> QED
    BY <1>1, <1>3, <1>4, <1>7, <2>2, <2>3
<1> QED
  BY <1>1, <1>3, <1>4, <1>5, <1>6, <1>7

LEMMA BufferReceives ==
    ASSUME SlotInv, TaskReceives
    PROVE  BufferInv'
<1> USE DEF Pending
<1>1. /\ BufferInv /\ BufferTypes /\ queue \in Seq(Batch)
      /\ PoolTasks # <<>> /\ taken = NoBatch /\ UNCHANGED <<prev, delivered>>
  BY DEF SlotInv, BufferInv, ThreadTypes, TaskReceives, pythonVars
<1>2. CASE taken' # NoBatch
  <2>1. taken' \in Batch /\ position' = position /\ orphans' = orphans /\ buffer' = buffer
    BY <1>1, <1>2, TailOf DEF TaskReceives, Receive
  <2>2. orphans # <<>> \/ \E i \in DOMAIN position : Pending(i)
    <3>1. position \in Seq(Read) /\ orphans \in Seq(Slots)
      BY <1>1 DEF BufferTypes
    <3>2. CASE orphans = <<>>
      <4>1. FirstPending # 0
        BY <1>1, <3>1, <3>2, TasksOf
      <4> QED
        BY <3>1, <4>1, FirstOfPending
    <3> QED
      BY <3>2
  <2> QED
    BY <1>1, <2>1, <2>2 DEF BufferInv, BufferTypes, PendingLast, SlotsApart, OrphansFirst,
                            TakenForTask, FullHasBatch, LatestKept
<1>3. CASE taken' = NoBatch
  <2>1. FinishTask("eof") /\ Emptied(Head(PoolTasks))
    BY <1>3 DEF TaskReceives
  <2>0. /\ buffer' \in [Slots -> Batch \cup {NoBatch}]
        /\ \A i \in DOMAIN position : position[i].out = "full"
                 => buffer'[position[i].slot] = buffer[position[i].slot]
        /\ prev # 0 => buffer'[prev] = buffer[prev]
    BY <1>1, <2>1, EmptiesUnused
  <2>2. CASE FinishesOrphan
    BY <1>1, <1>3, <2>0, <2>2, TailOf
       DEF FinishesOrphan, BufferInv, BufferTypes, PendingLast, SlotsApart, OrphansFirst,
           TakenForTask, FullHasBatch, LatestKept
  <2>3. ASSUME NEW k \in DOMAIN position, FinishesRead(k, "eof") PROVE BufferInv'
    <3> USE <2>3 DEF FinishesRead
    <3>0. position \in Seq(Read) /\ DOMAIN position = 1..Len(position) /\ Len(position) \in Nat
      BY <1>1 DEF BufferTypes
    <3>1. BufferTypes'
      BY <1>1, <1>3, <2>0 DEF BufferTypes
    <3>2. PendingLast'
      BY <1>1, <3>0 DEF BufferInv, PendingLast
    <3>3. SlotsApart'
      <4>1. \A j \in DOMAIN position : position'[j].slot = position[j].slot
        OBVIOUS
      <4> QED
        BY <1>1, <4>1 DEF BufferInv, SlotsApart
    <3>4. OrphansFirst' /\ TakenForTask'
      BY <1>3 DEF OrphansFirst, TakenForTask
    <3>5. FullHasBatch'
      BY <1>1, <2>0 DEF BufferInv, FullHasBatch
    <3>6. LatestKept'
      BY <1>1, <2>0 DEF BufferInv, LatestKept
    <3> QED
      BY <3>1, <3>2, <3>3, <3>4, <3>5, <3>6 DEF BufferInv
  <2> QED
    BY <1>1, <2>1, <2>2, <2>3, FinishIs
<1> QED
  BY <1>2, <1>3

LEMMA BufferStores ==
    ASSUME SlotInv, TaskStores
    PROVE  BufferInv'
<1> USE DEF Pending
<1> DEFINE h == Head(PoolTasks)
<1>1. /\ BufferInv /\ BufferTypes /\ taken \in Batch /\ taken # NoBatch /\ taken' = NoBatch
      /\ buffer' = [buffer EXCEPT ![h] = taken]
      /\ FinishTask("full") /\ UNCHANGED <<prev, delivered>>
  BY DEF SlotInv, BufferInv, BufferTypes, TaskStores, pythonVars
<1>2. PoolTasks # <<>> /\ h \in Slots
  <2>1. position \in Seq(Read) /\ orphans \in Seq(Slots)
    BY <1>1 DEF BufferTypes
  <2>2. orphans = <<>> => FirstPending # 0
    BY <1>1, <2>1, FirstOfPending DEF BufferInv, TakenForTask
  <2>3. PoolTasks # <<>> /\ PoolTasks \in Seq(Slots)
    BY <2>1, <2>2, TasksOf
  <2> QED
    BY <2>3, TailOf
<1> HIDE DEF h
<1>3. /\ buffer' \in [Slots -> Batch \cup {NoBatch}] /\ buffer'[h] = taken
      /\ \A x \in Slots \ {h} : buffer'[x] = buffer[x]
  BY <1>1, <1>2 DEF BufferTypes
<1>4. CASE FinishesOrphan
  <2> USE <1>4 DEF FinishesOrphan
  <2>1. prev = 0 /\ \A i \in DOMAIN position : Pending(i)
    BY <1>1 DEF BufferInv, OrphansFirst
  <2>2. BufferTypes'
    BY <1>1, <1>3, TailOf DEF BufferTypes
  <2> QED
    BY <1>1, <2>1, <2>2 DEF BufferInv, PendingLast, SlotsApart, OrphansFirst, TakenForTask,
                            FullHasBatch, LatestKept
<1>5. ASSUME NEW k \in DOMAIN position, FinishesRead(k, "full"), h = position[k].slot PROVE BufferInv'
  <2> USE <1>5 DEF FinishesRead
  <2>0. position \in Seq(Read) /\ DOMAIN position = 1..Len(position) /\ Len(position) \in Nat
    BY <1>1 DEF BufferTypes
  <2>1. BufferTypes'
    BY <1>1, <1>3 DEF BufferTypes
  <2>2. PendingLast'
    BY <1>1, <2>0 DEF BufferInv, PendingLast
  <2>3. \A j \in DOMAIN position : position'[j].slot = position[j].slot /\ position[j].slot \in Slots
    <3>1. \A j \in DOMAIN position : position[j] \in Read
      BY <2>0
    <3>2. \A j \in DOMAIN position : position'[j].slot = position[j].slot
      OBVIOUS
    <3> QED
      BY <3>1, <3>2 DEF Read
  <2>4. \A j \in DOMAIN position \ {k} : position[j].slot # h
    BY <1>1 DEF BufferInv, SlotsApart
  <2>5. SlotsApart'
    BY <1>1, <2>3 DEF BufferInv, SlotsApart
  <2>6. OrphansFirst' /\ TakenForTask'
    BY <1>1 DEF OrphansFirst, TakenForTask
  <2>7. FullHasBatch'
    <3> SUFFICES ASSUME NEW j \in DOMAIN position, position'[j].out = "full"
                 PROVE  buffer'[position'[j].slot] \in Batch
      BY DEF FullHasBatch
    <3>1. CASE j = k
      BY <1>1, <1>3, <3>1, <2>3
    <3>2. CASE j # k
      <4>1. position[j].out = "full" /\ position[j].slot \in Slots \ {h}
        BY <2>3, <2>4, <3>2
      <4> QED
        BY <1>1, <1>3, <4>1, <2>3 DEF BufferInv, FullHasBatch
    <3> QED
      BY <3>1, <3>2
  <2>8. LatestKept'
    <3>1. prev # h
      BY <1>1 DEF BufferInv, SlotsApart
    <3>2. prev # 0 => prev \in Slots
      BY <1>1, Numbers DEF BufferTypes
    <3> QED
      BY <1>1, <1>3, <3>1, <3>2 DEF BufferInv, LatestKept
  <2> QED
    BY <2>1, <2>2, <2>5, <2>6, <2>7, <2>8 DEF BufferInv
<1> QED
  BY <1>1, <1>2, <1>4, <1>5, FinishIs DEF h

(* The head of position_ is dropped. *)
LEMMA BufferSkips ==
    ASSUME BufferInv, position # <<>>, ~ Pending(1), position' = Tail(position),
           UNCHANGED <<orphans, taken, buffer, prev, delivered>>
    PROVE  BufferInv'
<1> USE DEF Pending
<1>1. /\ position \in Seq(Read) /\ Len(position) \in Nat /\ DOMAIN position = 1..Len(position)
      /\ position' \in Seq(Read) /\ DOMAIN position' = 1..(Len(position) - 1)
      /\ \A i \in 1..(Len(position) - 1) : position'[i] = position[i + 1]
      /\ Len(position) >= 1
  BY TailOf DEF BufferInv, BufferTypes
<1>2. BufferTypes'
  BY <1>1 DEF BufferInv, BufferTypes
<1>3. \A i \in DOMAIN position' : i + 1 \in DOMAIN position /\ position'[i] = position[i + 1]
  BY <1>1
<1>4. PendingLast'
  <2> SUFFICES ASSUME NEW i \in DOMAIN position', NEW j \in DOMAIN position', i < j, Pending(i)'
               PROVE  Pending(j)'
    BY DEF PendingLast
  <2>1. i + 1 < j + 1 /\ Pending(i + 1)
    BY <1>1, <1>3
  <2>2. Pending(j + 1)
    BY <1>3, <2>1 DEF BufferInv, PendingLast
  <2> QED
    BY <1>3, <2>2
<1>5. SlotsApart'
  <2>1. ASSUME NEW i \in DOMAIN position', NEW j \in DOMAIN position',
               position'[i].slot = position'[j].slot
        PROVE  i = j
    <3>1. i + 1 = j + 1
      BY <1>3, <2>1 DEF BufferInv, SlotsApart
    <3> QED
      BY <1>1, <3>1
  <2>2. \A i \in DOMAIN position' : position'[i].slot # prev
    BY <1>3 DEF BufferInv, SlotsApart
  <2> QED
    BY <2>1, <2>2 DEF SlotsApart
<1>6. 1 \in DOMAIN position
  BY <1>1
<1>7. OrphansFirst'
  BY <1>6 DEF BufferInv, OrphansFirst
<1>8. TakenForTask'
  <2>1. ASSUME NEW i \in DOMAIN position, Pending(i)
        PROVE  \E j \in DOMAIN position' : Pending(j)'
    <3>1. i # 1
      BY <2>1
    <3>2. i - 1 \in DOMAIN position' /\ position'[i - 1] = position[(i - 1) + 1] /\ (i - 1) + 1 = i
      BY <1>1, <3>1
    <3> QED
      BY <2>1, <3>2
  <2> QED
    BY <2>1 DEF BufferInv, TakenForTask
<1>9. FullHasBatch'
  BY <1>3 DEF BufferInv, FullHasBatch
<1>10. LatestKept'
  BY DEF BufferInv, LatestKept
<1> QED
  BY <1>2, <1>4, <1>5, <1>7, <1>8, <1>9, <1>10 DEF BufferInv

(* The effect of ReadNext on position_, whether or not a slot is reused. *)
LEMMA ReadNextIs ==
    ASSUME BufferInv, ReadNext
    PROVE  /\ position # <<>> /\ position[1].out = "full" /\ prev' = position[1].slot
           /\ position[1].slot \in Slots /\ buffer[position[1].slot] \in Batch
           /\ delivered' = Append(delivered, buffer[position[1].slot])
           /\ \/ prev = 0 /\ position' = Tail(position)
              \/ prev # 0 /\ position' = Tail(position) \o <<[slot |-> prev, out |-> "pending"]>>
           /\ UNCHANGED <<orphans, taken, buffer, queue, closed>>
<1>1. /\ position # <<>> /\ Head(position).out = "full" /\ prev' = Head(position).slot
      /\ delivered' = Append(delivered, buffer[Head(position).slot])
      /\ position' = Tail(position) \o ReadAsync(Reused(Head(position).slot))
      /\ UNCHANGED <<orphans, taken, buffer, queue, closed>>
  BY DEF ReadNext, queueVars
<1>2. Head(position) = position[1] /\ position[1] \in Read /\ 1 \in DOMAIN position
      /\ Tail(position) \in Seq(Read)
  BY <1>1, TailOf DEF BufferInv, BufferTypes
<1>3. position[1].slot \in Slots
  BY <1>2 DEF Read
<1>4. buffer[position[1].slot] \in Batch
  BY <1>1, <1>2 DEF BufferInv, FullHasBatch
<1>5. CASE prev = 0
  <2>1. Reused(Head(position).slot) = <<>>
    BY <1>5 DEF Reused
  <2>2. ReadAsync(<<>>) = <<>>
    BY DEF ReadAsync
  <2> QED
    BY <1>1, <1>2, <1>3, <1>4, <1>5, <2>1, <2>2
<1>6. CASE prev # 0
  <2>1. Reused(Head(position).slot) = <<prev>>
    BY <1>6 DEF Reused
  <2>2. ReadAsync(<<prev>>) = <<[slot |-> prev, out |-> "pending"]>>
    BY DEF ReadAsync
  <2> QED
    BY <1>1, <1>2, <1>3, <1>4, <1>6, <2>1, <2>2
<1> QED
  BY <1>5, <1>6

LEMMA BufferNext ==
    ASSUME BufferInv, ReadNext
    PROVE  BufferInv'
<1> USE DEF Pending
<1> DEFINE n == Len(position)
           r == [slot |-> prev, out |-> "pending"]
           s1 == position[1].slot
<1>1. /\ position # <<>> /\ position[1].out = "full" /\ prev' = s1
      /\ s1 \in Slots /\ buffer[s1] \in Batch /\ delivered' = Append(delivered, buffer[s1])
      /\ UNCHANGED <<orphans, taken, buffer>>
      /\ \/ prev = 0 /\ position' = Tail(position)
         \/ prev # 0 /\ position' = Tail(position) \o <<r>>
  BY ReadNextIs
<1>2. /\ position \in Seq(Read) /\ n \in Nat /\ n >= 1 /\ DOMAIN position = 1..n
      /\ Tail(position) \in Seq(Read) /\ Len(Tail(position)) = n - 1
      /\ \A i \in 1..(n - 1) : Tail(position)[i] = position[i + 1]
  BY <1>1, TailOf DEF BufferInv, BufferTypes
<1>3. prev # 0 => r \in Read
  BY Numbers DEF BufferInv, BufferTypes, Read
<1> HIDE DEF n, r, s1
<1>4. /\ position' \in Seq(Read)
      /\ DOMAIN position' = 1..(IF prev = 0 THEN n - 1 ELSE n)
      /\ \A i \in 1..(n - 1) : position'[i] = position[i + 1]
      /\ prev # 0 => position'[n] = r
  <2>1. CASE prev = 0
    <3>1. position' = Tail(position) /\ DOMAIN Tail(position) = 1..(n - 1)
      BY <1>1, <1>2, <2>1
    <3> QED
      BY <1>2, <2>1, <3>1
  <2>2. CASE prev # 0
    <3>1. position' = Tail(position) \o <<r>>
      BY <1>1, <2>2
    <3> DEFINE tl == Tail(position)
    <3>2. tl \in Seq(Read) /\ Len(tl) = n - 1
      BY <1>2
    <3> HIDE DEF tl
    <3>3. /\ tl \o <<r>> \in Seq(Read) /\ DOMAIN (tl \o <<r>>) = 1..(Len(tl) + 1)
          /\ \A i \in 1..Len(tl) : (tl \o <<r>>)[i] = tl[i]
          /\ (tl \o <<r>>)[Len(tl) + 1] = r
      BY <1>3, <2>2, <3>2, ConcatOne
    <3>4. Len(tl) + 1 = n /\ 1..Len(tl) = 1..(n - 1)
      BY <1>2, <3>2
    <3> QED
      BY <1>2, <2>2, <3>1, <3>3, <3>4 DEF tl
  <2> QED
    BY <2>1, <2>2
<1>5. \A i \in DOMAIN position' : \/ i \in 1..(n - 1) /\ i + 1 \in DOMAIN position /\ position'[i] = position[i + 1]
                                  \/ i = n /\ prev # 0 /\ position'[i] = r
  BY <1>2, <1>4
<1>6. r.out = "pending" /\ r.slot = prev
  BY DEF r
<1>7. BufferTypes'
  <2>1. delivered' \in Seq(Batch)
    BY <1>1, AppendTo DEF BufferInv, BufferTypes
  <2>2. prev' \in 0..BufferSize
    BY <1>1, Numbers
  <2> QED
    BY <1>1, <1>4, <2>1, <2>2 DEF BufferInv, BufferTypes
<1>8. PendingLast'
  <2> SUFFICES ASSUME NEW i \in DOMAIN position', NEW j \in DOMAIN position', i < j, Pending(i)'
               PROVE  Pending(j)'
    BY DEF PendingLast
  <2>1. CASE j = n
    BY <1>2, <1>5, <1>6, <2>1
  <2>2. CASE j # n
    <3>1. i \in 1..(n - 1) /\ j \in 1..(n - 1)
      BY <1>2, <1>5, <2>2
    <3>2. i + 1 < j + 1 /\ Pending(i + 1) /\ i + 1 \in DOMAIN position /\ j + 1 \in DOMAIN position
      BY <1>2, <1>5, <3>1
    <3>3. Pending(j + 1)
      BY <3>2 DEF BufferInv, PendingLast
    <3> QED
      BY <1>4, <3>1, <3>3
  <2> QED
    BY <2>1, <2>2
<1>9. \A i \in 2..n : position[i].slot # prev /\ position[i].slot # s1
  BY <1>2 DEF BufferInv, SlotsApart, s1
<1>10. prev # s1 
  BY <1>2 DEF BufferInv, SlotsApart, s1
<1>11. \A i \in DOMAIN position' : \/ i \in 1..(n - 1) /\ i + 1 \in 2..n /\ position'[i].slot = position[i + 1].slot
                                   \/ i = n /\ position'[i].slot = prev
  BY <1>2, <1>5, <1>6
<1>12. SlotsApart'
  <2>1. ASSUME NEW i \in DOMAIN position', NEW j \in DOMAIN position',
               position'[i].slot = position'[j].slot
        PROVE  i = j
    <3>1. CASE i \in 1..(n - 1) /\ j \in 1..(n - 1)
      <4>1. i + 1 \in DOMAIN position /\ j + 1 \in DOMAIN position
            /\ position[i + 1].slot = position[j + 1].slot
        BY <1>2, <1>4, <2>1, <3>1
      <4>2. i + 1 = j + 1
        BY <4>1 DEF BufferInv, SlotsApart
      <4> QED
        BY <3>1, <4>2
    <3>2. CASE i = n \/ j = n
      BY <1>2, <1>9, <1>11, <2>1, <3>2
    <3> QED
      BY <1>5, <3>1, <3>2
  <2>2. \A i \in DOMAIN position' : position'[i].slot # s1
    BY <1>9, <1>10, <1>11
  <2> QED
    BY <1>1, <2>1, <2>2 DEF SlotsApart
<1>13. 1 \in DOMAIN position /\ orphans = <<>>
  <2>1. 1 \in DOMAIN position
    BY <1>2
  <2>2. ~ Pending(1)
    BY <1>1
  <2> QED
    BY <2>1, <2>2 DEF BufferInv, OrphansFirst
<1>14. OrphansFirst'
  BY <1>1, <1>13 DEF OrphansFirst
<1>15. TakenForTask'
  <2>1. ASSUME NEW i \in DOMAIN position, Pending(i)
        PROVE  \E j \in DOMAIN position' : Pending(j)'
    <3>1. i # 1
      BY <1>1, <2>1
    <3>2. i - 1 \in 1..(n - 1) /\ (i - 1) + 1 = i
      BY <1>2, <3>1
    <3>3. i - 1 \in DOMAIN position' /\ position'[i - 1] = position[i]
      BY <1>2, <1>4, <3>2
    <3> QED
      BY <2>1, <3>3
  <2> QED
    BY <1>1, <2>1 DEF BufferInv, TakenForTask
<1>16. FullHasBatch'
  BY <1>1, <1>5, <1>6 DEF BufferInv, FullHasBatch
<1>17. LatestKept'
  <2>1. delivered' # <<>> /\ delivered'[Len(delivered')] = buffer[s1]
    <3>1. delivered \in Seq(Batch)
      BY DEF BufferInv, BufferTypes
    <3>2. /\ delivered' \in Seq(Batch) /\ Len(delivered) \in Nat
          /\ Len(delivered') = Len(delivered) + 1 /\ delivered'[Len(delivered) + 1] = buffer[s1]
      BY <1>1, <3>1, AppendTo
    <3> QED
      BY <3>2
  <2> QED
    BY <1>1, <2>1 DEF LatestKept
<1> QED
  BY <1>7, <1>8, <1>12, <1>14, <1>15, <1>16, <1>17 DEF BufferInv

LEMMA BufferShutsDown ==
    ASSUME BufferInv, Shutdown
    PROVE  BufferInv'
<1>1. /\ orphans' = PoolTasks /\ position' = <<>> /\ prev' = 0
      /\ UNCHANGED <<taken, buffer, delivered>>
      /\ position \in Seq(Read) /\ orphans \in Seq(Slots)
  BY DEF Shutdown, BufferInv, BufferTypes
<1>2. PoolTasks \in Seq(Slots)
  BY <1>1, TasksOf
<1>3. BufferTypes'
  BY <1>1, <1>2, Numbers DEF BufferInv, BufferTypes
<1>4. TakenForTask'
  <2> SUFFICES ASSUME taken # NoBatch PROVE PoolTasks # <<>>
    BY <1>1 DEF TakenForTask
  <2>1. orphans = <<>> => FirstPending # 0
    BY <1>1, FirstOfPending DEF BufferInv, TakenForTask
  <2> QED
    BY <1>1, <2>1, TasksOf
<1> QED
  BY <1>1, <1>3, <1>4 DEF BufferInv, PendingLast, SlotsApart, OrphansFirst, FullHasBatch, LatestKept

(* All slots are read into. *)
LEMMA AllReadsAre ==
    /\ ReadTillBufferFullAsync \in Seq(Read) /\ DOMAIN ReadTillBufferFullAsync = Slots
    /\ Len(ReadTillBufferFullAsync) = BufferSize
    /\ \A i \in Slots : /\ ReadTillBufferFullAsync[i].slot = i
                        /\ ReadTillBufferFullAsync[i].out = "pending"
<1> DEFINE a == ReadTillBufferFullAsync
<1>1. a = [i \in Slots |-> [slot |-> i, out |-> "pending"]]
  BY DEF ReadTillBufferFullAsync, ReadAsync
<1>2. a \in [1..BufferSize -> Read] /\ BufferSize \in Nat
  BY <1>1, Numbers DEF Read
<1> QED
  BY <1>1, <1>2, Numbers

LEMMA BufferStarts ==
    ASSUME BufferInv, prev = 0, position' = ReadTillBufferFullAsync,
           UNCHANGED <<orphans, taken, buffer, prev, delivered>>
    PROVE  BufferInv'
<1> USE DEF Pending
<1>1. /\ position' \in Seq(Read) /\ DOMAIN position' = Slots
      /\ \A i \in Slots : position'[i].slot = i /\ position'[i].out = "pending"
  BY AllReadsAre
<1>2. BufferTypes'
  BY <1>1 DEF BufferInv, BufferTypes
<1>3. 1 \in Slots /\ 0 \notin Slots
  BY Numbers
<1> QED
  BY <1>1, <1>2, <1>3 DEF BufferInv, PendingLast, SlotsApart, OrphansFirst, TakenForTask,
                          FullHasBatch, LatestKept

-----------------------------------------------------------------------------
(* The threads. *)

LEMMA SlotInitInv == PipelineInit => SlotInv
<1> SUFFICES ASSUME PipelineInit PROVE SlotInv
  OBVIOUS
<1> USE DEF Pending
<1>1. /\ position \in Seq(Read) /\ DOMAIN position = Slots
      /\ \A i \in Slots : position[i].slot = i /\ position[i].out = "pending"
  BY AllReadsAre DEF PipelineInit
<1>2. BufferTypes /\ ThreadTypes
  <2>1. buffer \in [Slots -> Batch \cup {NoBatch}]
    BY DEF PipelineInit
  <2>2. BufferTypes
    BY <1>1, <2>1, Numbers DEF PipelineInit, BufferTypes
  <2>3. queue \in Seq(Batch) /\ Len(queue) <= Capacity
    BY Numbers DEF PipelineInit
  <2>4. ThreadTypes
    <3>1. 0 \in 0..PassBatches /\ 0 \in 0..MaxPasses /\ 0 \in 0..MaxEarly
      BY Numbers
    <3>2. closed \in BOOLEAN /\ exited \in BOOLEAN
      BY Zenon DEF PipelineInit
    <3> QED
      BY <2>3, <3>1, <3>2 DEF PipelineInit, ThreadTypes
  <2> QED
    BY <2>2, <2>4
<1>3. BufferInv
  BY <1>1, <1>2, Numbers DEF PipelineInit, BufferInv, PendingLast, SlotsApart, OrphansFirst,
                             TakenForTask, FullHasBatch, LatestKept
<1> QED
  BY <1>2, <1>3 DEF SlotInv, ThreadsKnown, PipelineInit

LEMMA ThreadsStep ==
    ASSUME SlotInv, [PipelineNext]_pipelineVars
    PROVE  ThreadTypes' /\ ThreadsKnown'
<1> USE DEF queueVars, bufferVars, pythonVars
<1>1. ThreadTypes /\ ThreadsKnown
  BY DEF SlotInv
<1>2. CASE StartPass
  BY <1>1, <1>2, Numbers DEF StartPass, ThreadTypes, ThreadsKnown
<1>3. CASE RunStep \/ ReadEnds \/ SetExited \/ Join
  BY <1>1, <1>3 DEF RunStep, ReadEnds, SetExited, Join, ThreadTypes, ThreadsKnown
<1>4. CASE ResetEarly
  BY <1>1, <1>4, Numbers DEF ResetEarly, ThreadTypes, ThreadsKnown
<1>5. CASE SkipEnd \/ ReadNext
  <2>1. /\ main = "reading" /\ main' \in {"reading", "training"}
        /\ UNCHANGED <<queue, closed, provider, made, exited, pass, early>>
    BY <1>5 DEF SkipEnd, ReadNext
  <2> QED
    BY <1>1, <2>1 DEF ThreadTypes, ThreadsKnown
<1>6. CASE Shutdown
  BY <1>1, <1>6 DEF Shutdown, Close, ThreadTypes, ThreadsKnown
<1>7. CASE Start
  <2>1. /\ queue' = <<>> /\ closed' = FALSE /\ main' = "exit" /\ main = "start"
        /\ UNCHANGED <<provider, made, exited, pass, early>>
    BY <1>7 DEF Start, ReOpen
  <2>2. queue' \in Seq(Batch) /\ Len(queue') <= Capacity
    BY <2>1, Numbers
  <2> QED
    BY <1>1, <2>1, <2>2 DEF ThreadTypes, ThreadsKnown
<1>8. CASE CallPush
  BY <1>1, <1>8 DEF CallPush, ThreadTypes, ThreadsKnown
<1>9. CASE Push
  <2>1. /\ provider = "push" /\ Send([pass |-> pass, n |-> made + 1]) /\ made' = made + 1
        /\ provider' = "python" /\ UNCHANGED <<exited, main, pass, early, prev, position>>
    BY <1>9 DEF Push
  <2>2. pass \in 1..MaxPasses /\ made + 1 \in 1..PassBatches
    BY <1>1, <2>1, Numbers DEF ThreadTypes, ThreadsKnown
  <2>3. [pass |-> pass, n |-> made + 1] \in Batch
    BY <2>2 DEF Batch
  <2>4. queue' \in Seq(Batch) /\ Len(queue') <= Capacity /\ closed' = closed
    <3>1. CASE closed
      BY <1>1, <2>1, <3>1 DEF Send, ThreadTypes
    <3>2. CASE ~ closed
      <4>1. queue' = Append(queue, [pass |-> pass, n |-> made + 1]) /\ Len(queue) < Capacity
            /\ closed' = closed
        BY <2>1, <3>2 DEF Send
      <4> QED
        BY <1>1, <2>3, <4>1, AppendTo, Numbers DEF ThreadTypes
    <3> QED
      BY <3>1, <3>2
  <2>5. made' \in 0..PassBatches
    BY <2>1, <2>2
  <2> QED
    BY <1>1, <2>1, <2>4, <2>5 DEF ThreadTypes, ThreadsKnown
<1>10. CASE ProviderEnds
  BY <1>1, <1>10 DEF ProviderEnds, Close, ThreadTypes, ThreadsKnown
<1>11. ASSUME PoolTasks # <<>>, NEW out \in {"full", "eof"}, FinishTask(out) \/ position' = position,
              UNCHANGED <<prev, pythonVars>>
       PROVE  ThreadsKnown'
  <2>1. BufferTypes /\ position \in Seq(Read) /\ orphans \in Seq(Slots)
    BY DEF SlotInv, BufferInv, BufferTypes
  <2>2. position = <<>> => orphans # <<>>
    <3> SUFFICES ASSUME position = <<>>, orphans = <<>> PROVE FALSE
      OBVIOUS
    <3>1. FirstPending # 0
      BY <1>11, <2>1, TasksOf
    <3> QED
      BY <2>1, <3>1, FirstOfPending
  <2>3. position = <<>> => position' = <<>>
    BY <1>11, <2>2 DEF FinishTask
  <2> QED
    BY <1>1, <1>11, <2>3 DEF ThreadsKnown
<1>12. CASE TaskReceives
  <2>1. PoolTasks # <<>> /\ (FinishTask("eof") \/ position' = position)
        /\ UNCHANGED <<prev, pythonVars>> /\ closed' = closed
    BY <1>12 DEF TaskReceives, Receive
  <2>2. queue' = queue \/ (queue # <<>> /\ queue' = Tail(queue))
    BY <1>12 DEF TaskReceives, Receive
  <2>3. queue' \in Seq(Batch) /\ Len(queue') <= Capacity
    <3>1. queue \in Seq(Batch) /\ Len(queue) <= Capacity
      BY <1>1 DEF ThreadTypes
    <3>2. CASE queue # <<>> /\ queue' = Tail(queue)
      BY <3>1, <3>2, TailOf, Numbers
    <3> QED
      BY <2>2, <3>1, <3>2
  <2>4. ThreadTypes'
    BY <1>1, <2>1, <2>3 DEF ThreadTypes
  <2>5. ThreadsKnown'
    BY <1>11, <2>1
  <2> QED
    BY <2>4, <2>5
<1>13. CASE TaskStores
  <2>1. FinishTask("full") /\ UNCHANGED <<prev, pythonVars, queueVars>> /\ taken # NoBatch
    BY <1>13 DEF TaskStores
  <2>2. PoolTasks # <<>>
    <3>1. position \in Seq(Read) /\ orphans \in Seq(Slots) /\ TakenForTask
      BY DEF SlotInv, BufferInv, BufferTypes
    <3>2. orphans = <<>> => FirstPending # 0
      BY <2>1, <3>1, FirstOfPending DEF TakenForTask
    <3> QED
      BY <3>1, <3>2, TasksOf
  <2>3. ThreadTypes'
    BY <1>1, <2>1 DEF ThreadTypes
  <2>4. ThreadsKnown'
    BY <1>11, <2>1, <2>2
  <2> QED
    BY <2>3, <2>4
<1>14. CASE UNCHANGED pipelineVars
  BY <1>1, <1>14 DEF pipelineVars, ThreadTypes, ThreadsKnown
<1> QED
  BY <1>2, <1>3, <1>4, <1>5, <1>6, <1>7, <1>8, <1>9, <1>10, <1>12, <1>13, <1>14
     DEF PipelineNext, MainStep, ProviderStep, PoolStep

LEMMA SlotNextInv == SlotInv /\ [PipelineNext]_pipelineVars => SlotInv'
<1> SUFFICES ASSUME SlotInv, [PipelineNext]_pipelineVars PROVE BufferInv'
  BY ThreadsStep DEF SlotInv
<1>0. BufferInv
  BY DEF SlotInv
<1>1. CASE UNCHANGED <<bufferVars, delivered>>
  BY <1>0, <1>1, BufferQuiet
<1>2. CASE TaskReceives
  BY <1>2, BufferReceives
<1>3. CASE TaskStores
  BY <1>3, BufferStores
<1>4. CASE SkipEnd
  <2>1. position # <<>> /\ Head(position).out = "eof" /\ position' = Tail(position)
        /\ UNCHANGED <<orphans, taken, buffer, prev, delivered>>
    BY <1>4 DEF SkipEnd, pythonVars
  <2>2. ~ Pending(1)
    BY <1>0, <2>1, TailOf DEF BufferInv, BufferTypes, Pending
  <2> QED
    BY <1>0, <2>1, <2>2, BufferSkips
<1>5. CASE ReadNext
  BY <1>0, <1>5, BufferNext
<1>6. CASE Shutdown
  BY <1>0, <1>6, BufferShutsDown
<1>7. CASE Start
  <2>1. prev = 0 /\ position' = ReadTillBufferFullAsync
        /\ UNCHANGED <<orphans, taken, buffer, prev, delivered>>
    BY <1>7 DEF Start, SlotInv, ThreadsKnown
  <2> QED
    BY <1>0, <2>1, BufferStarts
<1>8. ASSUME \/ StartPass \/ RunStep \/ ReadEnds \/ SetExited \/ Join \/ ResetEarly
             \/ CallPush \/ Push \/ ProviderEnds \/ UNCHANGED pipelineVars
      PROVE  UNCHANGED <<bufferVars, delivered>>
  BY <1>8 DEF StartPass, RunStep, ReadEnds, SetExited, Join, ResetEarly, CallPush, Push,
              ProviderEnds, pipelineVars, pythonVars
<1> QED
  BY <1>1, <1>2, <1>3, <1>4, <1>5, <1>6, <1>7, <1>8
     DEF PipelineNext, MainStep, ProviderStep, PoolStep

LEMMA SlotInvariant == PipelineSpec => []SlotInv
BY SlotInitInv, SlotNextInv, PTL DEF PipelineSpec

(* Types: the queue keeps to its capacity, and no slot of cpu_buffer_ or *)
(* gpu_buffer_ waits for two reads.                                      *)
THEOREM PipelineTypeCorrect == PipelineSpec => []PipelineTypeOK
<1>1. SlotInv => PipelineTypeOK
  <2> SUFFICES ASSUME SlotInv PROVE PipelineTypeOK
    OBVIOUS
  <2>1. BufferTypes /\ ThreadTypes /\ SlotsApart
    BY DEF SlotInv, BufferInv
  <2>2. IsInjective([i \in DOMAIN position |-> position[i].slot])
    BY <2>1 DEF IsInjective, SlotsApart
  <2> QED
    BY <2>1, <2>2 DEF BufferTypes, ThreadTypes, PipelineTypeOK, Read
<1> QED
  BY <1>1, SlotInvariant, PTL

(* The batch that the training step works on is not overwritten before the *)
(* next one was read: slots are reused one read late (prev_pos_), and      *)
(* reads of an earlier pass have left the pool by then.                    *)
THEOREM CurrentBatchKept == PipelineSpec => []LatestBatchIntact
<1>1. SlotInv => LatestBatchIntact
  BY DEF SlotInv, BufferInv, LatestKept, LatestBatchIntact, Last
<1> QED
  BY <1>1, SlotInvariant, PTL

-----------------------------------------------------------------------------
(* Nothing is replayed. *)

LEMMA OlderIsOrder ==
    ASSUME NEW a \in Batch, NEW b \in Batch, NEW c \in Batch, Older(a, b), Older(b, c)
    PROVE  Older(a, c)
BY DEF Older, Batch

LEMMA InFlightTypes ==
    ASSUME SlotInv
    PROVE  /\ \A i \in DOMAIN delivered : delivered[i] \in Batch
           /\ \A i \in DOMAIN queue : queue[i] \in Batch
           /\ \A i \in DOMAIN position :
                 /\ position[i].slot \in Slots
                 /\ position[i].out = "full" => buffer[position[i].slot] \in Batch
           /\ taken # NoBatch => taken \in Batch
<1>1. \A i \in DOMAIN position : position[i] \in Read
  BY DEF SlotInv, BufferInv, BufferTypes
<1> QED
  BY <1>1 DEF SlotInv, BufferInv, BufferTypes, ThreadTypes, FullHasBatch, Read

(* Nothing moves, or batches are dropped; the provider may have gone on. *)
LEMMA OrderAfterLess ==
    ASSUME OrderInv, Ordered(delivered)', StoredInOrder', Ordered(queue)',
           \A b \in Batch : /\ Delivered(b)' => Delivered(b)
                            /\ Stored(b)' => Stored(b)
                            /\ Taken(b)' => Taken(b)
                            /\ Queued(b)' => Queued(b)
                            /\ Pushed(b) => Pushed(b)'
    PROVE  OrderInv'
BY DEF OrderInv

LEMMA SameDelivered ==
    ASSUME delivered' = delivered
    PROVE  /\ \A b : Delivered(b)' <=> Delivered(b)
           /\ Ordered(delivered)' <=> Ordered(delivered)
BY DEF Delivered, Ordered

LEMMA SameQueue ==
    ASSUME queue' = queue
    PROVE  /\ \A b : Queued(b)' <=> Queued(b)
           /\ Ordered(queue)' <=> Ordered(queue)
BY DEF Queued, Ordered

LEMMA SameStored ==
    ASSUME position' = position, buffer' = buffer
    PROVE  /\ \A b : Stored(b)' <=> Stored(b)
           /\ StoredInOrder' <=> StoredInOrder
BY DEF Stored, StoredInOrder

LEMMA NothingStored ==
    ASSUME \A i \in DOMAIN position' : position'[i].out # "full"
    PROVE  (\A b : ~ Stored(b)') /\ StoredInOrder'
BY DEF Stored, StoredInOrder

LEMMA SamePushed ==
    ASSUME pass' = pass, made' = made
    PROVE  \A b : Pushed(b)' <=> Pushed(b)
BY DEF Pushed

LEMMA OrderStartPass ==
    ASSUME SlotInv, OrderInv, StartPass
    PROVE  OrderInv'
<1>1. /\ UNCHANGED <<queue, position, taken, buffer, delivered>> /\ pass' = pass + 1 /\ made' = 0
  BY DEF StartPass, queueVars, bufferVars
<1>2. \A b \in Batch : Pushed(b) => Pushed(b)'
  BY <1>1 DEF Pushed, Batch, SlotInv, ThreadTypes
<1>3. \A b : Taken(b)' <=> Taken(b)
  BY <1>1 DEF Taken
<1>4. Ordered(delivered)' /\ StoredInOrder' /\ Ordered(queue)'
  BY <1>1, SameDelivered, SameQueue, SameStored DEF OrderInv
<1>5. \A b : /\ Delivered(b)' => Delivered(b)
             /\ Stored(b)' => Stored(b)
             /\ Queued(b)' => Queued(b)
  BY <1>1, SameDelivered, SameQueue, SameStored
<1> QED
  BY <1>2, <1>3, <1>4, <1>5, OrderAfterLess

LEMMA OrderPush ==
    ASSUME SlotInv, OrderInv, Push
    PROVE  OrderInv'
<1>0. PICK x : x = [pass |-> pass, n |-> made + 1]
  OBVIOUS
<1>1. /\ UNCHANGED <<position, taken, buffer, delivered, pass>> /\ made' = made + 1
      /\ queue' = queue \/ queue' = Append(queue, x)
      /\ provider = "push"
  BY <1>0 DEF Push, Send, bufferVars
<1>2. /\ pass \in 1..MaxPasses /\ made + 1 \in 1..PassBatches /\ made \in Nat
      /\ queue \in Seq(Batch)
  BY <1>1, Numbers DEF SlotInv, ThreadTypes, ThreadsKnown
<1>3. x \in Batch
  BY <1>0, <1>2 DEF Batch
<1>4. /\ \A b \in Batch : (Pushed(b) => Pushed(b)') /\ (Pushed(b) => Older(b, x))
      /\ Pushed(x)'
  BY <1>0, <1>1, <1>2 DEF Pushed, Older, Batch
<1>5. \A b : (Taken(b)' <=> Taken(b)) /\ (Delivered(b)' <=> Delivered(b)) /\ (Stored(b)' <=> Stored(b))
  BY <1>1, SameDelivered, SameStored DEF Taken
<1>6. Ordered(delivered)' /\ StoredInOrder'
  BY <1>1, SameDelivered, SameStored DEF OrderInv
<1>7. CASE queue' = queue
  <2>1. Ordered(queue)' /\ \A b : Queued(b)' <=> Queued(b)
    BY <1>7, SameQueue DEF OrderInv
  <2> QED
    BY <1>4, <1>5, <1>6, <2>1, OrderAfterLess
<1>8. CASE queue' = Append(queue, x)
  <2>1. /\ DOMAIN queue = 1..Len(queue) /\ Len(queue) \in Nat /\ DOMAIN queue' = 1..(Len(queue) + 1)
        /\ \A i \in 1..Len(queue) : queue'[i] = queue[i]
        /\ queue'[Len(queue) + 1] = x
    BY <1>2, <1>3, <1>8, AppendTo
  <2>2. \A b : Queued(b)' <=> Queued(b) \/ b = x
    BY <2>1 DEF Queued
  <2>3. Ordered(queue)'
    <3> SUFFICES ASSUME NEW i \in DOMAIN queue', NEW j \in DOMAIN queue', i < j
                 PROVE  Older(queue'[i], queue'[j])
      BY DEF Ordered
    <3>1. i \in 1..Len(queue) /\ queue'[i] = queue[i]
      BY <2>1
    <3>2. CASE j \in 1..Len(queue)
      BY <2>1, <3>1, <3>2 DEF OrderInv, Ordered
    <3>3. CASE j = Len(queue) + 1
      <4>1. queue[i] \in Batch /\ Queued(queue[i])
        BY <1>2, <2>1, <3>1 DEF Queued
      <4>2. Pushed(queue[i])
        BY <4>1 DEF OrderInv
      <4> QED
        BY <1>4, <2>1, <3>1, <3>3, <4>1, <4>2
    <3> QED
      BY <2>1, <3>2, <3>3
  <2> QED
    BY <1>3, <1>4, <1>5, <1>6, <2>2, <2>3 DEF OrderInv
<1> QED
  BY <1>1, <1>7, <1>8

(* The pool receives a batch: the head of the queue goes into its hands. *)
LEMMA OrderReceives ==
    ASSUME SlotInv, OrderInv, TaskReceives
    PROVE  OrderInv'
<1>1. /\ taken = NoBatch /\ UNCHANGED <<delivered, pass, made>> /\ PoolTasks # <<>>
      /\ queue \in Seq(Batch) /\ BufferTypes /\ BufferInv
  BY DEF TaskReceives, pythonVars, SlotInv, ThreadTypes, BufferInv
<1>2. \A b : (Delivered(b)' <=> Delivered(b)) /\ (Pushed(b)' <=> Pushed(b)) /\ ~ Taken(b)
  BY <1>1, SameDelivered, SamePushed DEF Taken
<1>3. Ordered(delivered)'
  BY <1>1, SameDelivered DEF OrderInv
<1>4. CASE queue = <<>>
  <2>1. queue' = queue /\ taken' = NoBatch /\ FinishTask("eof") /\ Emptied(Head(PoolTasks))
    BY <1>4 DEF TaskReceives, Receive
  <2>0. \A i \in DOMAIN position : position[i].out = "full"
            => buffer'[position[i].slot] = buffer[position[i].slot]
    BY <1>1, <2>1, EmptiesUnused
  <2>2. StoredInOrder' /\ \A b : Stored(b)' => Stored(b)
    <3>1. CASE FinishesOrphan
      BY <2>0, <3>1 DEF FinishesOrphan, OrderInv, Stored, StoredInOrder
    <3>2. ASSUME NEW k \in DOMAIN position, FinishesRead(k, "eof")
          PROVE  StoredInOrder' /\ \A b : Stored(b)' => Stored(b)
      <4>1. \A i \in DOMAIN position' : position'[i].out = "full"
                => i \in DOMAIN position /\ position'[i] = position[i]
        BY <3>2 DEF FinishesRead
      <4> QED
        BY <2>0, <4>1 DEF StoredInOrder, Stored, OrderInv
    <3> QED
      BY <1>1, <2>1, <3>1, <3>2, FinishIs
  <2>3. \A b : (Queued(b)' <=> Queued(b)) /\ ~ Taken(b)'
    BY <2>1, SameQueue DEF Taken
  <2>4. Ordered(queue)'
    BY <2>1, SameQueue DEF OrderInv
  <2> QED
    BY <1>2, <1>3, <2>2, <2>3, <2>4, OrderAfterLess
<1>5. CASE queue # <<>>
  <2>1. /\ DOMAIN queue = 1..Len(queue) /\ Len(queue) \in Nat /\ Len(queue) >= 1
        /\ DOMAIN Tail(queue) = 1..(Len(queue) - 1)
        /\ \A i \in 1..(Len(queue) - 1) : Tail(queue)[i] = queue[i + 1]
        /\ Head(queue) = queue[1] /\ queue[1] \in Batch
    BY <1>1, <1>5, TailOf
  <2>2. queue' = Tail(queue) /\ taken' = queue[1]
    BY <1>5, <2>1 DEF TaskReceives, Receive
  <2>3. position' = position /\ buffer' = buffer
    BY <2>1, <2>2, Numbers DEF TaskReceives
  <2>4. StoredInOrder' /\ \A b : Stored(b)' <=> Stored(b)
    BY <1>1, <2>3, SameStored DEF OrderInv
  <2>5. \A i \in DOMAIN queue' : i + 1 \in DOMAIN queue /\ 1 < i + 1 /\ queue'[i] = queue[i + 1]
    BY <2>1, <2>2
  <2>6. Ordered(queue)'
    <3> SUFFICES ASSUME NEW i \in DOMAIN queue', NEW j \in DOMAIN queue', i < j
                 PROVE  Older(queue'[i], queue'[j])
      BY DEF Ordered
    <3>1. i + 1 < j + 1
      BY <2>1, <2>2
    <3> QED
      BY <2>5, <3>1 DEF OrderInv, Ordered
  <2>7. \A b : /\ Queued(b)' => Queued(b) /\ Older(queue[1], b)
               /\ Taken(b)' => b = queue[1]
    <3>1. 1 \in DOMAIN queue
      BY <2>1
    <3> QED
      BY <2>2, <2>5, <3>1 DEF Queued, Taken, OrderInv, Ordered
  <2>8. Queued(queue[1])
    BY <2>1 DEF Queued
  <2> QED
    BY <1>2, <1>3, <2>1, <2>4, <2>6, <2>7, <2>8 DEF OrderInv
<1> QED
  BY <1>4, <1>5

(* The pool stores the batch in its hands, behind those already stored. *)
LEMMA OrderStores ==
    ASSUME SlotInv, OrderInv, TaskStores
    PROVE  OrderInv'
<1>1. /\ taken # NoBatch /\ taken \in Batch /\ taken' = NoBatch /\ FinishTask("full")
      /\ buffer' = [buffer EXCEPT ![Head(PoolTasks)] = taken]
      /\ UNCHANGED <<queue, delivered, pass, made>> /\ BufferTypes /\ BufferInv
      /\ position \in Seq(Read) /\ orphans \in Seq(Slots) /\ TakenForTask
  BY DEF TaskStores, queueVars, pythonVars, SlotInv, BufferInv, BufferTypes
<1>2. PoolTasks # <<>>
  <2>1. orphans = <<>> => FirstPending # 0
    BY <1>1, FirstOfPending DEF TakenForTask
  <2> QED
    BY <1>1, <2>1, TasksOf
<1>3. \A b : (Delivered(b)' <=> Delivered(b)) /\ (Pushed(b)' <=> Pushed(b))
             /\ (Queued(b)' <=> Queued(b)) /\ ~ Taken(b)'
  BY <1>1, SameDelivered, SamePushed, SameQueue DEF Taken
<1>4. Ordered(delivered)' /\ Ordered(queue)'
  BY <1>1, SameDelivered, SameQueue DEF OrderInv
<1>5. CASE FinishesOrphan
  <2>1. \A i \in DOMAIN position' : position'[i].out # "full"
    BY <1>1, <1>5 DEF FinishesOrphan, BufferInv, OrphansFirst, Pending
  <2>2. StoredInOrder' /\ \A b : ~ Stored(b)'
    BY <2>1, NothingStored
  <2> QED
    BY <1>3, <1>4, <2>2, OrderAfterLess
<1>6. ASSUME NEW k \in DOMAIN position, FinishesRead(k, "full"), Head(PoolTasks) = position[k].slot
      PROVE  OrderInv'
  <2> DEFINE h == position[k].slot
  <2>1. \A i \in DOMAIN position : position[i].slot \in Slots
    BY InFlightTypes
  <2>2. buffer'[h] = taken /\ \A x \in Slots \ {h} : buffer'[x] = buffer[x]
    BY <1>1, <1>6, <2>1 DEF BufferTypes
  <2>3. \A i \in DOMAIN position \ {k} : position[i].slot # h
    BY <1>1 DEF BufferInv, SlotsApart
  <2> HIDE DEF h
  <2>4. /\ DOMAIN position' = DOMAIN position /\ position'[k].slot = h
        /\ \A i \in DOMAIN position \ {k} : position'[i] = position[i]
    BY <1>6 DEF FinishesRead, h
  <2>5. \A i \in DOMAIN position \ {k} : buffer'[position'[i].slot] = buffer[position[i].slot]
    BY <2>1, <2>2, <2>3, <2>4
  <2>6. DOMAIN position \subseteq Int
    BY <1>1
  <2>7. \A i \in DOMAIN position : position'[i].out = "full" => i <= k
    <3> SUFFICES ASSUME NEW i \in DOMAIN position, position'[i].out = "full", ~ (i <= k) PROVE FALSE
      OBVIOUS
    <3>1. k < i /\ Pending(k)
      BY <1>6, <2>6 DEF FinishesRead
    <3>2. Pending(i)
      BY <1>1, <3>1 DEF BufferInv, PendingLast
    <3> QED
      BY <2>4, <2>6, <3>1, <3>2 DEF Pending
  <2>8. \A b : Stored(b)' => Stored(b) \/ b = taken
    BY <2>2, <2>4, <2>5 DEF Stored
  <2>9. \A i \in DOMAIN position \ {k} : position'[i].out = "full" => Older(buffer[position[i].slot], taken)
    <3> SUFFICES ASSUME NEW i \in DOMAIN position \ {k}, position'[i].out = "full"
                 PROVE  Older(buffer[position[i].slot], taken)
      OBVIOUS
    <3>1. position[i].out = "full" /\ buffer[position[i].slot] \in Batch
      BY <2>4, InFlightTypes
    <3>2. Stored(buffer[position[i].slot]) /\ Taken(taken)
      BY <1>1, <3>1 DEF Stored, Taken
    <3> QED
      BY <1>1, <3>1, <3>2 DEF OrderInv
  <2>10. StoredInOrder'
    <3> SUFFICES ASSUME NEW i \in DOMAIN position, NEW j \in DOMAIN position, i < j,
                        position'[i].out = "full", position'[j].out = "full"
                 PROVE  Older(buffer'[position'[i].slot], buffer'[position'[j].slot])
      BY <2>4 DEF StoredInOrder
    <3>1. i # k
      BY <1>6, <2>6, <2>7
    <3>2. CASE j = k
      BY <2>2, <2>4, <2>5, <2>9, <3>1, <3>2
    <3>3. CASE j # k
      BY <2>4, <2>5, <3>1, <3>3 DEF OrderInv, StoredInOrder
    <3> QED
      BY <3>2, <3>3
  <2>11. Taken(taken)
    BY <1>1 DEF Taken
  <2> QED
    BY <1>1, <1>3, <1>4, <2>8, <2>10, <2>11 DEF OrderInv
<1> QED
  BY <1>1, <1>2, <1>5, <1>6, FinishIs

(* The oldest stored batch is delivered. *)
LEMMA OrderNext ==
    ASSUME SlotInv, OrderInv, ReadNext
    PROVE  OrderInv'
<1> DEFINE n == Len(position)
<1>0. PICK x : x = buffer[position[1].slot]
  OBVIOUS
<1>1. /\ BufferInv /\ position \in Seq(Read) /\ delivered \in Seq(Batch) /\ pass' = pass /\ made' = made
  BY DEF SlotInv, BufferInv, BufferTypes, ReadNext
<1>2. /\ position # <<>> /\ position[1].out = "full" /\ x \in Batch
      /\ delivered' = Append(delivered, x)
      /\ \/ position' = Tail(position)
         \/ prev # 0 /\ position' = Tail(position) \o <<[slot |-> prev, out |-> "pending"]>>
      /\ UNCHANGED <<taken, buffer, queue>>
  BY <1>0, <1>1, ReadNextIs
<1>3. /\ n \in Nat /\ n >= 1 /\ DOMAIN position = 1..n
      /\ Tail(position) \in Seq(Read) /\ Len(Tail(position)) = n - 1
      /\ \A i \in 1..(n - 1) : Tail(position)[i] = position[i + 1]
  BY <1>1, <1>2, TailOf
<1> HIDE DEF n
<1>4. \A i \in DOMAIN position' : position'[i].out = "full"
          => i \in 1..(n - 1) /\ position'[i] = position[i + 1]
  <2>1. CASE position' = Tail(position)
    <3>1. DOMAIN position' = 1..(n - 1)
      BY <1>3, <2>1
    <3> QED
      BY <1>3, <2>1, <3>1
  <2>2. CASE prev # 0 /\ position' = Tail(position) \o <<[slot |-> prev, out |-> "pending"]>>
    <3> DEFINE r == [slot |-> prev, out |-> "pending"]
               tl == Tail(position)
    <3>1. r \in Read /\ r.out = "pending"
      BY <1>1, <2>2, Numbers DEF BufferInv, BufferTypes, Read
    <3>2. tl \in Seq(Read) /\ Len(tl) = n - 1 /\ \A i \in 1..(n - 1) : tl[i] = position[i + 1]
      BY <1>3
    <3>3. position' = tl \o <<r>>
      BY <2>2
    <3> HIDE DEF r, tl
    <3>4. /\ DOMAIN (tl \o <<r>>) = 1..(Len(tl) + 1)
          /\ \A i \in 1..Len(tl) : (tl \o <<r>>)[i] = tl[i]
          /\ (tl \o <<r>>)[Len(tl) + 1] = r
      BY <3>1, <3>2, ConcatOne
    <3> SUFFICES ASSUME NEW i \in DOMAIN position', position'[i].out = "full"
                 PROVE  i \in 1..(n - 1) /\ position'[i] = position[i + 1]
      OBVIOUS
    <3>5. DOMAIN position' = 1..n /\ position'[n] = r
      BY <1>3, <3>2, <3>3, <3>4
    <3>6. position'[n].out # "full"
      BY <3>1, <3>5
    <3>7. i \in 1..n /\ i # n
      BY <3>5, <3>6
    <3> QED
      BY <1>3, <3>2, <3>3, <3>4, <3>7
  <2> QED
    BY <1>2, <2>1, <2>2
<1>5. \A b : (Queued(b)' <=> Queued(b)) /\ (Taken(b)' <=> Taken(b)) /\ (Pushed(b)' <=> Pushed(b))
  BY <1>1, <1>2, SameQueue, SamePushed DEF Taken
<1>6. Ordered(queue)'
  BY <1>2, SameQueue DEF OrderInv
<1>7. /\ DOMAIN delivered = 1..Len(delivered) /\ Len(delivered) \in Nat
      /\ DOMAIN delivered' = 1..(Len(delivered) + 1)
      /\ \A i \in 1..Len(delivered) : delivered'[i] = delivered[i]
      /\ delivered'[Len(delivered) + 1] = x
  BY <1>1, <1>2, AppendTo
<1>8. Stored(x)
  BY <1>0, <1>2, <1>3 DEF Stored
<1>9. \A b : Delivered(b)' => Delivered(b) \/ b = x
  BY <1>7 DEF Delivered
<1>10. Ordered(delivered)'
  <2> SUFFICES ASSUME NEW i \in DOMAIN delivered', NEW j \in DOMAIN delivered', i < j
               PROVE  Older(delivered'[i], delivered'[j])
    BY DEF Ordered
  <2>1. i \in 1..Len(delivered) /\ delivered'[i] = delivered[i]
    BY <1>7
  <2>2. CASE j \in 1..Len(delivered)
    BY <1>7, <2>1, <2>2 DEF OrderInv, Ordered
  <2>3. CASE j = Len(delivered) + 1
    <3>1. delivered[i] \in Batch /\ Delivered(delivered[i])
      BY <1>1, <1>7, <2>1 DEF Delivered
    <3> QED
      BY <1>2, <1>7, <1>8, <2>1, <2>3, <3>1 DEF OrderInv
  <2> QED
    BY <1>7, <2>2, <2>3
<1>11. \A i \in DOMAIN position' : position'[i].out = "full" =>
          /\ i \in Nat /\ i + 1 \in DOMAIN position /\ 1 < i + 1 /\ position[i + 1].out = "full"
          /\ position'[i].slot = position[i + 1].slot
  BY <1>3, <1>4
<1>12. StoredInOrder'
  <2> SUFFICES ASSUME NEW i \in DOMAIN position', NEW j \in DOMAIN position', i < j,
                      position'[i].out = "full", position'[j].out = "full"
               PROVE  Older(buffer'[position'[i].slot], buffer'[position'[j].slot])
    BY DEF StoredInOrder
  <2>1. i + 1 < j + 1
    BY <1>11
  <2> QED
    BY <1>2, <1>11, <2>1 DEF OrderInv, StoredInOrder
<1>13. \A b : Stored(b)' => Stored(b) /\ Older(x, b)
  <2> SUFFICES ASSUME NEW b, NEW i \in DOMAIN position', position'[i].out = "full",
                      b = buffer[position'[i].slot]
               PROVE  Stored(b) /\ Older(x, b)
    BY <1>2 DEF Stored
  <2>1. /\ i + 1 \in DOMAIN position /\ 1 < i + 1 /\ position[i + 1].out = "full"
        /\ b = buffer[position[i + 1].slot] /\ 1 \in DOMAIN position
    BY <1>3, <1>11
  <2> QED
    BY <1>0, <1>2, <2>1 DEF Stored, OrderInv, StoredInOrder
<1> QED
  BY <1>2, <1>5, <1>6, <1>8, <1>9, <1>10, <1>12, <1>13 DEF OrderInv

LEMMA OrderSkips ==
    ASSUME SlotInv, OrderInv, SkipEnd
    PROVE  OrderInv'
<1> DEFINE n == Len(position)
<1>1. /\ position # <<>> /\ position' = Tail(position) /\ position \in Seq(Read)
      /\ UNCHANGED <<queue, taken, buffer, delivered, pass, made>>
  BY DEF SkipEnd, queueVars, pythonVars, SlotInv, BufferInv, BufferTypes
<1>2. /\ n \in Nat /\ DOMAIN position = 1..n /\ DOMAIN position' = 1..(n - 1)
      /\ \A i \in 1..(n - 1) : position'[i] = position[i + 1]
  BY <1>1, TailOf
<1> HIDE DEF n
<1>3. \A i \in DOMAIN position' : i \in Nat /\ i + 1 \in DOMAIN position /\ position'[i] = position[i + 1]
  BY <1>2
<1>4. StoredInOrder'
  <2> SUFFICES ASSUME NEW i \in DOMAIN position', NEW j \in DOMAIN position', i < j,
                      position'[i].out = "full", position'[j].out = "full"
               PROVE  Older(buffer'[position'[i].slot], buffer'[position'[j].slot])
    BY DEF StoredInOrder
  <2>1. i + 1 < j + 1
    BY <1>3
  <2> QED
    BY <1>1, <1>3, <2>1 DEF OrderInv, StoredInOrder
<1>5. \A b : Stored(b)' => Stored(b)
  BY <1>1, <1>3 DEF Stored
<1>6. \A b : /\ Queued(b)' <=> Queued(b)
             /\ Taken(b)' <=> Taken(b)
             /\ Pushed(b)' <=> Pushed(b)
             /\ Delivered(b)' <=> Delivered(b)
  BY <1>1, SameQueue, SamePushed, SameDelivered DEF Taken
<1>7. Ordered(queue)' /\ Ordered(delivered)'
  BY <1>1, SameQueue, SameDelivered DEF OrderInv
<1> QED
  BY <1>4, <1>5, <1>6, <1>7, OrderAfterLess

(* Shutdown drops what is stored, Start what is queued. *)
LEMMA OrderResets ==
    ASSUME SlotInv, OrderInv, Shutdown \/ Start
    PROVE  OrderInv'
<1>1. /\ position' = <<>> \/ position' = ReadTillBufferFullAsync
      /\ queue' = queue \/ queue' = <<>>
      /\ UNCHANGED <<taken, buffer, delivered, pass, made>>
  BY DEF Shutdown, Start, Close, ReOpen
<1>2. \A i \in DOMAIN position' : position'[i].out # "full"
  BY <1>1, AllReadsAre
<1>3. StoredInOrder' /\ \A b : ~ Stored(b)'
  BY <1>2, NothingStored
<1>4. Ordered(queue)' /\ \A b : Queued(b)' => Queued(b)
  <2>1. CASE queue' = <<>>
    BY <2>1 DEF Ordered, Queued
  <2> QED
    BY <1>1, <2>1, SameQueue DEF OrderInv
<1>5. \A b : /\ Taken(b)' <=> Taken(b)
             /\ Pushed(b)' <=> Pushed(b)
             /\ Delivered(b)' <=> Delivered(b)
  BY <1>1, SamePushed, SameDelivered DEF Taken
<1>6. Ordered(delivered)'
  BY <1>1, SameDelivered DEF OrderInv
<1> QED
  BY <1>3, <1>4, <1>5, <1>6, OrderAfterLess

LEMMA OrderQuiet ==
    ASSUME OrderInv, UNCHANGED <<queue, position, taken, buffer, delivered, pass, made>>
    PROVE  OrderInv'
<1>1. Ordered(delivered)' /\ StoredInOrder' /\ Ordered(queue)'
  BY SameDelivered, SameQueue, SameStored DEF OrderInv
<1>2. \A b : /\ Delivered(b)' <=> Delivered(b)
             /\ Stored(b)' <=> Stored(b)
             /\ Queued(b)' <=> Queued(b)
             /\ Taken(b)' <=> Taken(b)
             /\ Pushed(b)' <=> Pushed(b)
  BY SameDelivered, SameQueue, SameStored, SamePushed DEF Taken
<1> QED
  BY <1>1, <1>2, OrderAfterLess

LEMMA OrderNextInv == SlotInv /\ OrderInv /\ [PipelineNext]_pipelineVars => OrderInv'
<1> SUFFICES ASSUME SlotInv, OrderInv, [PipelineNext]_pipelineVars PROVE OrderInv'
  OBVIOUS
<1>1. ASSUME \/ RunStep \/ ReadEnds \/ SetExited \/ Join \/ ResetEarly
             \/ CallPush \/ ProviderEnds \/ UNCHANGED pipelineVars
      PROVE  UNCHANGED <<queue, position, taken, buffer, delivered, pass, made>>
  BY <1>1 DEF RunStep, ReadEnds, SetExited, Join, ResetEarly, CallPush, ProviderEnds, Close,
              pipelineVars, pythonVars, bufferVars, queueVars
<1> QED
  BY <1>1, OrderQuiet, OrderStartPass, OrderPush, OrderReceives, OrderStores, OrderNext, OrderSkips,
     OrderResets DEF PipelineNext, MainStep, ProviderStep, PoolStep

(* No batch is delivered twice and none after a later one, whatever is reset *)
(* and when, and whatever old providers and old reads still do.              *)
THEOREM NothingReplayed == PipelineSpec => []NoReplay
<1>1. PipelineInit => OrderInv
  <2> SUFFICES ASSUME PipelineInit PROVE OrderInv
    OBVIOUS
  <2>1. \A i \in DOMAIN position : position[i].out # "full"
    BY AllReadsAre DEF PipelineInit
  <2> QED
    BY <2>1 DEF PipelineInit, OrderInv, Ordered, StoredInOrder, Delivered, Stored, Taken, Queued
<1>2. OrderInv => NoReplay
  BY DEF OrderInv, Ordered, NoReplay
<1> QED
  BY <1>1, <1>2, SlotInvariant, OrderNextInv, PTL DEF PipelineSpec

-----------------------------------------------------------------------------
(* Whole passes. *)

LEMMA PlannedIs ==
    ASSUME NEW p \in Nat \ {0}, NEW m \in 0..(PassBatches - 1)
    PROVE  Planned((p - 1) * PassBatches + m + 1) = [pass |-> p, n |-> m + 1]
<1>0. PICK P \in Nat \ {0} : P = PassBatches
  BY Numbers
<1>1. PICK x \in Nat : x = (p - 1) * P + m
  BY <1>0
<1> DEFINE q == x \div P
           r == x % P
<1>2. q \in Int /\ r \in 0..(P - 1) /\ x = P * q + r
  BY <1>0
<1> HIDE DEF q, r
<1>3. P * (q - (p - 1)) = m - r
  BY <1>0, <1>1, <1>2
<1>4. PICK d \in Int : d = q - (p - 1)
  BY <1>2
<1>5. d = 0
  <2>1. P * d < P /\ P * d > -P
    BY <1>0, <1>2, <1>3, <1>4
  <2>2. d >= 1 => P * d >= P
    BY <1>0, <1>4
  <2>3. d <= -1 => P * d <= -P
    BY <1>0, <1>4
  <2> QED
    BY <1>0, <1>4, <2>1, <2>2, <2>3
<1>6. q = p - 1 /\ r = m
  BY <1>0, <1>2, <1>3, <1>4, <1>5
<1>7. (p - 1) * PassBatches + m + 1 - 1 = x
  BY <1>0, <1>1
<1> QED
  BY <1>0, <1>6, <1>7 DEF Planned, q, r

LEMMA MadeIs ==
    ASSUME SlotInv
    PROVE  /\ Made \in Nat
           /\ pass > 0 => Made = (pass - 1) * PassBatches + made
           /\ (pass > 0 => made = PassBatches) => Made = pass * PassBatches
<1>1. PassBatches \in Nat /\ pass \in Nat /\ made \in Nat
  BY Numbers DEF SlotInv, ThreadTypes
<1>2. CASE pass = 0
  BY <1>1, <1>2 DEF Made
<1>3. CASE pass > 0
  <2>1. Made = (pass - 1) * PassBatches + made
    BY <1>1, <1>3 DEF Made
  <2>2. (pass - 1) * PassBatches \in Nat /\ (pass - 1) * PassBatches + PassBatches = pass * PassBatches
    BY <1>1, <1>3
  <2> QED
    BY <1>1, <1>3, <2>1, <2>2
<1> QED
  BY <1>1, <1>2, <1>3

LEMMA SamePlaces ==
    ASSUME UNCHANGED <<position, buffer, taken, queue, delivered, pass, made>>, NEW f
    PROVE  Places(f)' <=> Places(f)
<1>1. Made' = Made /\ InHand' = InHand
  BY DEF Made, InHand
<1> HIDE DEF Made, InHand
<1> QED
  BY <1>1 DEF Places

(* Steps that move no batch. *)
LEMMA WholeQuiet ==
    ASSUME SlotInv, Whole, BufferSize >= 2,
           \/ RunStep \/ SetExited \/ Join \/ CallPush \/ ProviderEnds \/ ReadEnds
           \/ UNCHANGED pipelineVars
    PROVE  Whole'
<1>1. UNCHANGED <<position, buffer, taken, queue, delivered, pass, made, orphans, prev>>
  BY DEF RunStep, SetExited, Join, CallPush, ProviderEnds, ReadEnds, Close,
         pipelineVars, pythonVars, bufferVars, queueVars
<1>2. \A f : Places(f)' <=> Places(f)
  BY <1>1, SamePlaces
<1>3. (\E f \in 0..Len(position) : Places(f))'
  BY <1>1, <1>2 DEF Whole
<1>4. InPlan'
  BY <1>1 DEF Whole, InPlan
<1>5. Reads' = Reads /\ Reads \in Nat
  BY <1>1 DEF Reads, SlotInv, BufferInv, BufferTypes
<1>6. position = <<>> => Reads <= 1
  BY DEF Reads
<1>7. Ends /\ BufferSize \in Nat /\ ThreadTypes
  BY Numbers DEF Whole, SlotInv
<1> HIDE DEF Reads, Pending
<1>8. Ends'
  <2>1. CASE RunStep
    BY <1>1, <1>5, <1>7, <2>1 DEF RunStep, Ends, Drained, queueVars, Pending
  <2>2. CASE SetExited
    BY <1>1, <1>5, <1>7, <2>2 DEF SetExited, Ends, Drained, queueVars, Pending
  <2>3. CASE Join
    BY <1>1, <1>5, <1>7, <2>3 DEF Join, Ends, Drained, queueVars, Pending
  <2>4. CASE CallPush
    BY <1>1, <1>5, <1>7, <2>4 DEF CallPush, Ends, Drained, queueVars, Pending
  <2>5. CASE ProviderEnds
    BY <1>1, <1>5, <1>7, <2>5 DEF ProviderEnds, Close, Ends, Drained, queueVars, Pending
  <2>6. CASE ReadEnds
    BY <1>1, <1>5, <1>6, <1>7, <2>6 DEF ReadEnds, Ends, Drained, queueVars, Pending
  <2>7. CASE UNCHANGED pipelineVars
    BY <1>1, <1>5, <1>7, <2>7 DEF pipelineVars, pythonVars, queueVars, Ends, Drained, Pending
  <2> QED
    BY <2>1, <2>2, <2>3, <2>4, <2>5, <2>6, <2>7
<1> QED
  BY <1>1, <1>3, <1>4, <1>8 DEF Whole

(* A new pass: all batches of the last one were delivered. *)
LEMMA WholeStartPass ==
    ASSUME SlotInv, Whole, StartPass
    PROVE  Whole'
<1>1. /\ UNCHANGED <<queue, closed, position, orphans, taken, buffer, prev, exited, delivered>>
      /\ main = "between" /\ main' = "training" /\ pass' = pass + 1 /\ made' = 0
  BY DEF StartPass, queueVars, bufferVars
<1>2. Ends /\ orphans = <<>> /\ InPlan
  BY DEF Whole
<1>3. ~closed /\ prev = 0 /\ Len(position) = BufferSize /\ taken = NoBatch
      /\ queue = <<>> /\ (pass > 0 => made = PassBatches) /\ \A j \in DOMAIN position : Pending(j)
  BY <1>1, <1>2 DEF Ends
<1>4. Made' = Made
  <2>1. Made = pass * PassBatches
    BY <1>3, MadeIs
  <2>2. pass \in Nat /\ PassBatches \in Nat
    BY Numbers DEF SlotInv, ThreadTypes
  <2>3. pass' - 1 = pass /\ made' = 0 /\ pass' # 0 /\ pass * PassBatches \in Nat
    BY <1>1, <2>2
  <2>4. Made' = (pass' - 1) * PassBatches + made'
    BY <2>3 DEF Made
  <2>5. Made' = pass * PassBatches + 0
    BY <2>3, <2>4
  <2> QED
    BY <2>1, <2>3, <2>5
<1>5. InHand' = InHand
  BY <1>1 DEF InHand
<1> HIDE DEF Made, InHand
<1>6. \A f : Places(f) => Places(f)'
  BY <1>1, <1>4, <1>5 DEF Places
<1>7. Reads' = BufferSize
  BY <1>1, <1>3, Numbers DEF Reads
<1> HIDE DEF Reads
<1>8. Ends'
  BY <1>1, <1>2, <1>3, <1>7 DEF Ends, Pending
<1> QED
  BY <1>1, <1>2, <1>6, <1>8 DEF Whole, InPlan

LEMMA PlaceNumbers ==
    ASSUME SlotInv, Whole
    PROVE  /\ Len(delivered) \in Nat /\ Len(queue) \in Nat /\ Len(position) \in Nat
           /\ DOMAIN delivered = 1..Len(delivered) /\ DOMAIN queue = 1..Len(queue)
           /\ DOMAIN position = 1..Len(position)
           /\ InHand \in {0, 1} /\ (taken = NoBatch <=> InHand = 0)
BY DEF SlotInv, BufferInv, BufferTypes, ThreadTypes, InHand

(* The provider pushes the next batch of the plan. *)
LEMMA WholePush ==
    ASSUME SlotInv, Whole, Push
    PROVE  Whole'
<1>0. PICK x : x = [pass |-> pass, n |-> made + 1]
  OBVIOUS
<1>1. /\ UNCHANGED <<closed, position, orphans, taken, buffer, prev, exited, main, pass, delivered>>
      /\ provider = "push" /\ provider' = "python" /\ made' = made + 1 /\ Send(x)
  BY <1>0 DEF Push, Send, bufferVars
<1>2. Ends /\ orphans = <<>> /\ InPlan
  BY DEF Whole
<1>3. ~closed /\ main \in {"training", "reading"} /\ ~Drained
  BY <1>1, <1>2 DEF Ends, Drained, SlotInv, ThreadTypes
<1>4. pass \in 1..MaxPasses /\ made \in 0..(PassBatches - 1) /\ x \in Batch
  BY <1>0, <1>1, <1>3, Numbers DEF SlotInv, ThreadTypes, ThreadsKnown, Batch
<1>5. x = Planned(Made + 1)
  <2>1. Made = (pass - 1) * PassBatches + made
    BY <1>4, MadeIs, Numbers
  <2> QED
    BY <1>0, <1>4, <2>1, PlannedIs, Numbers
<1>6. Made' = Made + 1 /\ Made \in Nat
  <2>1. Made \in Nat /\ Made = (pass - 1) * PassBatches + made
    BY <1>4, MadeIs, Numbers
  <2>2. Made' = (pass - 1) * PassBatches + (made + 1)
    BY <1>1, <1>4, Numbers DEF Made
  <2>3. (pass - 1) * PassBatches \in Int
    BY <1>4, Numbers
  <2> QED
    BY <1>4, <2>1, <2>2, <2>3
<1>7. InHand' = InHand
  BY <1>1 DEF InHand
<1>8. /\ Len(queue') = Len(queue) + 1 /\ DOMAIN queue' = 1..(Len(queue) + 1)
      /\ \A q \in 1..Len(queue) : queue'[q] = queue[q]
      /\ queue'[Len(queue) + 1] = x
  BY <1>1, <1>3, <1>4, AppendTo DEF Send, SlotInv, ThreadTypes
<1> HIDE DEF Made, InHand
<1>9. ASSUME NEW f \in 0..Len(position), Places(f) PROVE Places(f)'
  <2>1. Len(delivered) + f + InHand + Len(queue) = Made
    BY <1>9 DEF Places
  <2>2. \A q \in DOMAIN queue' : queue'[q] = Planned(Len(delivered) + f + InHand + q)
    <3> SUFFICES ASSUME NEW q \in 1..(Len(queue) + 1)
                 PROVE  queue'[q] = Planned(Len(delivered) + f + InHand + q)
      BY <1>8
    <3>1. CASE q \in 1..Len(queue)
      BY <1>8, <1>9, <3>1, PlaceNumbers DEF Places
    <3>2. CASE q = Len(queue) + 1
      <4>1. Len(delivered) + f + InHand + q = Made + 1
        BY <2>1, <3>2, PlaceNumbers
      <4> QED
        BY <1>5, <1>8, <3>2, <4>1
    <3> QED
      BY <3>1, <3>2, PlaceNumbers
  <2>3. Len(delivered) + f + InHand + Len(queue') = Made'
    BY <1>6, <1>8, <2>1, PlaceNumbers
  <2> QED
    BY <1>1, <1>7, <1>9, <2>2, <2>3 DEF Places
<1>10. (\E f \in 0..Len(position) : Places(f))'
  BY <1>1, <1>9 DEF Whole
<1>11. Reads' = Reads
  BY <1>1 DEF Reads
<1> HIDE DEF Reads
<1>12. Ends'
  BY <1>1, <1>2, <1>3, <1>11 DEF Ends, Drained, Pending
<1> QED
  BY <1>1, <1>2, <1>10, <1>12 DEF Whole, InPlan

(* The pool's thread takes the next batch, or finds that there is none. *)
LEMMA WholeReceives ==
    ASSUME SlotInv, Whole, TaskReceives
    PROVE  Whole'
<1>1. /\ taken = NoBatch /\ PoolTasks # <<>> /\ Receive(taken') /\ BufferTypes /\ BufferInv
      /\ UNCHANGED <<closed, prev, provider, made, exited, main, pass, delivered>>
  BY DEF TaskReceives, Receive, pythonVars, SlotInv, BufferInv
<1>2. Ends /\ orphans = <<>> /\ InPlan
  BY DEF Whole
<1>3. Made' = Made
  BY <1>1 DEF Made
<1> HIDE DEF Made
<1>4. CASE taken' # NoBatch
  <2>1. /\ queue # <<>> /\ taken' = Head(queue) /\ queue' = Tail(queue)
        /\ UNCHANGED <<position, orphans, buffer>>
    BY <1>1, <1>4 DEF TaskReceives, Receive
  <2>2. /\ taken' = queue[1] /\ 1 \in DOMAIN queue /\ Len(queue') = Len(queue) - 1 /\ DOMAIN queue' = 1..(Len(queue) - 1)
        /\ \A q \in 1..(Len(queue) - 1) : queue'[q] = queue[q + 1]
    BY <2>1, TailOf DEF SlotInv, ThreadTypes
  <2>3. InHand = 0 /\ InHand' = 1
    BY <1>1, <1>4 DEF InHand
  <2>4. ASSUME NEW f \in 0..Len(position), Places(f) PROVE Places(f)'
    <3>1. taken' = Planned(Len(delivered) + f + 1)
      BY <2>2, <2>3, <2>4, PlaceNumbers DEF Places
    <3>2. \A q \in DOMAIN queue' : queue'[q] = Planned(Len(delivered) + f + InHand' + q)
      <4> SUFFICES ASSUME NEW q \in 1..(Len(queue) - 1)
                   PROVE  queue'[q] = Planned(Len(delivered) + f + InHand' + q)
        BY <2>2
      <4>1. queue'[q] = queue[q + 1] /\ q + 1 \in DOMAIN queue
        BY <2>2, PlaceNumbers
      <4>2. Len(delivered) + f + InHand + (q + 1) = Len(delivered) + f + InHand' + q
        BY <2>3, PlaceNumbers
      <4>3. queue[q + 1] = Planned(Len(delivered) + f + InHand + (q + 1))
        BY <2>4, <4>1 DEF Places
      <4> QED
        BY <4>1, <4>2, <4>3
    <3>3. Len(delivered) + f + InHand' + Len(queue') = Made'
      BY <1>3, <2>2, <2>3, <2>4, PlaceNumbers DEF Places
    <3> QED
      BY <1>1, <2>1, <2>4, <3>1, <3>2, <3>3 DEF Places
  <2>5. (\E f \in 0..Len(position) : Places(f))'
    BY <2>1, <2>4 DEF Whole
  <2>6. Reads' = Reads
    BY <1>1, <2>1 DEF Reads
  <2> HIDE DEF Reads
  <2>7. Ends'
    BY <1>1, <1>2, <2>1, <2>6 DEF Ends, Drained, Pending
  <2> QED
    BY <1>1, <1>2, <2>1, <2>5, <2>7 DEF Whole, InPlan
<1>5. CASE taken' = NoBatch
  <2>1. queue = <<>> /\ closed /\ queue' = queue /\ FinishTask("eof") /\ Emptied(Head(PoolTasks))
    <3>1. queue # <<>> => Head(queue) \in Batch
      BY TailOf DEF SlotInv, ThreadTypes
    <3> QED
      BY <1>1, <1>5, <3>1, Numbers DEF TaskReceives, Receive
  <2>2. PICK k \in DOMAIN position : FinishesRead(k, "eof")
    BY <1>1, <1>2, <2>1, FinishIs DEF FinishesOrphan
  <2>0. \A i \in DOMAIN position : position[i].out = "full"
            => buffer'[position[i].slot] = buffer[position[i].slot]
    BY <1>1, <2>1, EmptiesUnused
  <2> USE DEF FinishesRead
  <2>3. InHand' = InHand
    BY <1>1, <1>5 DEF InHand
  <2>4. position[k].out = "pending"
    BY <2>2 DEF Pending
  <2>5. ASSUME NEW f \in 0..Len(position), Places(f) PROVE Places(f)'
    <3>1. ~(k <= f) /\ \A j \in 1..f : j \in DOMAIN position \ {k}
      BY <2>4, <2>5, PlaceNumbers DEF Places
    <3>2. \A j \in DOMAIN position' : j <= f <=> position'[j].out = "full"
      BY <2>2, <2>5, <3>1 DEF Places
    <3>3. \A j \in 1..f : buffer'[position'[j].slot] = Planned(Len(delivered) + j)
      <4> SUFFICES ASSUME NEW j \in 1..f
                   PROVE  buffer'[position'[j].slot] = Planned(Len(delivered) + j)
        OBVIOUS
      <4>1. j \in DOMAIN position /\ position'[j] = position[j]
        BY <2>2, <3>1
      <4>2. position[j].out = "full" /\ buffer[position[j].slot] = Planned(Len(delivered) + j)
        BY <2>5, <4>1 DEF Places
      <4> QED
        BY <1>1, <2>0, <4>1, <4>2
    <3> QED
      BY <1>1, <1>3, <1>5, <2>1, <2>3, <2>5, <3>2, <3>3 DEF Places
  <2>6. (\E f \in 0..Len(position) : Places(f))'
    BY <2>2, <2>5 DEF Whole
  <2>7. Reads' = Reads
    BY <1>1, <2>2 DEF Reads
  <2>8. Drained /\ Drained'
    BY <1>1, <1>5, <2>1 DEF Drained
  <2>9. position # <<>>
    BY <2>2
  <2> HIDE DEF Reads, FinishesRead
  <2>10. Ends'
    BY <1>1, <1>2, <2>1, <2>7, <2>8, <2>9 DEF Ends, Pending
  <2>11. orphans' = <<>>
    BY <2>2 DEF FinishesRead
  <2> QED
    BY <1>1, <1>2, <2>6, <2>10, <2>11 DEF Whole, InPlan
<1> QED
  BY <1>4, <1>5

(* The pool's thread stores its batch behind the ones already stored. *)
LEMMA WholeStores ==
    ASSUME SlotInv, Whole, TaskStores
    PROVE  Whole'
<1>1. /\ taken # NoBatch /\ taken' = NoBatch /\ FinishTask("full") /\ BufferTypes /\ SlotsApart
      /\ buffer' = [buffer EXCEPT ![Head(PoolTasks)] = taken] /\ TakenForTask
      /\ UNCHANGED <<queue, closed, prev, provider, made, exited, main, pass, delivered>>
  BY DEF TaskStores, queueVars, pythonVars, SlotInv, BufferInv
<1>2. Ends /\ orphans = <<>> /\ InPlan
  BY DEF Whole
<1>3. Made' = Made /\ InHand = 1 /\ InHand' = 0
  BY <1>1 DEF Made, InHand
<1> HIDE DEF Made, InHand
<1>4. PoolTasks # <<>>
  <2>1. position \in Seq(Read) /\ orphans \in Seq(Slots)
    BY <1>1 DEF BufferTypes
  <2>2. FirstPending # 0
    BY <1>1, <1>2, <2>1, FirstOfPending DEF TakenForTask
  <2> QED
    BY <1>2, <2>1, <2>2, TasksOf
<1>5. PICK k \in DOMAIN position : FinishesRead(k, "full") /\ Head(PoolTasks) = position[k].slot
  BY <1>1, <1>2, <1>4, FinishIs DEF FinishesOrphan
<1>6. position \in Seq(Read) /\ \A j \in DOMAIN position : position[j] \in Read /\ position[j].slot \in Slots
  BY <1>1, InFlightTypes DEF BufferTypes
<1>7. /\ buffer'[position[k].slot] = taken
      /\ \A j \in DOMAIN position \ {k} : buffer'[position[j].slot] = buffer[position[j].slot]
  <2>1. \A j \in DOMAIN position \ {k} : position[j].slot # position[k].slot
    BY <1>1 DEF SlotsApart
  <2> QED
    BY <1>1, <1>5, <1>6, <2>1 DEF BufferTypes
<1>8. \A j \in DOMAIN position : position[j].out # "eof"
  BY <1>1, <1>2 DEF Ends, Drained
<1>9. \A j \in DOMAIN position : Pending(j) <=> position[j].out # "full"
  BY <1>6, <1>8 DEF Pending, Read
<1>10. ASSUME NEW f \in 0..Len(position), Places(f)
       PROVE  f + 1 \in 0..Len(position) /\ Places(f + 1)'
  <2>1. k = f + 1
    <3>1. ~(k <= f)
      BY <1>5, <1>9, <1>10 DEF Places, FinishesRead
    <3>2. ASSUME f + 1 < k PROVE FALSE
      <4>1. f + 1 \in DOMAIN position /\ ~(f + 1 <= f)
        BY <3>2, PlaceNumbers
      <4>2. Pending(f + 1)
        BY <1>9, <1>10, <4>1 DEF Places
      <4> QED
        BY <1>5, <3>2, <4>1, <4>2 DEF FinishesRead
    <3> QED
      BY <3>1, <3>2, PlaceNumbers
  <2>2. DOMAIN position' = DOMAIN position /\ Len(position') = Len(position)
    BY <1>5 DEF FinishesRead
  <2>3. \A j \in DOMAIN position' : j <= f + 1 <=> position'[j].out = "full"
    <3> SUFFICES ASSUME NEW j \in DOMAIN position
                 PROVE  j <= f + 1 <=> position'[j].out = "full"
      BY <2>2
    <3>1. CASE j = k
      BY <1>5, <2>1, <3>1, PlaceNumbers DEF FinishesRead
    <3>2. CASE j # k
      <4>1. position'[j] = position[j]
        BY <1>5, <3>2 DEF FinishesRead
      <4>2. j <= f <=> j <= f + 1
        BY <2>1, <3>2, PlaceNumbers
      <4> QED
        BY <1>10, <4>1, <4>2 DEF Places
    <3> QED
      BY <3>1, <3>2
  <2>4. \A j \in 1..(f + 1) : buffer'[position'[j].slot] = Planned(Len(delivered) + j)
    <3> SUFFICES ASSUME NEW j \in 1..(f + 1)
                 PROVE  buffer'[position'[j].slot] = Planned(Len(delivered) + j)
      OBVIOUS
    <3>1. CASE j = f + 1
      <4>1. taken = Planned(Len(delivered) + j)
        <5>1. taken = Planned(Len(delivered) + f + 1)
          BY <1>1, <1>10 DEF Places
        <5>2. Len(delivered) + f + 1 = Len(delivered) + j
          BY <3>1, PlaceNumbers
        <5> QED
          BY <5>1, <5>2
      <4> QED
        BY <1>5, <1>7, <2>1, <3>1, <4>1 DEF FinishesRead
    <3>2. CASE j # f + 1
      <4>1. j \in 1..f /\ j \in DOMAIN position \ {k}
        BY <2>1, <3>2, PlaceNumbers
      <4>2. position'[j] = position[j]
        BY <1>5, <4>1 DEF FinishesRead
      <4> QED
        BY <1>7, <1>10, <4>1, <4>2 DEF Places
    <3> QED
      BY <3>1, <3>2
  <2>5. \A q \in DOMAIN queue' : queue'[q] = Planned(Len(delivered) + (f + 1) + InHand' + q)
    <3> SUFFICES ASSUME NEW q \in DOMAIN queue
                 PROVE  queue[q] = Planned(Len(delivered) + (f + 1) + InHand' + q)
      BY <1>1
    <3>1. Len(delivered) + (f + 1) + InHand' + q = Len(delivered) + f + InHand + q
      BY <1>3, PlaceNumbers
    <3> QED
      BY <1>10, <3>1 DEF Places
  <2>6. Len(delivered) + (f + 1) + InHand' + Len(queue') = Made'
    BY <1>1, <1>3, <1>10, PlaceNumbers DEF Places
  <2>7. f + 1 \in 0..Len(position)
    BY <2>1, PlaceNumbers
  <2> QED
    BY <1>1, <2>3, <2>4, <2>5, <2>6, <2>7 DEF Places
<1>11. (\E f \in 0..Len(position) : Places(f))'
  <2>1. Len(position') = Len(position)
    BY <1>5 DEF FinishesRead
  <2> QED
    BY <1>10, <2>1 DEF Whole
<1>12. Reads' = Reads
  BY <1>1, <1>5 DEF Reads, FinishesRead
<1>13. ~(\E j \in DOMAIN position' : position'[j].out = "eof")
  BY <1>5, <1>8 DEF FinishesRead
<1>14. ~Drained /\ position # <<>> /\ main \in {"training", "reading"}
  BY <1>1, <1>2 DEF Drained, Ends, SlotInv, ThreadTypes
<1> HIDE DEF Reads
<1>15. Ends'
  BY <1>1, <1>2, <1>12, <1>13, <1>14 DEF Ends
<1>16. orphans' = <<>> /\ InPlan'
  BY <1>1, <1>2, <1>5 DEF FinishesRead, InPlan
<1> QED
  BY <1>11, <1>15, <1>16 DEF Whole

(* The oldest stored batch is delivered: it is the next one of the plan. *)
LEMMA WholeNext ==
    ASSUME SlotInv, Whole, ReadNext
    PROVE  Whole'
<1> DEFINE n == Len(position)
           d == Len(delivered)
<1>0. PICK x : x = buffer[position[1].slot]
  OBVIOUS
<1>1. /\ BufferInv /\ position \in Seq(Read) /\ delivered \in Seq(Batch) /\ prev \in 0..BufferSize
      /\ main = "reading" /\ main' = "training"
      /\ UNCHANGED <<provider, made, exited, pass>>
  BY DEF SlotInv, BufferInv, BufferTypes, ReadNext
<1>2. /\ position # <<>> /\ position[1].out = "full" /\ x \in Batch
      /\ delivered' = Append(delivered, x) /\ prev' = position[1].slot /\ position[1].slot \in Slots
      /\ \/ prev = 0 /\ position' = Tail(position)
         \/ prev # 0 /\ position' = Tail(position) \o <<[slot |-> prev, out |-> "pending"]>>
      /\ UNCHANGED <<orphans, taken, buffer, queue, closed>>
  BY <1>0, <1>1, ReadNextIs
<1>3. /\ n \in Nat /\ n >= 1 /\ DOMAIN position = 1..n /\ d \in Nat /\ DOMAIN delivered = 1..d
      /\ Tail(position) \in Seq(Read) /\ Len(Tail(position)) = n - 1
      /\ DOMAIN Tail(position) = 1..(n - 1)
      /\ \A i \in 1..(n - 1) : Tail(position)[i] = position[i + 1]
      /\ Len(delivered') = d + 1 /\ DOMAIN delivered' = 1..(d + 1)
      /\ \A i \in 1..d : delivered'[i] = delivered[i]
      /\ delivered'[d + 1] = x
  BY <1>1, <1>2, TailOf, AppendTo
<1> HIDE DEF n, d
<1>4. /\ Len(position') = (IF prev = 0 THEN n - 1 ELSE n) /\ DOMAIN position' = 1..Len(position')
      /\ \A i \in 1..(n - 1) : position'[i] = position[i + 1]
      /\ prev # 0 => position'[n].out = "pending"
  <2>1. CASE prev = 0
    BY <1>2, <1>3, <2>1
  <2>2. CASE prev # 0
    <3> DEFINE r == [slot |-> prev, out |-> "pending"]
               tl == Tail(position)
    <3>1. r \in Read /\ r.out = "pending"
      BY <1>1, <2>2, Numbers DEF Read
    <3>2. /\ tl \in Seq(Read) /\ Len(tl) = n - 1 /\ \A i \in 1..(n - 1) : tl[i] = position[i + 1]
          /\ position' = tl \o <<r>>
      BY <1>2, <1>3, <2>2
    <3> HIDE DEF r, tl
    <3>3. /\ DOMAIN (tl \o <<r>>) = 1..(Len(tl) + 1) /\ Len(tl \o <<r>>) = Len(tl) + 1
          /\ \A i \in 1..Len(tl) : (tl \o <<r>>)[i] = tl[i]
          /\ (tl \o <<r>>)[Len(tl) + 1] = r
      BY <3>1, <3>2, ConcatOne
    <3>4. Len(tl) + 1 = n
      BY <1>3, <3>2
    <3> QED
      BY <2>2, <3>1, <3>2, <3>3, <3>4
  <2> QED
    BY <2>1, <2>2
<1>5. Made' = Made /\ InHand' = InHand
  BY <1>1, <1>2 DEF Made, InHand
<1> HIDE DEF Made, InHand
<1>6. Ends /\ orphans = <<>> /\ InPlan
  BY DEF Whole
<1>7. PICK f \in 0..n : Places(f)
  BY DEF Whole, n
<1>8. f \in 1..n /\ x = Planned(d + 1)
  <2>1. 1 <= f
    BY <1>2, <1>3, <1>7 DEF Places
  <2> QED
    BY <1>0, <1>3, <1>7, <2>1 DEF Places, d
<1>9. InPlan'
  <2> SUFFICES ASSUME NEW k \in 1..(d + 1) PROVE delivered'[k] = Planned(k)
    BY <1>3 DEF InPlan
  <2>1. CASE k = d + 1
    BY <1>3, <1>8, <2>1
  <2>2. CASE k # d + 1
    <3>1. k \in 1..d
      BY <1>3, <2>2
    <3> QED
      BY <1>3, <1>6, <3>1 DEF InPlan
  <2> QED
    BY <2>1, <2>2
<1>10. Places(f - 1)'
  <2>1. \A j \in DOMAIN position' : j <= f - 1 <=> position'[j].out = "full"
    <3> SUFFICES ASSUME NEW j \in DOMAIN position'
                 PROVE  j <= f - 1 <=> position'[j].out = "full"
      OBVIOUS
    <3>1. CASE j \in 1..(n - 1)
      <4>1. position'[j] = position[j + 1] /\ j + 1 \in DOMAIN position
        BY <1>3, <1>4, <3>1
      <4>2. j + 1 <= f <=> position[j + 1].out = "full"
        BY <1>7, <4>1 DEF Places
      <4>3. j + 1 <= f <=> j <= f - 1
        BY <1>3, <1>8, <3>1
      <4> QED
        BY <4>1, <4>2, <4>3
    <3>2. CASE ~(j \in 1..(n - 1))
      <4>1. j = n /\ prev # 0
        BY <1>3, <1>4, <3>2
      <4> QED
        BY <1>3, <1>4, <1>8, <4>1
    <3> QED
      BY <3>1, <3>2
  <2>2. \A j \in 1..(f - 1) : buffer'[position'[j].slot] = Planned(Len(delivered') + j)
    <3> SUFFICES ASSUME NEW j \in 1..(f - 1)
                 PROVE  buffer'[position'[j].slot] = Planned(Len(delivered') + j)
      OBVIOUS
    <3>1. position'[j] = position[j + 1] /\ j + 1 \in 1..f
      BY <1>3, <1>4, <1>8
    <3>2. Len(delivered') + j = Len(delivered) + (j + 1)
      BY <1>3 DEF d
    <3> QED
      BY <1>2, <1>7, <3>1, <3>2 DEF Places
  <2>3. /\ Len(delivered') + (f - 1) + 1 = Len(delivered) + f + 1
        /\ \A q \in DOMAIN queue :
             Len(delivered') + (f - 1) + InHand' + q = Len(delivered) + f + InHand + q
        /\ Len(delivered') + (f - 1) + InHand' + Len(queue') = Len(delivered) + f + InHand + Len(queue)
    BY <1>2, <1>3, <1>5, <1>8, PlaceNumbers DEF d
  <2>4. taken' # NoBatch => taken' = Planned(Len(delivered') + (f - 1) + 1)
    BY <1>2, <1>7, <2>3 DEF Places
  <2>5. \A q \in DOMAIN queue' : queue'[q] = Planned(Len(delivered') + (f - 1) + InHand' + q)
    BY <1>2, <1>7, <2>3 DEF Places
  <2>6. Len(delivered') + (f - 1) + InHand' + Len(queue') = Made'
    BY <1>5, <1>7, <2>3 DEF Places
  <2> QED
    BY <2>1, <2>2, <2>4, <2>5, <2>6 DEF Places
<1>11. f - 1 \in 0..Len(position')
  BY <1>3, <1>4, <1>8
<1>12. Reads' = Reads
  <2>1. prev' # 0
    BY <1>2, Numbers
  <2>2. Reads' = Len(position') + 1
    BY <2>1 DEF Reads
  <2>3. Reads = n + (IF prev = 0 THEN 0 ELSE 1)
    BY DEF Reads, n
  <2> QED
    BY <1>3, <1>4, <2>2, <2>3
<1>13. ASSUME NEW j \in DOMAIN position', position'[j].out = "eof"
       PROVE  \E i \in DOMAIN position : position[i].out = "eof"
  <2>1. j \in 1..(n - 1)
    BY <1>3, <1>4, <1>13
  <2>2. j + 1 \in DOMAIN position /\ position[j + 1].out = "eof"
    BY <1>3, <1>4, <1>13, <2>1
  <2> QED
    BY <2>2
<1>14. Drained' <=> Drained
  BY <1>2 DEF Drained
<1> HIDE DEF Reads, Drained
<1>15. Ends'
  BY <1>1, <1>2, <1>6, <1>12, <1>13, <1>14 DEF Ends
<1> QED
  BY <1>2, <1>6, <1>9, <1>10, <1>11, <1>15 DEF Whole

(* A read that met the end is dropped. *)
LEMMA WholeSkips ==
    ASSUME SlotInv, Whole, SkipEnd
    PROVE  Whole'
<1> DEFINE n == Len(position)
<1>1. /\ position \in Seq(Read) /\ main = "reading" /\ position # <<>> /\ Head(position).out = "eof"
      /\ position' = Tail(position)
      /\ UNCHANGED <<queue, closed, orphans, taken, buffer, prev, provider, made, exited, main,
                     pass, delivered>>
  BY DEF SlotInv, BufferInv, BufferTypes, SkipEnd, queueVars, pythonVars
<1>2. /\ n \in Nat /\ n >= 1 /\ DOMAIN position = 1..n /\ position[1].out = "eof"
      /\ Len(position') = n - 1 /\ DOMAIN position' = 1..(n - 1)
      /\ \A i \in 1..(n - 1) : position'[i] = position[i + 1]
  BY <1>1, TailOf
<1> HIDE DEF n
<1>3. Ends /\ orphans = <<>> /\ InPlan
  BY DEF Whole
<1>4. Drained /\ Drained'
  BY <1>1, <1>2, <1>3 DEF Ends, Drained
<1>5. Made' = Made /\ InHand' = InHand
  BY <1>1 DEF Made, InHand
<1> HIDE DEF Made, InHand
<1>6. PICK f \in 0..n : Places(f)
  BY DEF Whole, n
<1>7. f = 0
  BY <1>2, <1>6 DEF Places
<1>8. \A j \in DOMAIN position' : position'[j].out # "full"
  <2> SUFFICES ASSUME NEW j \in 1..(n - 1) PROVE position'[j].out # "full"
    BY <1>2
  <2>1. position'[j] = position[j + 1] /\ j + 1 \in DOMAIN position /\ ~(j + 1 <= f)
    BY <1>2, <1>7
  <2> QED
    BY <1>6, <2>1 DEF Places
<1>9. \A j \in DOMAIN position' : ~(j <= 0)
  BY <1>2
<1>10. Places(0)'
  BY <1>1, <1>5, <1>6, <1>7, <1>8, <1>9 DEF Places
<1>11. 0 \in 0..Len(position')
  BY <1>2
<1> HIDE DEF Reads
<1>12. Ends'
  BY <1>1, <1>3, <1>4 DEF Ends
<1> QED
  BY <1>1, <1>3, <1>10, <1>11, <1>12 DEF Whole, InPlan

(* Reset at the end of a pass: nothing is in the queue or in the buffer. *)
LEMMA WholeResets ==
    ASSUME SlotInv, Whole, Shutdown \/ Start
    PROVE  Whole'
<1>1. /\ main \in {"shutdown", "start"}
      /\ UNCHANGED <<taken, buffer, provider, made, exited, pass, delivered>>
  BY DEF Shutdown, Start
<1>2. Ends /\ orphans = <<>> /\ InPlan
  BY DEF Whole
<1>3. /\ position = <<>> /\ queue = <<>> /\ taken = NoBatch /\ closed
      /\ provider = "over" /\ made = PassBatches /\ ~exited
  BY <1>1, <1>2 DEF Ends, Drained
<1>4. FirstPending = 0
  BY <1>3, FirstOfPending DEF SlotInv, BufferInv, BufferTypes
<1>5. PoolTasks = <<>>
  BY <1>2, <1>4 DEF PoolTasks
<1>6. /\ queue' = <<>> /\ orphans' = <<>> /\ prev' = 0
      /\ \/ Shutdown /\ position' = <<>> /\ main' = "start" /\ closed'
         \/ Start /\ position' = ReadTillBufferFullAsync /\ main' = "exit" /\ ~closed'
  BY <1>2, <1>3, <1>5 DEF Shutdown, Start, Close, ReOpen, SlotInv, ThreadsKnown
<1>7. /\ \A j \in DOMAIN position' : position'[j].out = "pending" /\ ~(j <= 0)
      /\ Len(position') \in Nat
      /\ main' = "exit" => Len(position') = BufferSize
  <2>1. CASE position' = <<>> /\ main' = "start"
    BY <2>1
  <2>2. CASE position' = ReadTillBufferFullAsync /\ main' = "exit"
    BY <2>2, AllReadsAre, Numbers
  <2> QED
    BY <1>6, <2>1, <2>2
<1>8. Made' = Made /\ InHand' = InHand
  BY <1>1 DEF Made, InHand
<1> HIDE DEF Made, InHand
<1>9. PICK f \in 0..Len(position) : Places(f)
  BY DEF Whole
<1>10. f = 0
  BY <1>3, <1>9
<1>11. Places(0)'
  BY <1>1, <1>3, <1>6, <1>7, <1>8, <1>9, <1>10 DEF Places
<1>12. 0 \in 0..Len(position')
  BY <1>7
<1> HIDE DEF Reads
<1>13. Ends'
  BY <1>1, <1>3, <1>6, <1>7 DEF Ends, Drained, Pending
<1>14. InPlan'
  BY <1>1, <1>2 DEF InPlan
<1> QED
  BY <1>6, <1>11, <1>12, <1>13, <1>14 DEF Whole

LEMMA WholeNextInv ==
    ASSUME BufferSize >= 2
    PROVE  SlotInv /\ WholeInv /\ [PipelineNext]_pipelineVars => WholeInv'
<1> SUFFICES ASSUME SlotInv, WholeInv, [PipelineNext]_pipelineVars, early' = 0 PROVE Whole'
  BY DEF WholeInv
<1>1. ~ResetEarly
  BY DEF ResetEarly, SlotInv, ThreadTypes
<1>2. early = 0
  <2> USE DEF queueVars, bufferVars, pythonVars, pipelineVars
  <2>1. MainStep => early' = early
    BY DEF MainStep, StartPass, RunStep, SkipEnd, ReadNext, ReadEnds, Shutdown, Start, SetExited, Join
  <2>2. ProviderStep => early' = early
    BY DEF ProviderStep, CallPush, Push, ProviderEnds
  <2>3. PoolStep => early' = early
    BY DEF PoolStep, TaskReceives, TaskStores
  <2>4. UNCHANGED pipelineVars => early' = early
    OBVIOUS
  <2> HIDE DEF pipelineVars
  <2> QED
    BY <1>1, <2>1, <2>2, <2>3, <2>4 DEF PipelineNext
<1>3. Whole
  BY <1>2 DEF WholeInv
<1> QED
  BY <1>1, <1>3, WholeQuiet, WholeStartPass, WholePush, WholeReceives, WholeStores, WholeNext,
     WholeSkips, WholeResets DEF PipelineNext, MainStep, ProviderStep, PoolStep

LEMMA WholeInit == PipelineInit => WholeInv
<1> SUFFICES ASSUME PipelineInit PROVE Whole
  BY DEF WholeInv
<1>1. /\ queue = <<>> /\ delivered = <<>> /\ taken = NoBatch /\ pass = 0 /\ ~closed /\ ~exited
      /\ position = ReadTillBufferFullAsync /\ prev = 0 /\ provider = "over" /\ main = "between"
      /\ orphans = <<>>
  BY DEF PipelineInit
<1>2. /\ Len(position) = BufferSize /\ BufferSize \in Nat
      /\ \A j \in DOMAIN position : position[j].out = "pending" /\ ~(j <= 0)
  BY <1>1, AllReadsAre, Numbers
<1>3. InHand = 0 /\ Made = 0
  BY <1>1 DEF InHand, Made
<1> HIDE DEF InHand, Made
<1>4. Places(0)
  BY <1>1, <1>2, <1>3 DEF Places
<1>5. Ends
  BY <1>1, <1>2 DEF Ends, Pending
<1> QED
  BY <1>1, <1>2, <1>4, <1>5 DEF Whole, InPlan

(* With at least two buffer slots and no early reset, every batch of every  *)
(* pass is delivered in order and the read operator throws EOFException     *)
(* only after the last.  With one slot prev_pos_ keeps it for the batch in  *)
(* use and ReadNextImpl finds position_ empty at its second call.           *)
THEOREM PassesAreWhole ==
    ASSUME BufferSize >= 2
    PROVE  PipelineSpec => []WholePasses
<1>1. SlotInv /\ WholeInv => WholePasses
  <2> SUFFICES ASSUME SlotInv, Whole PROVE InPlan /\ (main = "shutdown" => Len(delivered) = pass * PassBatches)
    BY DEF WholeInv, WholePasses, InPlan
  <2>1. InPlan /\ Ends
    BY DEF Whole
  <2>2. ASSUME main = "shutdown" PROVE Len(delivered) = pass * PassBatches
    <3>1. position = <<>> /\ queue = <<>> /\ taken = NoBatch /\ made = PassBatches
      BY <2>1, <2>2 DEF Ends, Drained
    <3>2. PICK f \in 0..Len(position) : Places(f)
      BY DEF Whole
    <3>3. f = 0 /\ InHand = 0 /\ Len(queue) = 0 /\ Len(delivered) \in Nat
      BY <3>1, PlaceNumbers
    <3>4. Made = pass * PassBatches
      BY <3>1, MadeIs
    <3>5. Len(delivered) + f + InHand + Len(queue) = Made
      BY <3>2 DEF Places
    <3> QED
      BY <3>3, <3>4, <3>5
  <2> QED
    BY <2>1, <2>2
<1>2. SlotInv /\ WholeInv /\ [PipelineNext]_pipelineVars => WholeInv'
  BY WholeNextInv
<1> QED
  BY <1>1, <1>2, WholeInit, SlotInvariant, PTL DEF PipelineSpec
=============================================================================
