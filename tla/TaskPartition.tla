--------------------------- MODULE TaskPartition ---------------------------
(***************************************************************************)
(* How the master server makes tasks of a dataset: readChunks lists the    *)
(* chunks of the files, partition groups them (go/master/service.go).      *)
(* Both are functions of the files; what they compute is compared with a   *)
(* direct definition for every dataset within the bounds.                  *)
(***************************************************************************)
EXTENDS Integers, Sequences
LOCAL INSTANCE SequencesExt

\* A dataset: the number of chunks of each file the glob patterns match.
MaxFiles == 4
MaxChunks == 3
Datasets == UNION {[1..n -> 0..MaxChunks] : n \in 1..MaxFiles}

\* Values of the flag chunks_per_task, useless ones included.
PerTaskValues == {-1, 0, 1, 2, 3, 4, 10}

ChunksOfFile(files, f) == [k \in 1..files[f] |-> <<f, k - 1>>]

readChunks(files) ==
    FlattenSeq([f \in 1..Len(files) |-> ChunksOfFile(files, f)])

\* One turn of the loop of partition, i counting from zero: the task being
\* filled is closed when i reaches a multiple of chunksPerTask.
LoopBody(loop, chunk, i, chunksPerTask) ==
    IF i % chunksPerTask = 0 /\ loop.cur # <<>>
    THEN [cur |-> <<chunk>>, id |-> loop.id + 1,
          result |-> Append(loop.result, [ID |-> loop.id, Chunks |-> loop.cur])]
    ELSE [loop EXCEPT !.cur = Append(@, chunk)]

\* The tasks, with the IDs counted from their random start; the last task is
\* closed after the loop.
TasksOf(chunks, perTask) ==
    LET chunksPerTask == IF perTask <= 0 THEN 1 ELSE perTask
        loop == FoldLeft(LAMBDA l, i : LoopBody(l, chunks[i], i - 1, chunksPerTask),
                         [cur |-> <<>>, id |-> 0, result |-> <<>>],
                         [i \in 1..Len(chunks) |-> i])
    IN IF loop.cur = <<>> THEN loop.result
       ELSE Append(loop.result, [ID |-> loop.id, Chunks |-> loop.cur])

\* The tasks computed directly: runs of chunksPerTask, the last one shorter.
ReferenceTasks(chunks, c) ==
    LET n == Len(chunks)
    IN  [k \in 1..((n + c - 1) \div c) |->
            [ID |-> k - 1,
             Chunks |-> SubSeq(chunks, (k - 1) * c + 1, IF k * c > n THEN n ELSE k * c)]]

\* partition loses and repeats no chunk, keeps their order, makes no empty
\* task and gives consecutive IDs, so that the map of pending tasks never
\* confuses two; a flag of zero or below counts as one.
ASSUME PartitionCorrect ==
    \A files \in Datasets, c \in PerTaskValues :
        LET chunks == readChunks(files)
        IN  TasksOf(chunks, c) = ReferenceTasks(chunks, IF c <= 0 THEN 1 ELSE c)
=============================================================================
