------------------------- MODULE TrainingJobProofs -------------------------
(***************************************************************************)
(* Proofs about the master and the job it serves, for every number of      *)
(* tasks, trainers and passes and every failure limit.  First the master:  *)
(* its queues never lose or double a task and its handouts are fresh, with *)
(* saves that fail in every way.  Then what they are for: with a store     *)
(* that never fails the master implements TaskPool, and a training job     *)
(* goes through the whole dataset in every pass.                           *)
(***************************************************************************)
EXTENDS MasterRefinement, TrainingJob, TLAPS, FiniteSetTheorems

----------------------------------------------------------------------------
(* Queues.  What Append, Tail and \o do to the IDs and epochs in a queue.  *)

\* An appended entry is the only new one (append in processFailedTask and
\* TaskFinished).
LEMMA AppendQueue ==
    ASSUME NEW q \in Seq(TaskEntry), NEW e \in TaskEntry
    PROVE  /\ Append(q, e) \in Seq(TaskEntry)
           /\ \A id \in TaskIDs : InQueue(Append(q, e), id) <=> InQueue(q, id) \/ id = e.ID
           /\ Distinct(q) /\ ~ InQueue(q, e.ID) => Distinct(Append(q, e))
           /\ \A m \in TaskMeta : NoneOlder(q, m) /\ (e.ID = m.ID => m.Epoch <= e.Epoch)
                                    => NoneOlder(Append(q, e), m)
<1> DEFINE r == Append(q, e)
<1>1. /\ r \in Seq(TaskEntry)
      /\ Len(r) = Len(q) + 1
      /\ \A i \in 1..Len(q) : r[i] = q[i]
      /\ r[Len(q) + 1] = e
      /\ Len(q) \in Nat
      /\ e.ID \in TaskIDs
  BY DEF TaskEntry
<1> HIDE DEF r
<1>2. \A id \in TaskIDs : InQueue(r, id) <=> InQueue(q, id) \/ id = e.ID
  <2> SUFFICES ASSUME NEW id \in TaskIDs
               PROVE  InQueue(r, id) <=> InQueue(q, id) \/ id = e.ID
    OBVIOUS
  <2>1. ASSUME InQueue(r, id) PROVE InQueue(q, id) \/ id = e.ID
    BY <1>1, <2>1 DEF InQueue
  <2>2. ASSUME InQueue(q, id) PROVE InQueue(r, id)
    BY <1>1, <2>2 DEF InQueue
  <2>3. ASSUME id = e.ID PROVE InQueue(r, id)
    BY <1>1, <2>3 DEF InQueue
  <2>4. QED
    BY <2>1, <2>2, <2>3
<1>3. Distinct(q) /\ ~ InQueue(q, e.ID) => Distinct(r)
  BY <1>1 DEF Distinct, InQueue
<1>4. \A m \in TaskMeta : NoneOlder(q, m) /\ (e.ID = m.ID => m.Epoch <= e.Epoch)
                             => NoneOlder(r, m)
  BY <1>1 DEF NoneOlder
<1>5. QED
  BY <1>1, <1>2, <1>3, <1>4 DEF r

\* Taking the head off a queue removes that entry and no other (GetTask).
LEMMA TailQueue ==
    ASSUME NEW q \in Seq(TaskEntry), q # <<>>
    PROVE  /\ Head(q) \in TaskEntry
           /\ Tail(q) \in Seq(TaskEntry)
           /\ \A id \in TaskIDs : InQueue(q, id) <=> InQueue(Tail(q), id) \/ id = Head(q).ID
           /\ Distinct(q) => Distinct(Tail(q)) /\ ~ InQueue(Tail(q), Head(q).ID)
           /\ \A m \in TaskMeta : NoneOlder(q, m) =>
                 NoneOlder(Tail(q), m) /\ (Head(q).ID = m.ID => m.Epoch <= Head(q).Epoch)
<1> DEFINE r == Tail(q)
           h == Head(q)
<1>1. /\ r \in Seq(TaskEntry)
      /\ Len(q) \in Nat /\ Len(q) >= 1
      /\ Len(r) = Len(q) - 1
      /\ \A i \in 1..Len(r) : r[i] = q[i + 1]
      /\ h = q[1]
      /\ h \in TaskEntry
  OBVIOUS
<1> HIDE DEF r, h
<1>2. \A id \in TaskIDs : InQueue(q, id) <=> InQueue(r, id) \/ id = h.ID
  <2> SUFFICES ASSUME NEW id \in TaskIDs
               PROVE  InQueue(q, id) <=> InQueue(r, id) \/ id = h.ID
    OBVIOUS
  <2>1. ASSUME InQueue(q, id), id # h.ID PROVE InQueue(r, id)
    <3>1. PICK i \in 1..Len(q) : q[i].ID = id
      BY <2>1 DEF InQueue
    <3>2. i - 1 \in 1..Len(r) /\ r[i - 1] = q[i]
      BY <1>1, <2>1, <3>1
    <3>3. QED
      BY <3>1, <3>2 DEF InQueue
  <2>2. ASSUME InQueue(r, id) PROVE InQueue(q, id)
    <3>1. PICK i \in 1..Len(r) : r[i].ID = id
      BY <2>2 DEF InQueue
    <3>2. i + 1 \in 1..Len(q) /\ q[i + 1].ID = id
      BY <1>1, <3>1
    <3>3. QED
      BY <3>2 DEF InQueue
  <2>3. ASSUME id = h.ID PROVE InQueue(q, id)
    BY <1>1, <2>3 DEF InQueue
  <2>4. QED
    BY <2>1, <2>2, <2>3
<1>3. Distinct(q) => Distinct(r) /\ ~ InQueue(r, h.ID)
  <2> SUFFICES ASSUME Distinct(q) PROVE Distinct(r) /\ ~ InQueue(r, h.ID)
    OBVIOUS
  <2>1. \A i \in 1..Len(r) : i + 1 \in 1..Len(q) /\ r[i] = q[i + 1]
    BY <1>1
  <2>2. Distinct(r)
    BY <2>1 DEF Distinct
  <2>3. ~ InQueue(r, h.ID)
    BY <1>1, <2>1 DEF Distinct, InQueue
  <2>4. QED
    BY <2>2, <2>3
<1>4. \A m \in TaskMeta : NoneOlder(q, m) =>
         NoneOlder(r, m) /\ (h.ID = m.ID => m.Epoch <= h.Epoch)
  BY <1>1 DEF NoneOlder
<1>5. QED
  BY <1>1, <1>2, <1>3, <1>4 DEF r, h

\* Joining two queues (append(s.state.Done, s.state.Failed...)).
LEMMA ConcatQueue ==
    ASSUME NEW q \in Seq(TaskEntry), NEW s \in Seq(TaskEntry)
    PROVE  /\ q \o s \in Seq(TaskEntry)
           /\ \A id \in TaskIDs : InQueue(q \o s, id) <=> InQueue(q, id) \/ InQueue(s, id)
           /\ /\ Distinct(q) /\ Distinct(s)
              /\ \A id \in TaskIDs : InQueue(q, id) => ~ InQueue(s, id)
              => Distinct(q \o s)
           /\ \A m \in TaskMeta : NoneOlder(q, m) /\ NoneOlder(s, m) => NoneOlder(q \o s, m)
<1> DEFINE r == q \o s
<1>1. /\ r \in Seq(TaskEntry)
      /\ Len(q) \in Nat /\ Len(s) \in Nat
      /\ Len(r) = Len(q) + Len(s)
      /\ \A i \in 1..Len(q) : r[i] = q[i]
      /\ \A i \in 1..Len(s) : r[i + Len(q)] = s[i]
  OBVIOUS
<1>2. \A i \in 1..Len(r) : \/ i \in 1..Len(q) /\ r[i] = q[i]
                           \/ i - Len(q) \in 1..Len(s) /\ r[i] = s[i - Len(q)]
  OBVIOUS
<1> HIDE DEF r
<1>3. \A id \in TaskIDs : InQueue(r, id) <=> InQueue(q, id) \/ InQueue(s, id)
  <2> SUFFICES ASSUME NEW id \in TaskIDs
               PROVE  InQueue(r, id) <=> InQueue(q, id) \/ InQueue(s, id)
    OBVIOUS
  <2>1. ASSUME InQueue(r, id) PROVE InQueue(q, id) \/ InQueue(s, id)
    BY <1>2, <2>1 DEF InQueue
  <2>2. ASSUME InQueue(q, id) PROVE InQueue(r, id)
    BY <1>1, <2>2 DEF InQueue
  <2>3. ASSUME InQueue(s, id) PROVE InQueue(r, id)
    <3>1. PICK i \in 1..Len(s) : s[i].ID = id
      BY <2>3 DEF InQueue
    <3>2. i + Len(q) \in 1..Len(r) /\ r[i + Len(q)].ID = id
      BY <1>1, <3>1
    <3>3. QED
      BY <3>2 DEF InQueue
  <2>4. QED
    BY <2>1, <2>2, <2>3
<1>4. ASSUME Distinct(q), Distinct(s),
             \A id \in TaskIDs : InQueue(q, id) => ~ InQueue(s, id)
      PROVE  Distinct(r)
  <2> SUFFICES ASSUME NEW i \in 1..Len(r), NEW j \in 1..Len(r), r[i].ID = r[j].ID
               PROVE  i = j
    BY DEF Distinct
  <2>0. \A x \in 1..Len(q), y \in 1..Len(s) : q[x].ID # s[y].ID
    <3> SUFFICES ASSUME NEW x \in 1..Len(q), NEW y \in 1..Len(s), q[x].ID = s[y].ID
                 PROVE  FALSE
      OBVIOUS
    <3>0. q[x] \in TaskEntry
      OBVIOUS
    <3>1. q[x].ID \in TaskIDs
      BY <3>0 DEF TaskEntry
    <3>2. InQueue(q, q[x].ID) /\ InQueue(s, q[x].ID)
      BY DEF InQueue
    <3>3. QED
      BY <1>4, <3>1, <3>2
  <2>1. CASE i \in 1..Len(q) /\ j \in 1..Len(q) /\ r[i] = q[i] /\ r[j] = q[j]
    BY <1>4, <2>1 DEF Distinct
  <2>2. CASE /\ i - Len(q) \in 1..Len(s) /\ j - Len(q) \in 1..Len(s)
             /\ r[i] = s[i - Len(q)] /\ r[j] = s[j - Len(q)]
    <3>1. i - Len(q) = j - Len(q)
      BY <1>4, <2>2 DEF Distinct
    <3>2. QED
      BY <1>1, <3>1
  <2>3. QED
    BY <1>2, <2>0, <2>1, <2>2
<1>5. \A m \in TaskMeta : NoneOlder(q, m) /\ NoneOlder(s, m) => NoneOlder(r, m)
  BY <1>2 DEF NoneOlder
<1>6. QED
  BY <1>1, <1>3, <1>4, <1>5 DEF r

----------------------------------------------------------------------------
(* What the handlers do to a well-formed state.                            *)

\* partition() makes fresh entries with distinct IDs.
LEMMA PartitionQueue ==
    /\ partition \in Seq(TaskEntry)
    /\ Distinct(partition)
    /\ \A id \in TaskIDs : InQueue(partition, id)
<1>1. partition \in [1..NumTasks -> TaskEntry] /\ Len(partition) = NumTasks
  BY MasterAssumption DEF partition, TaskEntry, TaskIDs
<1>2. partition \in Seq(TaskEntry)
  BY <1>1, MasterAssumption
<1>3. Distinct(partition)
  BY <1>1, MasterAssumption DEF partition, Distinct
<1>4. \A id \in TaskIDs : InQueue(partition, id)
  BY <1>1, MasterAssumption DEF partition, InQueue, TaskIDs
<1>5. QED
  BY <1>2, <1>3, <1>4

\* The queues NewService makes are of their type.
LEMMA EmptyStateType == EmptyState \in MasterState
  BY DEF EmptyState, MasterState

\* The entry GetTask makes pending.
LEMMA NextEntryType ==
    ASSUME NEW st \in MasterState, st.Todo # <<>>
    PROVE  /\ NextEntry(st) \in TaskEntry
           /\ NextEntry(st).ID = Head(st.Todo).ID
           /\ NextEntry(st).Epoch = Head(st.Todo).Epoch + 1
           /\ NextMeta(st) \in TaskMeta
           /\ NextMeta(st).ID = Head(st.Todo).ID
           /\ NextMeta(st).Epoch = Head(st.Todo).Epoch + 1
<1>1. Head(st.Todo) \in TaskEntry
  BY TailQueue DEF MasterState
<1>2. QED
  BY <1>1 DEF NextEntry, NextMeta, MetaOf, TaskEntry, TaskMeta

\* GetTask leaves well-typed queues.
LEMMA DispatchedType ==
    ASSUME NEW st \in MasterState, st.Todo # <<>>
    PROVE  Dispatched(st) \in MasterState
<1>1. Tail(st.Todo) \in Seq(TaskEntry)
  BY TailQueue DEF MasterState
<1>2. [st.Pending EXCEPT ![NextEntry(st).ID] = NextEntry(st)]
        \in [TaskIDs -> TaskEntry \cup {NoEntry}]
  BY NextEntryType DEF MasterState
<1>3. QED
  BY <1>1, <1>2 DEF Dispatched, MasterState

\* TaskFinished leaves well-typed queues, with and without a new pass.
LEMMA FinishedType ==
    ASSUME NEW st \in MasterState, NEW id \in TaskIDs, IsPending(st, id)
    PROVE  /\ MovedToDone(st, id) \in MasterState
           /\ Finished(st, id) \in MasterState
<1> DEFINE e == [st.Pending[id] EXCEPT !.NumFailure = 0]
<1>1. e \in TaskEntry
  BY DEF MasterState, IsPending, TaskEntry
<1>2. Append(st.Done, e) \in Seq(TaskEntry)
  BY <1>1, AppendQueue DEF MasterState
<1>3. [st.Pending EXCEPT ![id] = NoEntry] \in [TaskIDs -> TaskEntry \cup {NoEntry}]
  BY DEF MasterState
<1>4. MovedToDone(st, id) \in MasterState
  BY <1>2, <1>3 DEF MovedToDone, MasterState
<1>5. \A x \in MasterState : NewPass(x) \in MasterState
  BY ConcatQueue DEF NewPass, MasterState
<1>6. QED
  BY <1>4, <1>5 DEF Finished

\* processFailedTask leaves well-typed queues.
LEMMA UnfinishedType ==
    ASSUME NEW st \in MasterState, NEW id \in TaskIDs, IsPending(st, id)
    PROVE  Unfinished(st, id) \in MasterState
<1> DEFINE e == [st.Pending[id] EXCEPT !.NumFailure = @ + 1]
<1>0. st.Pending[id] \in TaskEntry
  BY DEF MasterState, IsPending
<1>1. e \in TaskEntry
  BY <1>0 DEF TaskEntry
<1>2. Append(st.Todo, e) \in Seq(TaskEntry) /\ Append(st.Failed, e) \in Seq(TaskEntry)
  BY <1>1, AppendQueue DEF MasterState
<1>3. [st.Pending EXCEPT ![id] = NoEntry] \in [TaskIDs -> TaskEntry \cup {NoEntry}]
  BY DEF MasterState
<1>4. QED
  BY <1>2, <1>3 DEF Unfinished, MasterState

\* The timers recover() schedules name tasks and epochs.
LEMMA RecoveredTimersType ==
    ASSUME NEW st \in MasterState
    PROVE  RecoveredTimers(st) \subseteq TaskMeta
  BY DEF RecoveredTimers, MetaOf, IsPending, MasterState, TaskEntry, TaskMeta

----------------------------------------------------------------------------
(* No task is lost or duplicated.                                          *)

\* GetTask neither loses nor duplicates a task.
LEMMA DispatchedConserved ==
    ASSUME NEW st \in MasterState, st.Todo # <<>>, Conserved(st)
    PROVE  Conserved(Dispatched(st))
<1> DEFINE t == NextEntry(st)
           nx == Dispatched(st)
<1>1. /\ t \in TaskEntry
      /\ t.ID = Head(st.Todo).ID
      /\ t.ID \in TaskIDs
      /\ t # NoEntry
  BY NextEntryType, NoEntryAssumption DEF TaskEntry
<1>2. /\ nx.Todo = Tail(st.Todo) /\ nx.Done = st.Done /\ nx.Failed = st.Failed
      /\ nx.Pending = [st.Pending EXCEPT ![t.ID] = t]
  BY DEF Dispatched
<1>3. /\ \A id \in TaskIDs : InQueue(st.Todo, id) <=> InQueue(Tail(st.Todo), id) \/ id = t.ID
      /\ Distinct(Tail(st.Todo)) /\ ~ InQueue(Tail(st.Todo), t.ID)
  BY <1>1, TailQueue DEF Conserved, MasterState
<1>4. \A id \in TaskIDs : nx.Pending[id] = IF id = t.ID THEN t ELSE st.Pending[id]
  BY <1>1, <1>2 DEF MasterState
<1> HIDE DEF nx, t
<1>5. QED
  BY <1>1, <1>2, <1>3, <1>4 DEF Conserved, IsPending, nx

\* Moving a pending task to Done neither loses nor duplicates a task.
LEMMA MovedToDoneConserved ==
    ASSUME NEW st \in MasterState, NEW id \in TaskIDs, IsPending(st, id), Conserved(st)
    PROVE  Conserved(MovedToDone(st, id))
<1> DEFINE e == [st.Pending[id] EXCEPT !.NumFailure = 0]
           nx == MovedToDone(st, id)
<1>1. st.Pending[id] \in TaskEntry /\ st.Pending[id].ID = id
  BY DEF MasterState, IsPending, Conserved
<1>2. e \in TaskEntry /\ e.ID = id
  BY <1>1 DEF TaskEntry
<1>3. /\ nx.Todo = st.Todo /\ nx.Done = Append(st.Done, e) /\ nx.Failed = st.Failed
      /\ nx.Pending = [st.Pending EXCEPT ![id] = NoEntry]
  BY DEF MovedToDone
<1> HIDE DEF e
<1>4. /\ \A x \in TaskIDs : InQueue(nx.Done, x) <=> InQueue(st.Done, x) \/ x = id
      /\ Distinct(nx.Done)
  BY <1>2, <1>3, AppendQueue DEF Conserved, MasterState
<1>5. \A x \in TaskIDs : nx.Pending[x] = IF x = id THEN NoEntry ELSE st.Pending[x]
  BY <1>3 DEF MasterState
<1> HIDE DEF nx
<1>6. QED
  BY <1>3, <1>4, <1>5 DEF Conserved, IsPending, nx

\* Starting a pass neither loses nor duplicates a task: Pending and Todo are
\* empty, Done and Failed become Todo.
LEMMA NewPassConserved ==
    ASSUME NEW st \in MasterState, PassOver(st), Conserved(st)
    PROVE  Conserved(NewPass(st))
<1> DEFINE nx == NewPass(st)
<1>1. /\ nx.Todo = st.Done \o st.Failed /\ nx.Done = <<>> /\ nx.Failed = <<>>
      /\ nx.Pending = st.Pending
  BY DEF NewPass
<1>2. /\ \A x \in TaskIDs : InQueue(nx.Todo, x) <=> InQueue(st.Done, x) \/ InQueue(st.Failed, x)
      /\ Distinct(nx.Todo)
  BY <1>1, ConcatQueue DEF Conserved, MasterState
<1> HIDE DEF nx
<1>3. \A x \in TaskIDs : ~ InQueue(<<>>, x) /\ ~ IsPending(st, x)
  BY DEF PassOver, NothingPending, InQueue
<1>4. Distinct(<<>>)
  BY DEF Distinct
<1>5. \A x \in TaskIDs : ~ InQueue(st.Todo, x)
  BY <1>3 DEF PassOver
<1>6. QED
  BY <1>1, <1>2, <1>3, <1>4, <1>5 DEF Conserved, IsPending, nx

\* TaskFinished neither loses nor duplicates a task.
LEMMA FinishedConserved ==
    ASSUME NEW st \in MasterState, NEW id \in TaskIDs, IsPending(st, id), Conserved(st)
    PROVE  Conserved(Finished(st, id))
  BY FinishedType, MovedToDoneConserved, NewPassConserved DEF Finished

\* processFailedTask neither loses nor duplicates a task, whether the task is
\* retried or discarded.
LEMMA UnfinishedConserved ==
    ASSUME NEW st \in MasterState, NEW id \in TaskIDs, IsPending(st, id), Conserved(st)
    PROVE  Conserved(Unfinished(st, id))
<1> DEFINE e == [st.Pending[id] EXCEPT !.NumFailure = @ + 1]
           nx == Unfinished(st, id)
<1>1. st.Pending[id] \in TaskEntry /\ st.Pending[id].ID = id
  BY DEF MasterState, IsPending, Conserved
<1>2. e \in TaskEntry /\ e.ID = id
  BY <1>1 DEF TaskEntry
<1>3. /\ nx.Done = st.Done
      /\ nx.Pending = [st.Pending EXCEPT ![id] = NoEntry]
      /\ \/ nx.Todo = st.Todo /\ nx.Failed = Append(st.Failed, e)
         \/ nx.Todo = Append(st.Todo, e) /\ nx.Failed = st.Failed
  BY DEF Unfinished
<1> HIDE DEF e
<1>4. \A x \in TaskIDs : nx.Pending[x] = IF x = id THEN NoEntry ELSE st.Pending[x]
  BY <1>3 DEF MasterState
<1>5. \A q \in {st.Todo, st.Failed} :
         /\ \A x \in TaskIDs : InQueue(Append(q, e), x) <=> InQueue(q, x) \/ x = id
         /\ Distinct(Append(q, e))
  BY <1>2, AppendQueue DEF Conserved, MasterState
<1> HIDE DEF nx
<1>6. CASE nx.Todo = st.Todo /\ nx.Failed = Append(st.Failed, e)
  <2>1. /\ \A x \in TaskIDs : InQueue(nx.Failed, x) <=> InQueue(st.Failed, x) \/ x = id
        /\ Distinct(nx.Failed)
    BY <1>5, <1>6
  <2>2. Conserved(nx)
    BY <1>3, <1>4, <1>6, <2>1 DEF Conserved, IsPending
  <2>3. QED
    BY <2>2 DEF nx
<1>7. CASE nx.Todo = Append(st.Todo, e) /\ nx.Failed = st.Failed
  <2>1. /\ \A x \in TaskIDs : InQueue(nx.Todo, x) <=> InQueue(st.Todo, x) \/ x = id
        /\ Distinct(nx.Todo)
    BY <1>5, <1>7
  <2>2. Conserved(nx)
    BY <1>3, <1>4, <1>7, <2>1 DEF Conserved, IsPending
  <2>3. QED
    BY <2>2 DEF nx
<1>8. QED
  BY <1>3, <1>6, <1>7

----------------------------------------------------------------------------
(* Epochs never go back.                                                   *)

\* GetTask leaves no entry older than a dispatch the queues knew before.
LEMMA DispatchedNotBehind ==
    ASSUME NEW st \in MasterState, st.Todo # <<>>, NEW m \in TaskMeta, NotBehind(st, m)
    PROVE  /\ NotBehind(Dispatched(st), m)
           /\ NextMeta(st) # m
<1>1. /\ NextEntry(st) \in TaskEntry
      /\ NextEntry(st).ID = Head(st.Todo).ID
      /\ NextEntry(st).Epoch = Head(st.Todo).Epoch + 1
      /\ NextMeta(st).ID = Head(st.Todo).ID
      /\ NextMeta(st).Epoch = Head(st.Todo).Epoch + 1
  BY NextEntryType
<1>2. /\ NoneOlder(Tail(st.Todo), m)
      /\ Head(st.Todo).ID = m.ID => m.Epoch <= Head(st.Todo).Epoch
      /\ Head(st.Todo) \in TaskEntry
  BY TailQueue DEF MasterState, NotBehind
<1>3. Head(st.Todo).Epoch \in Nat /\ m.Epoch \in Nat
  BY <1>2 DEF TaskEntry, TaskMeta
<1>4. NextMeta(st) # m
  BY <1>1, <1>2, <1>3
<1> DEFINE nx == Dispatched(st)
<1>5. /\ nx.Todo = Tail(st.Todo) /\ nx.Done = st.Done /\ nx.Failed = st.Failed
      /\ nx.Pending = [st.Pending EXCEPT ![NextEntry(st).ID] = NextEntry(st)]
  BY DEF Dispatched
<1>6. nx.Pending[m.ID] = IF m.ID = NextEntry(st).ID THEN NextEntry(st) ELSE st.Pending[m.ID]
  BY <1>5 DEF MasterState, TaskMeta
<1> HIDE DEF nx
<1>7. NotBehind(nx, m)
  BY <1>1, <1>2, <1>3, <1>5, <1>6 DEF NotBehind, IsPending
<1>8. QED
  BY <1>4, <1>7 DEF nx

\* The dispatch GetTask makes is the newest of its task.
LEMMA DispatchedIsNewest ==
    ASSUME NEW st \in MasterState, st.Todo # <<>>, Conserved(st)
    PROVE  NotBehind(Dispatched(st), NextMeta(st))
<1> DEFINE m == NextMeta(st)
           nx == Dispatched(st)
<1>1. /\ m \in TaskMeta /\ m.ID = Head(st.Todo).ID /\ m.Epoch = NextEntry(st).Epoch
      /\ m.ID = NextEntry(st).ID
      /\ m.ID \in TaskIDs /\ m.Epoch \in Nat
  BY NextEntryType DEF TaskMeta
<1>2. /\ InQueue(st.Todo, m.ID)
      /\ ~ InQueue(Tail(st.Todo), m.ID)
  BY <1>1, TailQueue DEF Conserved, MasterState
<1>3. ~ InQueue(st.Done, m.ID) /\ ~ InQueue(st.Failed, m.ID)
  BY <1>1, <1>2 DEF Conserved
<1>4. \A q : ~ InQueue(q, m.ID) => NoneOlder(q, m)
  BY DEF InQueue, NoneOlder
<1>5. /\ nx.Todo = Tail(st.Todo) /\ nx.Done = st.Done /\ nx.Failed = st.Failed
      /\ nx.Pending[m.ID] = NextEntry(st)
  BY <1>1 DEF Dispatched, MasterState
<1> HIDE DEF nx, m
<1>6. NotBehind(nx, m)
  BY <1>1, <1>2, <1>3, <1>4, <1>5 DEF NotBehind
<1>7. QED
  BY <1>6 DEF nx, m

\* TaskFinished keeps the epochs of all entries.
LEMMA FinishedNotBehind ==
    ASSUME NEW st \in MasterState, NEW id \in TaskIDs, IsPending(st, id),
           Conserved(st), NEW m \in TaskMeta, NotBehind(st, m)
    PROVE  NotBehind(Finished(st, id), m)
<1> DEFINE e == [st.Pending[id] EXCEPT !.NumFailure = 0]
           nx == MovedToDone(st, id)
<1>1. st.Pending[id] \in TaskEntry /\ st.Pending[id].ID = id
  BY DEF MasterState, IsPending, Conserved
<1>2. e \in TaskEntry /\ e.ID = id /\ e.Epoch = st.Pending[id].Epoch
  BY <1>1 DEF TaskEntry
<1>3. e.ID = m.ID => m.Epoch <= e.Epoch
  BY <1>2 DEF NotBehind
<1>4. /\ nx.Todo = st.Todo /\ nx.Done = Append(st.Done, e) /\ nx.Failed = st.Failed
      /\ nx.Pending = [st.Pending EXCEPT ![id] = NoEntry]
  BY DEF MovedToDone
<1> HIDE DEF e
<1>5. NoneOlder(nx.Done, m)
  BY <1>2, <1>3, <1>4, AppendQueue DEF NotBehind, MasterState
<1>6. nx.Pending[m.ID] = IF m.ID = id THEN NoEntry ELSE st.Pending[m.ID]
  BY <1>4 DEF MasterState, TaskMeta
<1>7. nx \in MasterState
  BY FinishedType
<1> HIDE DEF nx
<1>8. NotBehind(nx, m)
  BY <1>4, <1>5, <1>6 DEF NotBehind, IsPending
<1>9. NotBehind(NewPass(nx), m)
  <2>1. NoneOlder(nx.Done \o nx.Failed, m)
    BY <1>7, <1>8, ConcatQueue DEF NotBehind, MasterState
  <2>2. NoneOlder(<<>>, m)
    BY DEF NoneOlder
  <2>3. QED
    BY <1>8, <2>1, <2>2 DEF NewPass, NotBehind, IsPending
<1>10. QED
  BY <1>8, <1>9 DEF Finished, nx

\* processFailedTask keeps the epochs of all entries.
LEMMA UnfinishedNotBehind ==
    ASSUME NEW st \in MasterState, NEW id \in TaskIDs, IsPending(st, id),
           Conserved(st), NEW m \in TaskMeta, NotBehind(st, m)
    PROVE  NotBehind(Unfinished(st, id), m)
<1> DEFINE e == [st.Pending[id] EXCEPT !.NumFailure = @ + 1]
           nx == Unfinished(st, id)
<1>1. st.Pending[id] \in TaskEntry /\ st.Pending[id].ID = id
  BY DEF MasterState, IsPending, Conserved
<1>2. e \in TaskEntry /\ e.ID = id /\ e.Epoch = st.Pending[id].Epoch
  BY <1>1 DEF TaskEntry
<1>3. e.ID = m.ID => m.Epoch <= e.Epoch
  BY <1>2 DEF NotBehind
<1>4. /\ nx.Done = st.Done
      /\ nx.Pending = [st.Pending EXCEPT ![id] = NoEntry]
      /\ \/ nx.Todo = st.Todo /\ nx.Failed = Append(st.Failed, e)
         \/ nx.Todo = Append(st.Todo, e) /\ nx.Failed = st.Failed
  BY DEF Unfinished
<1> HIDE DEF e
<1>5. NoneOlder(Append(st.Todo, e), m) /\ NoneOlder(Append(st.Failed, e), m)
  BY <1>2, <1>3, AppendQueue DEF NotBehind, MasterState
<1>6. nx.Pending[m.ID] = IF m.ID = id THEN NoEntry ELSE st.Pending[m.ID]
  BY <1>4 DEF MasterState, TaskMeta
<1> HIDE DEF nx
<1>7. NotBehind(nx, m)
  BY <1>4, <1>5, <1>6 DEF NotBehind, IsPending
<1>8. QED
  BY <1>7 DEF nx

----------------------------------------------------------------------------
(* The invariants.                                                         *)

MasterInv == TypeOK /\ TasksConserved /\ HandedIsDurable /\ UnreadyIsFresh

\* What a handler and its snapshot leave behind, whatever the save did: the
\* new queues in memory, and in the store either those or the old snapshot.
LEMMA SavedConserved ==
    ASSUME MasterInv, NEW saved \in SaveOutcomes, NEW st \in MasterState,
           state' = st, snapshot(saved), Conserved(st)
    PROVE  /\ store' \in MasterState \cup {NoState}
           /\ Conserved(state')
           /\ store' # NoState => Conserved(store')
  BY DEF MasterInv, TypeOK, TasksConserved, snapshot

\* Whatever the save did, memory and store are not older than what was handed
\* out, when the new queues are not.
LEMMA SavedNotBehind ==
    ASSUME MasterInv, NEW saved \in SaveOutcomes, NEW st \in MasterState,
           state' = st, snapshot(saved),
           \A m \in handed : NotBehind(st, m),
           handed' = handed
    PROVE  HandedIsDurable'
<1>1. store' = store \/ store' = st
  BY DEF snapshot
<1>2. st # NoState
  BY NoStateAssumption
<1>3. QED
  BY <1>1, <1>2 DEF MasterInv, HandedIsDurable, NotBehind, NoneOlder, IsPending

\* SetDataset preserves the inductive invariant, also when its save fails.
LEMMA SetDatasetInv ==
    ASSUME MasterInv, NEW saved \in SaveOutcomes, SetDataset(saved)
    PROVE  MasterInv'
<1> DEFINE st == [state EXCEPT !.Todo = partition]
<1>1. /\ st \in MasterState
      /\ st.Todo = partition /\ st.Pending = state.Pending
      /\ st.Done = <<>> /\ st.Failed = <<>>
      /\ NothingPending(st)
  BY PartitionQueue
     DEF MasterInv, TypeOK, MasterState, SetDataset, UnreadyIsFresh, NothingPending, IsPending
<1>2. state' = st /\ snapshot(saved) /\ handed' = handed /\ handed = {} /\ timers' = timers
      /\ up' = up /\ ready' \in BOOLEAN
  BY DEF SetDataset, MasterInv, UnreadyIsFresh
<1> HIDE DEF st
<1>3. Conserved(st)
  <2>1. \A id \in TaskIDs : ~ InQueue(<<>>, id)
    BY DEF InQueue
  <2>2. Distinct(<<>>)
    BY DEF Distinct
  <2>3. QED
    BY <1>1, <2>1, <2>2, PartitionQueue DEF Conserved, NothingPending
<1>4. TasksConserved' /\ store' \in MasterState \cup {NoState}
  BY <1>1, <1>2, <1>3, SavedConserved DEF TasksConserved
<1>5. TypeOK'
  BY <1>1, <1>2, <1>4 DEF MasterInv, TypeOK
<1>6. HandedIsDurable'
  BY <1>2 DEF HandedIsDurable
<1>7. UnreadyIsFresh'
  BY <1>1, <1>2 DEF UnreadyIsFresh, NothingPending, IsPending
<1>8. QED
  BY <1>4, <1>5, <1>6, <1>7 DEF MasterInv

\* GetTask preserves the inductive invariant: what it hands out was saved.
LEMMA GetTaskInv ==
    ASSUME MasterInv, NEW passID \in Passes, NEW saved \in SaveOutcomes, GetTask(passID, saved)
    PROVE  MasterInv'
<1> DEFINE st == Dispatched(state)
           m == NextMeta(state)
<1>1. /\ state \in MasterState /\ state.Todo # <<>> /\ Conserved(state)
      /\ up /\ ready /\ ready' = ready /\ up' = up
      /\ state' = st /\ snapshot(saved)
  BY DEF GetTask, CanDispatch, MasterInv, TypeOK, TasksConserved
<1>2. st \in MasterState /\ Conserved(st) /\ m \in TaskMeta
  BY <1>1, DispatchedType, DispatchedConserved, NextEntryType
<1>3. NotBehind(st, m)
  BY <1>1, DispatchedIsNewest
<1>4. \A x \in handed : x \in TaskMeta /\ NotBehind(st, x)
  BY <1>1, DispatchedNotBehind DEF MasterInv, HandedIsDurable, TypeOK
<1>5. \/ saved = "ok" /\ handed' = handed \cup {m} /\ timers' = timers \cup {m}
      \/ handed' = handed /\ timers' = timers
  BY DEF GetTask
<1> HIDE DEF st, m
<1>6. TasksConserved' /\ store' \in MasterState \cup {NoState}
  BY <1>1, <1>2, SavedConserved DEF TasksConserved
<1>7. TypeOK'
  BY <1>1, <1>2, <1>5, <1>6 DEF MasterInv, TypeOK
<1>8. HandedIsDurable'
  <2>1. CASE handed' = handed
    BY <1>1, <1>2, <1>4, <2>1, SavedNotBehind
  <2>2. CASE saved = "ok" /\ handed' = handed \cup {m}
    <3>1. store' = st /\ st # NoState /\ state' = st
      BY <1>1, <1>2, <2>2, NoStateAssumption DEF snapshot
    <3>2. \A x \in handed' : NotBehind(st, x)
      BY <1>3, <1>4, <2>2
    <3>3. QED
      BY <3>1, <3>2 DEF HandedIsDurable, NotBehind, NoneOlder, IsPending
  <2>3. QED
    BY <1>5, <2>1, <2>2
<1>9. UnreadyIsFresh'
  BY <1>1 DEF UnreadyIsFresh
<1>10. QED
  BY <1>6, <1>7, <1>8, <1>9 DEF MasterInv

\* TaskFinished preserves the inductive invariant.
LEMMA TaskFinishedInv ==
    ASSUME MasterInv, NEW id \in TaskIDs, NEW saved \in SaveOutcomes, TaskFinished(id, saved)
    PROVE  MasterInv'
<1> DEFINE st == Finished(state, id)
<1>1. /\ state \in MasterState /\ IsPending(state, id) /\ Conserved(state)
      /\ up /\ ready /\ ready' = ready /\ up' = up /\ timers' = timers /\ handed' = handed
      /\ state' = st /\ snapshot(saved)
  BY DEF TaskFinished, MasterInv, TypeOK, TasksConserved
<1>2. st \in MasterState /\ Conserved(st)
  BY <1>1, FinishedType, FinishedConserved
<1>3. \A x \in handed : NotBehind(st, x)
  BY <1>1, FinishedNotBehind DEF MasterInv, HandedIsDurable, TypeOK
<1> HIDE DEF st
<1>4. TasksConserved' /\ store' \in MasterState \cup {NoState}
  BY <1>1, <1>2, SavedConserved DEF TasksConserved
<1>5. HandedIsDurable'
  BY <1>1, <1>2, <1>3, SavedNotBehind
<1>6. TypeOK'
  BY <1>1, <1>2, <1>4 DEF MasterInv, TypeOK
<1>7. UnreadyIsFresh'
  BY <1>1 DEF UnreadyIsFresh
<1>8. QED
  BY <1>4, <1>5, <1>6, <1>7 DEF MasterInv

\* TaskFailed and the timer's closure share processFailedTask.
LEMMA ProcessFailedTaskInv ==
    ASSUME MasterInv, NEW meta \in TaskMeta, NEW saved \in SaveOutcomes,
           processFailedTask(meta, saved),
           ready, up, ready' = ready, up' = up, handed' = handed, timers' \subseteq timers
    PROVE  MasterInv'
<1> DEFINE st == Unfinished(state, meta.ID)
<1>1. /\ state \in MasterState /\ IsPending(state, meta.ID) /\ Conserved(state)
      /\ meta.ID \in TaskIDs
      /\ state' = st /\ snapshot(saved)
  BY DEF processFailedTask, MasterInv, TypeOK, TasksConserved, TaskMeta
<1>2. st \in MasterState /\ Conserved(st)
  BY <1>1, UnfinishedType, UnfinishedConserved
<1>3. \A x \in handed : NotBehind(st, x)
  BY <1>1, UnfinishedNotBehind DEF MasterInv, HandedIsDurable, TypeOK
<1> HIDE DEF st
<1>4. TasksConserved' /\ store' \in MasterState \cup {NoState}
  BY <1>1, <1>2, SavedConserved DEF TasksConserved
<1>5. HandedIsDurable'
  BY <1>1, <1>2, <1>3, SavedNotBehind
<1>6. TypeOK'
  BY <1>1, <1>2, <1>4 DEF MasterInv, TypeOK
<1>7. UnreadyIsFresh'
  BY <1>1 DEF UnreadyIsFresh
<1>8. QED
  BY <1>4, <1>5, <1>6, <1>7 DEF MasterInv

\* The timer's closure preserves the inductive invariant.
LEMMA CheckTimeoutInv ==
    ASSUME MasterInv, NEW meta \in timers, NEW saved \in SaveOutcomes,
           checkTimeoutFunc(meta, saved)
    PROVE  MasterInv'
<1>1. meta \in TaskMeta /\ up /\ up' = up /\ ready' = ready /\ handed' = handed
      /\ timers' \subseteq timers
  BY DEF MasterInv, TypeOK, checkTimeoutFunc
<1>2. CASE processFailedTask(meta, saved)
  <2>1. ready
    BY <1>1, <1>2 DEF processFailedTask, MasterInv, UnreadyIsFresh, NothingPending, TaskMeta
  <2>2. QED
    BY <1>1, <1>2, <2>1, ProcessFailedTaskInv
<1>3. CASE UNCHANGED <<state, store>>
  BY <1>1, <1>3
     DEF MasterInv, TypeOK, TasksConserved, HandedIsDurable, UnreadyIsFresh,
         Conserved, NotBehind, NoneOlder, IsPending, NothingPending, Distinct, InQueue
<1>4. QED
  BY <1>2, <1>3 DEF checkTimeoutFunc

\* A crash preserves the inductive invariant: the store is all that is left.
LEMMA CrashInv ==
    ASSUME MasterInv, Crash
    PROVE  MasterInv'
<1>1. /\ state' = EmptyState /\ ready' = FALSE /\ up' = FALSE /\ timers' = {}
      /\ store' = store /\ handed' = handed
  BY DEF Crash
<1>2. TypeOK'
  BY <1>1, EmptyStateType DEF MasterInv, TypeOK
<1>3. UnreadyIsFresh'
  BY <1>1 DEF UnreadyIsFresh, EmptyState, NothingPending, IsPending
<1>4. TasksConserved' /\ HandedIsDurable'
  BY <1>1 DEF MasterInv, TasksConserved, HandedIsDurable
<1>5. QED
  BY <1>2, <1>3, <1>4 DEF MasterInv

\* NewService and recover() preserve the inductive invariant.
LEMMA NewServiceInv ==
    ASSUME MasterInv, NewService
    PROVE  MasterInv'
<1>1. store' = store /\ handed' = handed /\ up' = TRUE
  BY DEF NewService
<1>2. CASE store = NoState /\ UNCHANGED <<state, ready, timers>>
  <2>1. handed = {}
    BY <1>2 DEF MasterInv, HandedIsDurable
  <2>2. QED
    BY <1>1, <1>2, <2>1
       DEF MasterInv, TypeOK, TasksConserved, HandedIsDurable, UnreadyIsFresh,
           NothingPending, IsPending
<1>3. CASE store # NoState /\ state' = store /\ ready' = TRUE /\ timers' = RecoveredTimers(store)
  <2>1. store \in MasterState /\ RecoveredTimers(store) \subseteq TaskMeta
    BY <1>3, RecoveredTimersType DEF MasterInv, TypeOK
  <2>2. TypeOK'
    BY <1>1, <1>3, <2>1 DEF MasterInv, TypeOK
  <2>3. TasksConserved' /\ HandedIsDurable'
    BY <1>1, <1>3 DEF MasterInv, TasksConserved, HandedIsDurable
  <2>4. UnreadyIsFresh'
    BY <1>3 DEF UnreadyIsFresh
  <2>5. QED
    BY <2>2, <2>3, <2>4 DEF MasterInv
<1>4. QED
  BY <1>2, <1>3 DEF NewService

\* The inductive invariant holds in the state NewService starts from.
LEMMA InitInv == Init => MasterInv
<1> SUFFICES ASSUME Init PROVE MasterInv
  OBVIOUS
<1>1. TypeOK
  BY EmptyStateType DEF Init, TypeOK
<1>2. TasksConserved /\ HandedIsDurable
  BY DEF Init, TasksConserved, HandedIsDurable
<1>3. UnreadyIsFresh
  BY DEF Init, UnreadyIsFresh, EmptyState, NothingPending, IsPending
<1>4. QED
  BY <1>1, <1>2, <1>3 DEF MasterInv

\* Every step of the master preserves the inductive invariant.
LEMMA NextInv == MasterInv /\ [Next]_vars => MasterInv'
<1> SUFFICES ASSUME MasterInv, [Next]_vars PROVE MasterInv'
  OBVIOUS
<1>1. CASE \E saved \in SaveOutcomes : SetDataset(saved)
  BY <1>1, SetDatasetInv
<1>2. CASE \E saved \in SaveOutcomes, passID \in Passes : GetTask(passID, saved)
  BY <1>2, GetTaskInv
<1>3. CASE \E saved \in SaveOutcomes, id \in TaskIDs : TaskFinished(id, saved)
  BY <1>3, TaskFinishedInv
<1>4. CASE \E saved \in SaveOutcomes : \E meta \in handed : TaskFailed(meta, saved)
  <2>1. PICK saved \in SaveOutcomes, meta \in handed : TaskFailed(meta, saved)
    BY <1>4
  <2>2. /\ meta \in TaskMeta /\ processFailedTask(meta, saved)
        /\ ready /\ up /\ ready' = ready /\ up' = up /\ handed' = handed /\ timers' = timers
    BY <2>1 DEF TaskFailed, MasterInv, TypeOK
  <2>3. QED
    BY <2>2, ProcessFailedTaskInv
<1>5. CASE \E saved \in SaveOutcomes : \E meta \in timers : checkTimeoutFunc(meta, saved)
  BY <1>5, CheckTimeoutInv
<1>6. CASE Crash
  BY <1>6, CrashInv
<1>7. CASE NewService
  BY <1>7, NewServiceInv
<1>8. CASE UNCHANGED vars
  BY <1>8
     DEF vars, MasterInv, TypeOK, TasksConserved, HandedIsDurable, UnreadyIsFresh,
         Conserved, NotBehind, NoneOlder, IsPending, NothingPending, Distinct, InQueue
<1>9. QED
  BY <1>1, <1>2, <1>3, <1>4, <1>5, <1>6, <1>7, <1>8 DEF Next

\* The inductive invariant holds in every reachable state.
LEMMA MasterInvariant == Spec => []MasterInv
  BY InitInv, NextInv, PTL DEF Spec

\* The queues, the timers and the snapshot are always of their types: in
\* particular no handler reads a task that is not there.
THEOREM TypeCorrect == Spec => []TypeOK
<1>1. MasterInv => TypeOK
  BY DEF MasterInv
<1>2. QED
  BY <1>1, MasterInvariant, PTL

\* No task is lost or duplicated by GetTask, TaskFinished, TaskFailed, the
\* timeouts, a crash or a recovery, with a store that may fail in every way.
THEOREM TasksNeverLost == Spec => []TasksConserved
<1>1. MasterInv => TasksConserved
  BY DEF MasterInv
<1>2. QED
  BY <1>1, MasterInvariant, PTL

\* The snapshot a new master recovers is never older than a task a trainer
\* received.
THEOREM DurableHandout == Spec => []HandedIsDurable
<1>1. MasterInv => HandedIsDurable
  BY DEF MasterInv
<1>2. QED
  BY <1>1, MasterInvariant, PTL

\* GetTask never answers twice with the same task and epoch.
THEOREM FreshHandout == Spec => HandoutIsFresh
<1>1. MasterInv => \A passID \in Passes : GetTask(passID, "ok") => NextMeta(state) \notin handed
  <2> SUFFICES ASSUME MasterInv, NEW passID \in Passes, GetTask(passID, "ok"),
                      NextMeta(state) \in handed
               PROVE  FALSE
    OBVIOUS
  <2>1. state \in MasterState /\ state.Todo # <<>> /\ ready /\ NextMeta(state) \in TaskMeta
    BY NextEntryType DEF GetTask, CanDispatch, MasterInv, TypeOK
  <2>2. NotBehind(state, NextMeta(state))
    BY <2>1 DEF MasterInv, HandedIsDurable
  <2>3. QED
    BY <2>1, <2>2, DispatchedNotBehind
<1>2. QED
  BY <1>1, MasterInvariant, PTL DEF HandoutIsFresh

----------------------------------------------------------------------------
(* With a store that never fails, no pending task is without a timer.      *)

\* With a store that never fails every step keeps a timer for each pending
\* task.
LEMMA NextTimed ==
    ASSUME SaveFaults = FALSE, MasterInv, PendingIsTimed, [Next]_vars
    PROVE  PendingIsTimed'
<1>0. \A saved \in SaveOutcomes : saved = "ok"
  BY DEF SaveOutcomes
<1>1. ASSUME NEW saved \in SaveOutcomes, SetDataset(saved) PROVE PendingIsTimed'
  <2>1. state'.Pending = state.Pending /\ timers' = timers
    BY <1>1 DEF SetDataset, MasterInv, TypeOK, MasterState
  <2>2. QED
    BY <2>1 DEF PendingIsTimed, IsPending, MetaOf
<1>2. ASSUME NEW saved \in SaveOutcomes, NEW passID \in Passes, GetTask(passID, saved)
      PROVE  PendingIsTimed'
  <2>1. /\ state \in MasterState /\ state.Todo # <<>>
        /\ state' = Dispatched(state) /\ timers' = timers \cup {NextMeta(state)}
    BY <1>0, <1>2 DEF GetTask, CanDispatch, MasterInv, TypeOK
  <2>2. state'.Pending = [state.Pending EXCEPT ![NextEntry(state).ID] = NextEntry(state)]
    BY <2>1 DEF Dispatched
  <2>3. \A id \in TaskIDs : state'.Pending[id] = IF id = NextEntry(state).ID THEN NextEntry(state)
                                                                         ELSE state.Pending[id]
    BY <2>1, <2>2 DEF MasterState
  <2>4. QED
    BY <2>1, <2>3 DEF PendingIsTimed, IsPending, NextMeta
<1>3. ASSUME NEW saved \in SaveOutcomes, NEW id \in TaskIDs, TaskFinished(id, saved)
      PROVE  PendingIsTimed'
  <2>1. /\ state \in MasterState /\ timers' = timers
        /\ state'.Pending = [state.Pending EXCEPT ![id] = NoEntry]
    BY <1>3 DEF TaskFinished, Finished, MovedToDone, NewPass, MasterInv, TypeOK
  <2>2. \A x \in TaskIDs : state'.Pending[x] = IF x = id THEN NoEntry ELSE state.Pending[x]
    BY <2>1 DEF MasterState
  <2>3. QED
    BY <2>1, <2>2 DEF PendingIsTimed, IsPending
<1>4. ASSUME NEW saved \in SaveOutcomes, NEW meta \in TaskMeta, processFailedTask(meta, saved),
             timers \ {meta} \subseteq timers'
      PROVE  PendingIsTimed'
  <2>1. /\ state \in MasterState /\ Conserved(state)
        /\ state'.Pending = [state.Pending EXCEPT ![meta.ID] = NoEntry]
    <3>1. meta.ID \in TaskIDs /\ IsPending(state, meta.ID)
      BY <1>4 DEF processFailedTask, TaskMeta
    <3>2. ready
      BY <3>1 DEF MasterInv, UnreadyIsFresh, NothingPending
    <3>3. QED
      BY <1>4, <3>2 DEF processFailedTask, Unfinished, MasterInv, TypeOK, TasksConserved
  <2>2. \A x \in TaskIDs : state'.Pending[x] = IF x = meta.ID THEN NoEntry ELSE state.Pending[x]
    BY <2>1 DEF MasterState
  <2>3. \A x \in TaskIDs : IsPending(state, x) /\ x # meta.ID => MetaOf(state.Pending[x]) # meta
    BY <2>1 DEF Conserved, MetaOf
  <2>4. QED
    BY <1>4, <2>2, <2>3 DEF PendingIsTimed, IsPending
<1>5. ASSUME NEW saved \in SaveOutcomes, NEW meta \in handed, TaskFailed(meta, saved)
      PROVE  PendingIsTimed'
  <2>1. meta \in TaskMeta /\ processFailedTask(meta, saved) /\ timers' = timers
    BY <1>5 DEF TaskFailed, MasterInv, TypeOK
  <2>2. QED
    BY <1>4, <2>1
<1>6. ASSUME NEW saved \in SaveOutcomes, NEW meta \in timers, checkTimeoutFunc(meta, saved)
      PROVE  PendingIsTimed'
  <2>1. meta \in TaskMeta /\ timers' = timers \ {meta}
    BY <1>6 DEF checkTimeoutFunc, MasterInv, TypeOK
  <2>2. CASE processFailedTask(meta, saved)
    BY <1>4, <2>1, <2>2
  <2>3. CASE /\ ~ (IsPending(state, meta.ID) /\ state.Pending[meta.ID].Epoch = meta.Epoch)
             /\ state' = state
    <3>1. \A x \in TaskIDs : IsPending(state, x) => MetaOf(state.Pending[x]) # meta
      <4>1. \A x \in TaskIDs : IsPending(state, x) => Conserved(state)
        BY DEF MasterInv, UnreadyIsFresh, NothingPending, TasksConserved
      <4>2. QED
        BY <2>3, <4>1 DEF Conserved, MetaOf
    <3>2. QED
      BY <2>1, <2>3, <3>1 DEF PendingIsTimed, IsPending
  <2>4. QED
    BY <1>6, <2>2, <2>3 DEF checkTimeoutFunc
<1>7. CASE Crash
  BY <1>7 DEF Crash, EmptyState, PendingIsTimed, IsPending
<1>8. CASE NewService
  <2>1. CASE UNCHANGED <<state, timers>>
    BY <2>1 DEF PendingIsTimed, IsPending
  <2>2. CASE state' = store /\ timers' = RecoveredTimers(store)
    BY <2>2 DEF PendingIsTimed, RecoveredTimers, IsPending
  <2>3. QED
    BY <1>8, <2>1, <2>2 DEF NewService
<1>9. CASE UNCHANGED vars
  BY <1>9 DEF vars, PendingIsTimed, IsPending
<1>10. QED
  BY <1>1, <1>2, <1>3, <1>5, <1>6, <1>7, <1>8, <1>9 DEF Next

\* With a store that never fails, every task a trainer may have taken to its
\* grave has a running timeout check, across crashes of the master too.
THEOREM NoOrphanedTask ==
    ASSUME SaveFaults = FALSE
    PROVE  Spec => []PendingIsTimed
<1>1. Init => PendingIsTimed
  BY DEF Init, EmptyState, PendingIsTimed, IsPending
<1>2. MasterInv /\ PendingIsTimed /\ [Next]_vars => PendingIsTimed'
  BY NextTimed
<1>3. QED
  BY <1>1, <1>2, MasterInvariant, PTL DEF Spec

----------------------------------------------------------------------------
(* The entry of a task.                                                    *)

In(q, e) == \E i \in 1..Len(q) : q[i] = e

\* e is the entry of task id in st.
IsEntry(st, id, e) ==
    /\ e \in TaskEntry /\ e.ID = id
    /\ st.Pending[id] = e \/ In(st.Todo, e) \/ In(st.Done, e) \/ In(st.Failed, e)

LEMMA AppendIn ==
    ASSUME NEW q \in Seq(TaskEntry), NEW e \in TaskEntry
    PROVE  In(Append(q, e), e) /\ \A f : In(q, f) => In(Append(q, e), f)
<1> DEFINE r == Append(q, e)
<1>1. /\ Len(r) = Len(q) + 1 /\ Len(q) \in Nat
      /\ \A i \in 1..Len(q) : r[i] = q[i]
      /\ r[Len(q) + 1] = e
  OBVIOUS
<1> HIDE DEF r
<1>2. In(r, e) /\ \A f : In(q, f) => In(r, f)
  BY <1>1 DEF In
<1> QED
  BY <1>2 DEF r

LEMMA TailIn ==
    ASSUME NEW q \in Seq(TaskEntry), q # <<>>
    PROVE  In(q, Head(q)) /\ \A f : In(q, f) /\ f # Head(q) => In(Tail(q), f)
<1> DEFINE r == Tail(q)
           h == Head(q)
<1>1. /\ Len(q) \in Nat /\ Len(q) >= 1
      /\ Len(r) = Len(q) - 1
      /\ \A i \in 1..Len(r) : r[i] = q[i + 1]
      /\ h = q[1]
  OBVIOUS
<1> HIDE DEF r, h
<1>2. In(q, h)
  BY <1>1 DEF In
<1>3. ASSUME NEW f, In(q, f), f # h PROVE In(r, f)
  <2>1. PICK i \in 1..Len(q) : q[i] = f
    BY <1>3 DEF In
  <2>2. i - 1 \in 1..Len(r) /\ r[i - 1] = f
    BY <1>1, <1>3, <2>1
  <2> QED
    BY <2>2 DEF In
<1> QED
  BY <1>2, <1>3 DEF r, h

LEMMA ConcatIn ==
    ASSUME NEW q \in Seq(TaskEntry), NEW s \in Seq(TaskEntry)
    PROVE  \A f : In(q, f) \/ In(s, f) => In(q \o s, f)
<1> DEFINE r == q \o s
<1>1. /\ Len(q) \in Nat /\ Len(s) \in Nat
      /\ Len(r) = Len(q) + Len(s)
      /\ \A i \in 1..Len(q) : r[i] = q[i]
      /\ \A i \in 1..Len(s) : r[i + Len(q)] = s[i]
  OBVIOUS
<1> HIDE DEF r
<1>2. ASSUME NEW f, In(q, f) PROVE In(r, f)
  BY <1>1, <1>2 DEF In
<1>3. ASSUME NEW f, In(s, f) PROVE In(r, f)
  <2>1. PICK i \in 1..Len(s) : s[i] = f
    BY <1>3 DEF In
  <2>2. i + Len(q) \in 1..Len(r) /\ r[i + Len(q)] = f
    BY <1>1, <2>1
  <2> QED
    BY <2>2 DEF In
<1> QED
  BY <1>2, <1>3 DEF r

\* A queue without two entries of a task has one entry of it.
LEMMA OneEntry ==
    ASSUME NEW q, Distinct(q), NEW e, NEW f, In(q, e), In(q, f), e.ID = f.ID
    PROVE  e = f
BY DEF Distinct, In

LEMMA InHasID ==
    ASSUME NEW q, NEW e, In(q, e)
    PROVE  InQueue(q, e.ID)
BY DEF In, InQueue

\* Every task has an entry, and only one.
LEMMA EntryUnique ==
    ASSUME NEW st \in MasterState, Conserved(st), NEW id \in TaskIDs,
           NEW e, NEW f, IsEntry(st, id, e), IsEntry(st, id, f)
    PROVE  e = f
<1>1. \A g : IsEntry(st, id, g) =>
        /\ st.Pending[id] = g => IsPending(st, id)
        /\ In(st.Todo, g) => InQueue(st.Todo, id)
        /\ In(st.Done, g) => InQueue(st.Done, id)
        /\ In(st.Failed, g) => InQueue(st.Failed, id)
  BY InHasID, NoEntryAssumption DEF IsEntry, IsPending
<1>2. /\ In(st.Todo, e) /\ In(st.Todo, f) => e = f
      /\ In(st.Done, e) /\ In(st.Done, f) => e = f
      /\ In(st.Failed, e) /\ In(st.Failed, f) => e = f
  BY OneEntry DEF IsEntry, Conserved
<1> QED
  BY <1>1, <1>2 DEF IsEntry, Conserved

LEMMA EntryExists ==
    ASSUME NEW st \in MasterState, Conserved(st), NEW id \in TaskIDs
    PROVE  \E e : IsEntry(st, id, e)
<1>1. \A q \in Seq(TaskEntry) : InQueue(q, id) => \E e \in TaskEntry : e.ID = id /\ In(q, e)
  BY DEF InQueue, In
<1>2. /\ st.Todo \in Seq(TaskEntry) /\ st.Done \in Seq(TaskEntry) /\ st.Failed \in Seq(TaskEntry)
      /\ IsPending(st, id) => st.Pending[id] \in TaskEntry /\ st.Pending[id].ID = id
  BY DEF MasterState, IsPending, Conserved
<1>3. IsPending(st, id) \/ InQueue(st.Todo, id) \/ InQueue(st.Done, id) \/ InQueue(st.Failed, id)
  BY DEF Conserved
<1> QED
  BY <1>1, <1>2, <1>3 DEF IsEntry

\* The failures the pool sees are those of the entry.
LEMMA EntryFailures ==
    ASSUME NEW st \in MasterState, Conserved(st), NEW id \in TaskIDs, NEW e, IsEntry(st, id, e)
    PROVE  FailuresOf(st, id) = e.NumFailure
<1>1. \A q \in Seq(TaskEntry) : \A f : f \in EntriesOf(q) <=> In(q, f)
  BY DEF EntriesOf, In
<1>2. st.Todo \in Seq(TaskEntry) /\ st.Done \in Seq(TaskEntry) /\ st.Failed \in Seq(TaskEntry)
  BY DEF MasterState
<1>3. \A q \in Seq(TaskEntry) : \A f : In(q, f) => f \in TaskEntry
  BY DEF In
<1>4. CASE IsPending(st, id)
  <2>1. IsEntry(st, id, st.Pending[id])
    BY <1>4 DEF IsEntry, IsPending, MasterState, Conserved
  <2>2. e = st.Pending[id]
    BY <2>1, EntryUnique
  <2> QED
    BY <2>2, <1>4 DEF FailuresOf
<1>5. CASE ~ IsPending(st, id)
  <2> DEFINE All == EntriesOf(st.Todo) \cup EntriesOf(st.Done) \cup EntriesOf(st.Failed)
  <2>1. e # NoEntry
    BY NoEntryAssumption DEF IsEntry
  <2>2. e \in All /\ e.ID = id
    BY <1>1, <1>2, <1>5, <2>1 DEF IsEntry, IsPending
  <2>3. \A f \in All : f.ID = id => IsEntry(st, id, f)
    BY <1>1, <1>2, <1>3 DEF IsEntry
  <2>4. \A f \in All : f.ID = id => f = e
    BY <2>3, EntryUnique
  <2> HIDE DEF All
  <2>5. (CHOOSE f \in All : f.ID = id) = e
    BY <2>2, <2>4
  <2> QED
    BY <2>5, <1>5 DEF FailuresOf, All
<1> QED
  BY <1>4, <1>5

\* The status the pool sees, by where the task is.
LEMMA StatusByPlace ==
    ASSUME NEW st \in MasterState, Conserved(st), NEW id \in TaskIDs
    PROVE  /\ StatusOf(st, id) = "pending" <=> IsPending(st, id)
           /\ StatusOf(st, id) = "todo" <=> InQueue(st.Todo, id)
           /\ StatusOf(st, id) = "done" <=> InQueue(st.Done, id)
           /\ StatusOf(st, id) = "discarded" <=> InQueue(st.Failed, id)
<1>1. CASE IsPending(st, id)
  <2>1. ~ InQueue(st.Todo, id) /\ ~ InQueue(st.Done, id) /\ ~ InQueue(st.Failed, id)
    BY <1>1 DEF Conserved
  <2>2. StatusOf(st, id) = "pending"
    BY <1>1, <2>1 DEF StatusOf
  <2> QED
    BY <1>1, <2>1, <2>2
<1>2. CASE InQueue(st.Todo, id)
  <2>1. ~ IsPending(st, id) /\ ~ InQueue(st.Done, id) /\ ~ InQueue(st.Failed, id)
    BY <1>2 DEF Conserved
  <2>2. StatusOf(st, id) = "todo"
    BY <1>2, <2>1 DEF StatusOf
  <2> QED
    BY <1>2, <2>1, <2>2
<1>3. CASE InQueue(st.Done, id)
  <2>1. ~ IsPending(st, id) /\ ~ InQueue(st.Todo, id) /\ ~ InQueue(st.Failed, id)
    BY <1>3 DEF Conserved
  <2>2. StatusOf(st, id) = "done"
    BY <1>3, <2>1 DEF StatusOf
  <2> QED
    BY <1>3, <2>1, <2>2
<1>4. CASE InQueue(st.Failed, id)
  <2>1. ~ IsPending(st, id) /\ ~ InQueue(st.Todo, id) /\ ~ InQueue(st.Done, id)
    BY <1>4 DEF Conserved
  <2>2. StatusOf(st, id) = "discarded"
    BY <1>4, <2>1 DEF StatusOf
  <2> QED
    BY <1>4, <2>1, <2>2
<1> QED
  BY <1>1, <1>2, <1>3, <1>4 DEF Conserved

----------------------------------------------------------------------------
(* What the handlers do to the pool.                                       *)

LEMMA StatusType ==
    ASSUME NEW st \in MasterState, Conserved(st), NEW id \in TaskIDs
    PROVE  StatusOf(st, id) \in {"pending", "todo", "done", "discarded"}
BY StatusByPlace DEF Conserved

\* A task that keeps its place and its entry looks the same to the pool.
LEMMA SamePlace ==
    ASSUME NEW st \in MasterState, Conserved(st), NEW nx \in MasterState, Conserved(nx),
           NEW id \in TaskIDs,
           IsPending(nx, id) <=> IsPending(st, id),
           InQueue(nx.Todo, id) <=> InQueue(st.Todo, id),
           InQueue(nx.Done, id) <=> InQueue(st.Done, id),
           InQueue(nx.Failed, id) <=> InQueue(st.Failed, id)
    PROVE  StatusOf(nx, id) = StatusOf(st, id)
<1>1. /\ StatusOf(nx, id) = "pending" <=> StatusOf(st, id) = "pending"
      /\ StatusOf(nx, id) = "todo" <=> StatusOf(st, id) = "todo"
      /\ StatusOf(nx, id) = "done" <=> StatusOf(st, id) = "done"
      /\ StatusOf(nx, id) = "discarded" <=> StatusOf(st, id) = "discarded"
  BY StatusByPlace
<1> QED
  BY <1>1, StatusType

LEMMA SameEntry ==
    ASSUME NEW st \in MasterState, Conserved(st), NEW nx \in MasterState, Conserved(nx),
           NEW id \in TaskIDs, \A e : IsEntry(st, id, e) => IsEntry(nx, id, e)
    PROVE  FailuresOf(nx, id) = FailuresOf(st, id)
<1>1. PICK e : IsEntry(st, id, e)
  BY EntryExists
<1> QED
  BY <1>1, EntryFailures

\* The pool after a step that concerns one task.
Elsewhere(st, nx, id) ==
    \A x \in TaskIDs \ {id} :
        StatusOf(nx, x) = StatusOf(st, x) /\ FailuresOf(nx, x) = FailuresOf(st, x)

LEMMA DispatchedPool ==
    ASSUME NEW st \in MasterState, st.Todo # <<>>, Conserved(st), NEW id, id = Head(st.Todo).ID
    PROVE  /\ id \in TaskIDs
           /\ StatusOf(st, id) = "todo" /\ StatusOf(Dispatched(st), id) = "pending"
           /\ FailuresOf(Dispatched(st), id) = FailuresOf(st, id)
           /\ Elsewhere(st, Dispatched(st), id)
<1> DEFINE t == NextEntry(st)
           nx == Dispatched(st)
           h == Head(st.Todo)
<1>1. /\ t \in TaskEntry /\ t.ID = id /\ id \in TaskIDs /\ t # NoEntry
      /\ h \in TaskEntry /\ h.ID = id /\ t.NumFailure = h.NumFailure
  <2>1. h \in TaskEntry
    BY TailQueue DEF MasterState
  <2> QED
    BY <2>1, NextEntryType, NoEntryAssumption DEF TaskEntry, NextEntry
<1>2. nx \in MasterState /\ Conserved(nx)
  BY DispatchedType, DispatchedConserved
<1>3. /\ nx.Todo = Tail(st.Todo) /\ nx.Done = st.Done /\ nx.Failed = st.Failed
      /\ \A x \in TaskIDs : nx.Pending[x] = IF x = id THEN t ELSE st.Pending[x]
  BY <1>1 DEF Dispatched, MasterState
<1>4. /\ \A x \in TaskIDs : InQueue(st.Todo, x) <=> InQueue(Tail(st.Todo), x) \/ x = id
      /\ In(st.Todo, h) /\ \A f : In(st.Todo, f) /\ f # h => In(Tail(st.Todo), f)
  BY <1>1, TailQueue, TailIn DEF MasterState
<1> HIDE DEF nx, t, h
<1>5. StatusOf(st, id) = "todo"
  BY <1>1, <1>4, StatusByPlace
<1>6. StatusOf(nx, id) = "pending"
  BY <1>1, <1>2, <1>3, StatusByPlace DEF IsPending
<1>7. FailuresOf(nx, id) = FailuresOf(st, id)
  <2>1. IsEntry(st, id, h)
    BY <1>1, <1>4 DEF IsEntry
  <2>2. IsEntry(nx, id, t)
    BY <1>1, <1>3 DEF IsEntry
  <2> QED
    BY <2>1, <2>2, <1>1, <1>2, EntryFailures
<1>8. ASSUME NEW x \in TaskIDs \ {id}
      PROVE  StatusOf(nx, x) = StatusOf(st, x) /\ FailuresOf(nx, x) = FailuresOf(st, x)
  <2>1. StatusOf(nx, x) = StatusOf(st, x)
    BY <1>2, <1>3, <1>4, SamePlace DEF IsPending
  <2>2. \A e : IsEntry(st, x, e) => IsEntry(nx, x, e)
    BY <1>1, <1>3, <1>4 DEF IsEntry
  <2>3. FailuresOf(nx, x) = FailuresOf(st, x)
    BY <2>2, <1>2, SameEntry
  <2> QED
    BY <2>1, <2>3
<1> QED
  BY <1>1, <1>5, <1>6, <1>7, <1>8 DEF Elsewhere, nx

LEMMA MovedPool ==
    ASSUME NEW st \in MasterState, NEW id \in TaskIDs, IsPending(st, id), Conserved(st)
    PROVE  /\ StatusOf(st, id) = "pending" /\ StatusOf(MovedToDone(st, id), id) = "done"
           /\ FailuresOf(MovedToDone(st, id), id) = 0
           /\ Elsewhere(st, MovedToDone(st, id), id)
<1> DEFINE e == [st.Pending[id] EXCEPT !.NumFailure = 0]
           nx == MovedToDone(st, id)
<1>1. /\ st.Pending[id] \in TaskEntry /\ st.Pending[id].ID = id
  BY DEF MasterState, IsPending, Conserved
<1>2. e \in TaskEntry /\ e.ID = id /\ e.NumFailure = 0
  BY <1>1 DEF TaskEntry
<1>3. nx \in MasterState /\ Conserved(nx)
  BY FinishedType, MovedToDoneConserved
<1>4. /\ nx.Todo = st.Todo /\ nx.Done = Append(st.Done, e) /\ nx.Failed = st.Failed
      /\ nx.Pending = [st.Pending EXCEPT ![id] = NoEntry]
  BY DEF MovedToDone
<1> HIDE DEF e
<1>5. /\ \A x \in TaskIDs : InQueue(nx.Done, x) <=> InQueue(st.Done, x) \/ x = id
      /\ In(nx.Done, e) /\ \A f : In(st.Done, f) => In(nx.Done, f)
  BY <1>2, <1>4, AppendQueue, AppendIn DEF MasterState
<1>6. \A x \in TaskIDs : nx.Pending[x] = IF x = id THEN NoEntry ELSE st.Pending[x]
  BY <1>4 DEF MasterState
<1> HIDE DEF nx
<1>7. StatusOf(st, id) = "pending" /\ StatusOf(nx, id) = "done"
  BY <1>3, <1>5, StatusByPlace
<1>8. FailuresOf(nx, id) = 0
  <2>1. IsEntry(nx, id, e)
    BY <1>2, <1>5 DEF IsEntry
  <2> QED
    BY <2>1, <1>2, <1>3, EntryFailures
<1>9. ASSUME NEW x \in TaskIDs \ {id}
      PROVE  StatusOf(nx, x) = StatusOf(st, x) /\ FailuresOf(nx, x) = FailuresOf(st, x)
  <2>0. /\ IsPending(nx, x) <=> IsPending(st, x)
        /\ InQueue(nx.Todo, x) <=> InQueue(st.Todo, x)
        /\ InQueue(nx.Done, x) <=> InQueue(st.Done, x)
        /\ InQueue(nx.Failed, x) <=> InQueue(st.Failed, x)
    BY <1>4, <1>5, <1>6 DEF IsPending
  <2>1. StatusOf(nx, x) = StatusOf(st, x)
    BY <2>0, <1>3, SamePlace
  <2>2. \A f : IsEntry(st, x, f) => IsEntry(nx, x, f)
    BY <1>4, <1>5, <1>6 DEF IsEntry
  <2>3. FailuresOf(nx, x) = FailuresOf(st, x)
    BY <2>2, <1>3, SameEntry
  <2> QED
    BY <2>1, <2>3
<1> QED
  BY <1>7, <1>8, <1>9 DEF Elsewhere, nx

\* A new pass runs every task again and forgives no failure.
LEMMA NewPassPool ==
    ASSUME NEW st \in MasterState, PassOver(st), Conserved(st)
    PROVE  /\ NewPass(st) \in MasterState /\ Conserved(NewPass(st))
           /\ \A x \in TaskIDs : /\ StatusOf(NewPass(st), x) = "todo"
                                 /\ FailuresOf(NewPass(st), x) = FailuresOf(st, x)
<1> DEFINE nx == NewPass(st)
<1>1. nx \in MasterState
  BY ConcatQueue DEF NewPass, MasterState
<1>2. Conserved(nx)
  BY NewPassConserved
<1>3. /\ nx.Todo = st.Done \o st.Failed /\ nx.Pending = st.Pending
      /\ nx.Done = <<>> /\ nx.Failed = <<>>
  BY DEF NewPass
<1>4. /\ \A x \in TaskIDs : InQueue(nx.Todo, x) <=> InQueue(st.Done, x) \/ InQueue(st.Failed, x)
      /\ \A f : In(st.Done, f) \/ In(st.Failed, f) => In(nx.Todo, f)
  BY <1>3, ConcatQueue, ConcatIn DEF MasterState
<1> HIDE DEF nx
<1>5. \A f : ~ In(st.Todo, f)
  BY DEF PassOver, In
<1>6. ASSUME NEW x \in TaskIDs
      PROVE  StatusOf(nx, x) = "todo" /\ FailuresOf(nx, x) = FailuresOf(st, x)
  <2>1. ~ IsPending(st, x) /\ ~ InQueue(st.Todo, x)
    BY DEF PassOver, NothingPending, InQueue
  <2>2. InQueue(nx.Todo, x)
    BY <2>1, <1>4 DEF Conserved
  <2>3. StatusOf(nx, x) = "todo"
    BY <2>2, <1>1, <1>2, StatusByPlace
  <2>4. \A f : IsEntry(st, x, f) => IsEntry(nx, x, f)
    BY <1>3, <1>4, <1>5 DEF IsEntry
  <2>5. FailuresOf(nx, x) = FailuresOf(st, x)
    BY <2>4, <1>1, <1>2, SameEntry
  <2> QED
    BY <2>3, <2>5
<1> QED
  BY <1>1, <1>2, <1>6 DEF nx

LEMMA UnfinishedPool ==
    ASSUME NEW st \in MasterState, NEW id \in TaskIDs, IsPending(st, id), Conserved(st)
    PROVE  /\ StatusOf(st, id) = "pending" /\ FailuresOf(st, id) \in Nat
           /\ StatusOf(Unfinished(st, id), id) =
                 IF FailuresOf(st, id) < FailureMax THEN "todo" ELSE "discarded"
           /\ FailuresOf(Unfinished(st, id), id) = FailuresOf(st, id) + 1
           /\ Elsewhere(st, Unfinished(st, id), id)
<1> DEFINE p == st.Pending[id]
           e == [st.Pending[id] EXCEPT !.NumFailure = @ + 1]
           nx == Unfinished(st, id)
<1>1. p \in TaskEntry /\ p.ID = id
  BY DEF MasterState, IsPending, Conserved
<1>2. e \in TaskEntry /\ e.ID = id /\ e.NumFailure = p.NumFailure + 1 /\ p.NumFailure \in Nat
  BY <1>1 DEF TaskEntry
<1>3. nx \in MasterState /\ Conserved(nx)
  BY UnfinishedType, UnfinishedConserved
<1>4. /\ nx.Done = st.Done
      /\ nx.Pending = [st.Pending EXCEPT ![id] = NoEntry]
      /\ nx.Todo = IF e.NumFailure > FailureMax THEN st.Todo ELSE Append(st.Todo, e)
      /\ nx.Failed = IF e.NumFailure > FailureMax THEN Append(st.Failed, e) ELSE st.Failed
  BY DEF Unfinished
<1>5. FailuresOf(st, id) = p.NumFailure
  <2>1. IsEntry(st, id, p)
    BY <1>1 DEF IsEntry
  <2> QED
    BY <2>1, EntryFailures
<1> HIDE DEF e, p
<1>6. \A q \in {st.Todo, st.Failed} :
         /\ \A x \in TaskIDs : InQueue(Append(q, e), x) <=> InQueue(q, x) \/ x = id
         /\ In(Append(q, e), e) /\ \A f : In(q, f) => In(Append(q, e), f)
  BY <1>2, AppendQueue, AppendIn DEF MasterState
<1>7. \A x \in TaskIDs : nx.Pending[x] = IF x = id THEN NoEntry ELSE st.Pending[x]
  BY <1>4 DEF MasterState
<1> HIDE DEF nx
<1>8. e.NumFailure > FailureMax <=> ~ (FailuresOf(st, id) < FailureMax)
  BY <1>2, <1>5, MasterAssumption
<1>9. /\ e.NumFailure > FailureMax => InQueue(nx.Failed, id) /\ In(nx.Failed, e)
      /\ ~ (e.NumFailure > FailureMax) => InQueue(nx.Todo, id) /\ In(nx.Todo, e)
  BY <1>4, <1>6
<1>10. /\ \A x \in TaskIDs \ {id} : /\ InQueue(nx.Todo, x) <=> InQueue(st.Todo, x)
                                    /\ InQueue(nx.Failed, x) <=> InQueue(st.Failed, x)
       /\ \A f : In(st.Todo, f) => In(nx.Todo, f)
       /\ \A f : In(st.Failed, f) => In(nx.Failed, f)
  BY <1>4, <1>6
<1>11. StatusOf(nx, id) = IF FailuresOf(st, id) < FailureMax THEN "todo" ELSE "discarded"
  BY <1>3, <1>8, <1>9, StatusByPlace
<1>12. FailuresOf(nx, id) = FailuresOf(st, id) + 1
  <2>1. IsEntry(nx, id, e)
    BY <1>2, <1>9 DEF IsEntry
  <2> QED
    BY <2>1, <1>2, <1>3, <1>5, EntryFailures
<1>13. ASSUME NEW x \in TaskIDs \ {id}
       PROVE  StatusOf(nx, x) = StatusOf(st, x) /\ FailuresOf(nx, x) = FailuresOf(st, x)
  <2>0. /\ IsPending(nx, x) <=> IsPending(st, x)
        /\ InQueue(nx.Todo, x) <=> InQueue(st.Todo, x)
        /\ InQueue(nx.Done, x) <=> InQueue(st.Done, x)
        /\ InQueue(nx.Failed, x) <=> InQueue(st.Failed, x)
    BY <1>4, <1>7, <1>10 DEF IsPending
  <2>1. StatusOf(nx, x) = StatusOf(st, x)
    BY <2>0, <1>3, SamePlace
  <2>2. \A f : IsEntry(st, x, f) => IsEntry(nx, x, f)
    BY <1>4, <1>7, <1>10 DEF IsEntry
  <2>3. FailuresOf(nx, x) = FailuresOf(st, x)
    BY <2>2, <1>3, SameEntry
  <2> QED
    BY <2>1, <2>3
<1>14. StatusOf(st, id) = "pending"
  BY StatusByPlace
<1> QED
  BY <1>2, <1>5, <1>11, <1>12, <1>13, <1>14 DEF Elsewhere, nx

----------------------------------------------------------------------------
(* The master implements the pool.                                         *)

\* With a store that never fails a ready master works on what it saved, and
\* one that is not ready has not saved anything.
SavedIsCurrent ==
    /\ ready => store # NoState /\ state = store
    /\ up /\ ~ ready => store = NoState
    /\ ~ ready => state.CurPass = 0

PoolStatus(st) == [id \in TaskIDs |-> IF st = NoState THEN "todo" ELSE StatusOf(st, id)]
PoolFailures(st) == [id \in TaskIDs |-> IF st = NoState THEN 0 ELSE FailuresOf(st, id)]
PoolPass(st) == IF st = NoState THEN 0 ELSE st.CurPass

\* A step of the pool, as one of the snapshot from st to nx.
PoolStepFrom(st, nx) ==
    \/ /\ st = NoState /\ nx # NoState
       /\ PoolStatus(nx) = PoolStatus(st) /\ PoolFailures(nx) = PoolFailures(st)
       /\ PoolPass(nx) = PoolPass(st)
    \/ /\ st # NoState /\ nx # NoState
       /\ \E id \in TaskIDs :
            \/ /\ PoolStatus(st)[id] = "todo"
               /\ PoolStatus(nx) = [PoolStatus(st) EXCEPT ![id] = "pending"]
               /\ PoolFailures(nx) = PoolFailures(st) /\ PoolPass(nx) = PoolPass(st)
            \/ /\ PoolStatus(st)[id] = "pending"
               /\ ~ \A x \in TaskIDs \ {id} : PoolStatus(st)[x] \in {"done", "discarded"}
               /\ PoolStatus(nx) = [PoolStatus(st) EXCEPT ![id] = "done"]
               /\ PoolFailures(nx) = [PoolFailures(st) EXCEPT ![id] = 0]
               /\ PoolPass(nx) = PoolPass(st)
            \/ /\ PoolStatus(st)[id] = "pending"
               /\ \A x \in TaskIDs \ {id} : PoolStatus(st)[x] \in {"done", "discarded"}
               /\ PoolStatus(nx) = [x \in TaskIDs |-> "todo"]
               /\ PoolFailures(nx) = [PoolFailures(st) EXCEPT ![id] = 0]
               /\ PoolPass(nx) = PoolPass(st) + 1
            \/ /\ PoolStatus(st)[id] = "pending" /\ PoolFailures(st)[id] < FailureMax
               /\ PoolStatus(nx) = [PoolStatus(st) EXCEPT ![id] = "todo"]
               /\ PoolFailures(nx) = [PoolFailures(st) EXCEPT ![id] = @ + 1]
               /\ PoolPass(nx) = PoolPass(st)
            \/ /\ PoolStatus(st)[id] = "pending" /\ PoolFailures(st)[id] >= FailureMax
               /\ PoolStatus(nx) = [PoolStatus(st) EXCEPT ![id] = "discarded"]
               /\ PoolFailures(nx) = [PoolFailures(st) EXCEPT ![id] = @ + 1]
               /\ PoolPass(nx) = PoolPass(st)

LEMMA StepIsPoolStep ==
    ASSUME PoolStepFrom(store, store')
    PROVE  Pool!PoolNext
<1> DEFINE S == PoolStatus(store)
           F == PoolFailures(store)
           P == PoolPass(store)
<1>0. Pool!PoolIDs = TaskIDs
  BY DEF Pool!PoolIDs, TaskIDs
<1>1. CASE /\ store = NoState /\ store' # NoState /\ S' = S /\ F' = F /\ P' = P
  <2>1. Pool!Load
    BY <1>1 DEF Pool!Load, PoolStatus, PoolFailures, PoolPass
  <2> QED
    BY <2>1 DEF Pool!PoolNext
<1>2. ASSUME store # NoState, store' # NoState, NEW id \in TaskIDs,
             S[id] = "todo", S' = [S EXCEPT ![id] = "pending"], F' = F, P' = P
      PROVE  Pool!PoolNext
  <2>1. Pool!Dispatch(id)
    BY <1>2 DEF Pool!Dispatch, PoolStatus, PoolFailures, PoolPass
  <2> QED
    BY <2>1, <1>0 DEF Pool!PoolNext
<1>3. ASSUME store # NoState, store' # NoState, NEW id \in TaskIDs, S[id] = "pending",
             ~ \A x \in TaskIDs \ {id} : S[x] \in {"done", "discarded"},
             S' = [S EXCEPT ![id] = "done"], F' = [F EXCEPT ![id] = 0], P' = P
      PROVE  Pool!PoolNext
  <2>1. Pool!Finish(id)
    BY <1>0, <1>3 DEF Pool!Finish, Pool!LastOfPass, PoolStatus, PoolFailures, PoolPass
  <2> QED
    BY <2>1, <1>0 DEF Pool!PoolNext
<1>4. ASSUME store # NoState, store' # NoState, NEW id \in TaskIDs, S[id] = "pending",
             \A x \in TaskIDs \ {id} : S[x] \in {"done", "discarded"},
             S' = [x \in TaskIDs |-> "todo"], F' = [F EXCEPT ![id] = 0], P' = P + 1
      PROVE  Pool!PoolNext
  <2>1. Pool!FinishPass(id)
    BY <1>0, <1>4 DEF Pool!FinishPass, Pool!LastOfPass, PoolStatus, PoolFailures, PoolPass
  <2> QED
    BY <2>1, <1>0 DEF Pool!PoolNext
<1>5. ASSUME store # NoState, store' # NoState, NEW id \in TaskIDs, S[id] = "pending",
             F[id] < FailureMax,
             S' = [S EXCEPT ![id] = "todo"], F' = [F EXCEPT ![id] = @ + 1], P' = P
      PROVE  Pool!PoolNext
  <2>1. Pool!Retry(id)
    BY <1>5 DEF Pool!Retry, PoolStatus, PoolFailures, PoolPass
  <2> QED
    BY <2>1, <1>0 DEF Pool!PoolNext
<1>6. ASSUME store # NoState, store' # NoState, NEW id \in TaskIDs, S[id] = "pending",
             F[id] >= FailureMax,
             S' = [S EXCEPT ![id] = "discarded"], F' = [F EXCEPT ![id] = @ + 1], P' = P
      PROVE  Pool!PoolNext
  <2>1. Pool!Discard(id)
    BY <1>6 DEF Pool!Discard, PoolStatus, PoolFailures, PoolPass
  <2> QED
    BY <2>1, <1>0 DEF Pool!PoolNext
<1>7. S' = PoolStatus(store') /\ F' = PoolFailures(store') /\ P' = PoolPass(store')
  BY DEF PoolStatus, PoolFailures, PoolPass
<1> HIDE DEF S, F, P
<1> QED
  BY <1>1, <1>2, <1>3, <1>4, <1>5, <1>6, <1>7 DEF PoolStepFrom, S, F, P

LEMMA NoStateIsNone == ASSUME NEW st \in MasterState PROVE st # NoState
BY NoStateAssumption

\* The functions of the pool after a step that concerns one task.
LEMMA OneChange ==
    ASSUME NEW st \in MasterState, NEW nx \in MasterState, NEW id \in TaskIDs,
           Elsewhere(st, nx, id)
    PROVE  /\ PoolStatus(nx) = [PoolStatus(st) EXCEPT ![id] = StatusOf(nx, id)]
           /\ PoolFailures(nx) = [PoolFailures(st) EXCEPT ![id] = FailuresOf(nx, id)]
           /\ PoolStatus(st)[id] = StatusOf(st, id)
           /\ PoolFailures(st)[id] = FailuresOf(st, id)
BY NoStateIsNone DEF PoolStatus, PoolFailures, Elsewhere

LEMMA DispatchedStep ==
    ASSUME NEW st \in MasterState, st.Todo # <<>>, Conserved(st)
    PROVE  PoolStepFrom(st, Dispatched(st))
<1> DEFINE nx == Dispatched(st)
           id == Head(st.Todo).ID
<1>1. nx \in MasterState /\ st # NoState /\ nx # NoState
  BY DispatchedType, NoStateIsNone
<1>2. /\ id \in TaskIDs
      /\ StatusOf(st, id) = "todo" /\ StatusOf(nx, id) = "pending"
      /\ FailuresOf(nx, id) = FailuresOf(st, id)
      /\ Elsewhere(st, nx, id)
  BY DispatchedPool
<1>3. PoolPass(nx) = PoolPass(st)
  BY <1>1 DEF PoolPass, Dispatched
<1> HIDE DEF nx, id
<1>4. /\ PoolStatus(nx) = [PoolStatus(st) EXCEPT ![id] = "pending"]
      /\ PoolFailures(nx) = [PoolFailures(st) EXCEPT ![id] = PoolFailures(st)[id]]
      /\ PoolStatus(st)[id] = "todo"
  BY <1>1, <1>2, OneChange
<1>5. PoolFailures(nx) = PoolFailures(st)
  BY <1>2, <1>4 DEF PoolFailures
<1> QED
  BY <1>1, <1>2, <1>3, <1>4, <1>5 DEF PoolStepFrom, nx

\* The queues are empty where the pool has no such task.
LEMMA LastIsPassOver ==
    ASSUME NEW st \in MasterState, NEW id \in TaskIDs, IsPending(st, id), Conserved(st)
    PROVE  PassOver(MovedToDone(st, id)) <=>
             \A x \in TaskIDs \ {id} : PoolStatus(st)[x] \in {"done", "discarded"}
<1> DEFINE nx == MovedToDone(st, id)
<1>1. /\ nx.Todo = st.Todo
      /\ \A x \in TaskIDs : nx.Pending[x] = IF x = id THEN NoEntry ELSE st.Pending[x]
  BY DEF MovedToDone, MasterState
<1> HIDE DEF nx
<1>2. \A x \in TaskIDs : PoolStatus(st)[x] = StatusOf(st, x)
  BY NoStateIsNone DEF PoolStatus
<1>3. \A x \in TaskIDs : PoolStatus(st)[x] \in {"done", "discarded"} <=>
                          ~ IsPending(st, x) /\ ~ InQueue(st.Todo, x)
  BY <1>2, StatusByPlace, StatusType
<1>4. st.Todo = <<>> <=> \A x \in TaskIDs : ~ InQueue(st.Todo, x)
  <2>1. ASSUME st.Todo # <<>> PROVE \E x \in TaskIDs : InQueue(st.Todo, x)
    <3>1. Len(st.Todo) \in Nat /\ 1 \in 1..Len(st.Todo) /\ st.Todo[1] \in TaskEntry
      BY <2>1 DEF MasterState
    <3> QED
      BY <3>1 DEF InQueue, TaskEntry
  <2>2. ASSUME st.Todo = <<>> PROVE \A x \in TaskIDs : ~ InQueue(st.Todo, x)
    BY <2>2 DEF InQueue
  <2> QED
    BY <2>1, <2>2
<1>5. ~ InQueue(st.Todo, id)
  BY DEF Conserved
<1>6. NothingPending(nx) <=> \A x \in TaskIDs \ {id} : ~ IsPending(st, x)
  BY <1>1 DEF NothingPending, IsPending
<1> QED
  BY <1>1, <1>3, <1>4, <1>5, <1>6 DEF PassOver, nx

LEMMA FinishedStep ==
    ASSUME NEW st \in MasterState, NEW id \in TaskIDs, IsPending(st, id), Conserved(st)
    PROVE  PoolStepFrom(st, Finished(st, id))
<1> DEFINE mv == MovedToDone(st, id)
           Last == \A x \in TaskIDs \ {id} : PoolStatus(st)[x] \in {"done", "discarded"}
<1>1. mv \in MasterState /\ st # NoState /\ mv # NoState /\ Conserved(mv)
  BY FinishedType, MovedToDoneConserved, NoStateIsNone
<1>2. /\ StatusOf(st, id) = "pending" /\ StatusOf(mv, id) = "done" /\ FailuresOf(mv, id) = 0
      /\ Elsewhere(st, mv, id)
  BY MovedPool
<1>3. PoolPass(mv) = PoolPass(st) /\ PoolPass(st) = st.CurPass /\ mv.CurPass = st.CurPass
  BY <1>1 DEF PoolPass, MovedToDone
<1>4. PassOver(mv) <=> Last
  BY LastIsPassOver
<1> HIDE DEF mv, Last
<1>5. /\ PoolStatus(mv) = [PoolStatus(st) EXCEPT ![id] = "done"]
      /\ PoolFailures(mv) = [PoolFailures(st) EXCEPT ![id] = 0]
      /\ PoolStatus(st)[id] = "pending"
  BY <1>1, <1>2, OneChange
<1>6. CASE ~ PassOver(mv)
  <2>1. Finished(st, id) = mv
    BY <1>6 DEF Finished, mv
  <2> QED
    BY <2>1, <1>1, <1>3, <1>4, <1>5, <1>6 DEF PoolStepFrom, Last
<1>7. CASE PassOver(mv)
  <2> DEFINE nx == NewPass(mv)
  <2>1. Finished(st, id) = nx
    BY <1>7 DEF Finished, mv
  <2>2. /\ nx \in MasterState
        /\ \A x \in TaskIDs : StatusOf(nx, x) = "todo" /\ FailuresOf(nx, x) = FailuresOf(mv, x)
    BY <1>1, <1>7, NewPassPool
  <2>3. nx # NoState
    BY <2>2, NoStateIsNone
  <2>4. PoolPass(nx) = PoolPass(st) + 1
    BY <1>3, <2>3 DEF PoolPass, NewPass
  <2> HIDE DEF nx
  <2>5. PoolStatus(nx) = [x \in TaskIDs |-> "todo"]
    BY <2>2, <2>3 DEF PoolStatus
  <2>6. PoolFailures(nx) = PoolFailures(mv)
    BY <1>1, <2>2, <2>3 DEF PoolFailures
  <2> QED
    BY <2>1, <2>3, <2>4, <2>5, <2>6, <1>1, <1>4, <1>5, <1>7 DEF PoolStepFrom, Last
<1> QED
  BY <1>6, <1>7

LEMMA UnfinishedStep ==
    ASSUME NEW st \in MasterState, NEW id \in TaskIDs, IsPending(st, id), Conserved(st)
    PROVE  PoolStepFrom(st, Unfinished(st, id))
<1> DEFINE nx == Unfinished(st, id)
<1>1. nx \in MasterState /\ st # NoState /\ nx # NoState
  BY UnfinishedType, NoStateIsNone
<1>2. /\ StatusOf(st, id) = "pending" /\ FailuresOf(st, id) \in Nat
      /\ StatusOf(nx, id) = IF FailuresOf(st, id) < FailureMax THEN "todo" ELSE "discarded"
      /\ FailuresOf(nx, id) = FailuresOf(st, id) + 1
      /\ Elsewhere(st, nx, id)
  BY UnfinishedPool
<1>3. PoolPass(nx) = PoolPass(st)
  BY <1>1 DEF PoolPass, Unfinished
<1> HIDE DEF nx
<1>4. /\ PoolStatus(nx) = [PoolStatus(st) EXCEPT ![id] = StatusOf(nx, id)]
      /\ PoolFailures(nx) = [PoolFailures(st) EXCEPT ![id] = FailuresOf(nx, id)]
      /\ PoolStatus(st)[id] = "pending" /\ PoolFailures(st)[id] = FailuresOf(st, id)
  BY <1>1, <1>2, OneChange
<1>5. PoolFailures(nx) = [PoolFailures(st) EXCEPT ![id] = @ + 1]
  BY <1>2, <1>4
<1>6. CASE FailuresOf(st, id) < FailureMax
  <2>1. PoolStatus(nx) = [PoolStatus(st) EXCEPT ![id] = "todo"] /\ PoolFailures(st)[id] < FailureMax
    BY <1>2, <1>4, <1>6
  <2> QED
    BY <2>1, <1>1, <1>3, <1>4, <1>5 DEF PoolStepFrom, nx
<1>7. CASE ~ (FailuresOf(st, id) < FailureMax)
  <2>1. /\ PoolStatus(nx) = [PoolStatus(st) EXCEPT ![id] = "discarded"]
        /\ PoolFailures(st)[id] >= FailureMax
    BY <1>2, <1>4, <1>7, MasterAssumption
  <2> QED
    BY <2>1, <1>1, <1>3, <1>4, <1>5 DEF PoolStepFrom, nx
<1> QED
  BY <1>6, <1>7

\* The queues of a dataset that was just set: all tasks wait, none has failed.
LEMMA FreshStep ==
    ASSUME NEW st \in MasterState, NothingPending(st), st.Done = <<>>, st.Failed = <<>>,
           st.CurPass = 0, NEW nx, nx = [st EXCEPT !.Todo = partition],
           nx \in MasterState, Conserved(nx)
    PROVE  PoolStepFrom(NoState, nx)
<1>1. nx # NoState
  BY NoStateIsNone
<1>2. nx.Todo = partition /\ nx.CurPass = 0
  BY DEF MasterState
<1>3. ASSUME NEW x \in TaskIDs PROVE StatusOf(nx, x) = "todo" /\ FailuresOf(nx, x) = 0
  <2>1. StatusOf(nx, x) = "todo"
    BY <1>2, PartitionQueue, StatusByPlace
  <2> DEFINE e == [ID |-> x, Epoch |-> 0, NumFailure |-> 0]
  <2>2. e \in TaskEntry /\ e.ID = x /\ e.NumFailure = 0
    BY DEF TaskEntry
  <2>3. In(partition, e)
    <3>1. x \in 1..Len(partition) /\ partition[x] = e
      BY MasterAssumption DEF partition, TaskIDs
    <3> QED
      BY <3>1 DEF In
  <2> HIDE DEF e
  <2>4. IsEntry(nx, x, e)
    BY <1>2, <2>2, <2>3 DEF IsEntry
  <2>5. FailuresOf(nx, x) = 0
    BY <2>2, <2>4, EntryFailures
  <2> QED
    BY <2>1, <2>5
<1>4. PoolStatus(nx) = PoolStatus(NoState) /\ PoolFailures(nx) = PoolFailures(NoState)
  BY <1>1, <1>3 DEF PoolStatus, PoolFailures
<1>5. PoolPass(nx) = PoolPass(NoState)
  BY <1>1, <1>2 DEF PoolPass
<1> QED
  BY <1>1, <1>4, <1>5 DEF PoolStepFrom

\* processFailedTask, called by TaskFailed or by a timer.
LEMMA ProcessFailedTaskStep ==
    ASSUME MasterInv, SavedIsCurrent, NEW meta \in TaskMeta, processFailedTask(meta, "ok")
    PROVE  PoolStepFrom(store, store') /\ store' = state' /\ ready /\ store' # NoState
<1>1. meta.ID \in TaskIDs /\ IsPending(state, meta.ID)
  BY DEF processFailedTask, TaskMeta
<1>2. ready
  BY <1>1 DEF MasterInv, UnreadyIsFresh, NothingPending
<1>3. state \in MasterState /\ Conserved(state) /\ store = state
  BY <1>2 DEF SavedIsCurrent, MasterInv, TypeOK, TasksConserved
<1>4. store' = Unfinished(state, meta.ID) /\ state' = store'
  BY DEF processFailedTask, snapshot
<1>5. PoolStepFrom(state, Unfinished(state, meta.ID)) /\ Unfinished(state, meta.ID) # NoState
  BY <1>1, <1>3, UnfinishedStep, UnfinishedType, NoStateIsNone
<1> QED
  BY <1>2, <1>3, <1>4, <1>5

\* Each step of the master is a step of the pool or leaves the snapshot alone.
LEMMA MasterStep ==
    ASSUME SaveFaults = FALSE, MasterInv, MasterInv', SavedIsCurrent, [Next]_vars
    PROVE  /\ SavedIsCurrent'
           /\ PoolStepFrom(store, store') \/ store' = store
<1>0. \A saved \in SaveOutcomes : saved = "ok"
  BY DEF SaveOutcomes
<1>t. state \in MasterState
  BY DEF MasterInv, TypeOK
<1>1. ASSUME NEW saved \in SaveOutcomes, SetDataset(saved)
      PROVE  SavedIsCurrent' /\ PoolStepFrom(store, store')
  <2>1. /\ state' = [state EXCEPT !.Todo = partition] /\ store' = state' /\ ready'
        /\ store = NoState /\ ~ ready /\ up
    BY <1>0, <1>1 DEF SetDataset, snapshot, SavedIsCurrent
  <2>2. NothingPending(state) /\ state.Done = <<>> /\ state.Failed = <<>> /\ state.CurPass = 0
    BY <2>1 DEF MasterInv, UnreadyIsFresh, SavedIsCurrent
  <2>3. state' \in MasterState /\ Conserved(state')
    BY <2>1 DEF MasterInv, TypeOK, TasksConserved, Conserved, IsPending
  <2>4. PoolStepFrom(NoState, state')
    BY <1>t, <2>1, <2>2, <2>3, FreshStep
  <2> QED
    BY <2>1, <2>3, <2>4, NoStateIsNone DEF SavedIsCurrent
<1>2. ASSUME NEW saved \in SaveOutcomes, NEW passID \in Passes, GetTask(passID, saved)
      PROVE  SavedIsCurrent' /\ PoolStepFrom(store, store')
  <2>1. /\ state' = Dispatched(state) /\ store' = state' /\ ready' /\ state.Todo # <<>>
        /\ store = state /\ Conserved(state)
    BY <1>0, <1>2 DEF GetTask, CanDispatch, snapshot, SavedIsCurrent, MasterInv, TasksConserved
  <2>2. PoolStepFrom(state, Dispatched(state)) /\ Dispatched(state) # NoState
    BY <1>t, <2>1, DispatchedStep, DispatchedType, NoStateIsNone
  <2> QED
    BY <2>1, <2>2 DEF SavedIsCurrent
<1>3. ASSUME NEW saved \in SaveOutcomes, NEW id \in TaskIDs, TaskFinished(id, saved)
      PROVE  SavedIsCurrent' /\ PoolStepFrom(store, store')
  <2>1. /\ state' = Finished(state, id) /\ store' = state' /\ ready' /\ IsPending(state, id)
        /\ store = state /\ Conserved(state)
    BY <1>0, <1>3 DEF TaskFinished, snapshot, SavedIsCurrent, MasterInv, TasksConserved
  <2>2. PoolStepFrom(state, Finished(state, id)) /\ Finished(state, id) # NoState
    BY <1>t, <2>1, FinishedStep, FinishedType, NoStateIsNone
  <2> QED
    BY <2>1, <2>2 DEF SavedIsCurrent
<1>4. ASSUME NEW saved \in SaveOutcomes, NEW meta \in handed, TaskFailed(meta, saved)
      PROVE  SavedIsCurrent' /\ PoolStepFrom(store, store')
  <2>1. meta \in TaskMeta /\ processFailedTask(meta, "ok") /\ ready' = ready
    BY <1>0, <1>4 DEF TaskFailed, MasterInv, TypeOK
  <2> QED
    BY <2>1, ProcessFailedTaskStep DEF SavedIsCurrent
<1>5. ASSUME NEW saved \in SaveOutcomes, NEW meta \in timers, checkTimeoutFunc(meta, saved)
      PROVE  SavedIsCurrent' /\ (PoolStepFrom(store, store') \/ store' = store)
  <2>1. meta \in TaskMeta /\ ready' = ready /\ up' = up
    BY <1>5 DEF checkTimeoutFunc, MasterInv, TypeOK
  <2>2. CASE processFailedTask(meta, saved)
    BY <1>0, <2>1, <2>2, ProcessFailedTaskStep DEF SavedIsCurrent
  <2>3. CASE UNCHANGED <<state, store>>
    BY <2>1, <2>3 DEF SavedIsCurrent
  <2> QED
    BY <1>5, <2>2, <2>3 DEF checkTimeoutFunc
<1>6. CASE Crash
  BY <1>6 DEF Crash, SavedIsCurrent, EmptyState
<1>7. CASE NewService
  BY <1>7 DEF NewService, SavedIsCurrent
<1>8. CASE UNCHANGED vars
  BY <1>8 DEF vars, SavedIsCurrent
<1> QED
  BY <1>1, <1>2, <1>3, <1>4, <1>5, <1>6, <1>7, <1>8 DEF Next

\* The master with a store that never fails implements TaskPool: every step of
\* it is one step of the pool or none, whatever crashes, recoveries, late
\* reports and expired timers there are.
THEOREM MasterImplementsPool ==
    ASSUME SaveFaults = FALSE
    PROVE  Spec => ImplementsTaskPool
<1>1. Init => Pool!PoolInit
  BY DEF Init, Pool!PoolInit, Pool!PoolIDs, TaskIDs
<1>2. Init => SavedIsCurrent
  BY DEF Init, SavedIsCurrent, EmptyState
<1>3. MasterInv /\ MasterInv' /\ SavedIsCurrent /\ [Next]_vars
        => SavedIsCurrent' /\ [Pool!PoolNext]_(Pool!poolVars)
  <2> SUFFICES ASSUME MasterInv, MasterInv', SavedIsCurrent, [Next]_vars
               PROVE  SavedIsCurrent' /\ [Pool!PoolNext]_(Pool!poolVars)
    OBVIOUS
  <2>1. SavedIsCurrent' /\ (PoolStepFrom(store, store') \/ store' = store)
    BY MasterStep
  <2>2. ASSUME store' = store PROVE UNCHANGED Pool!poolVars
    BY <2>2 DEF Pool!poolVars
  <2> QED
    BY <2>1, <2>2, StepIsPoolStep
<1> QED
  BY <1>1, <1>2, <1>3, MasterInvariant, PTL DEF Spec, ImplementsTaskPool, Pool!PoolSpec

----------------------------------------------------------------------------
(* A job goes through the whole dataset in every pass.                     *)

\* Trainers in their loop ask for a pass of the job, and what they hold was
\* handed out.
Looping == {"set", "get", "reply", "work", "fin"}

TrainersKnown ==
    \A t \in Trainers :
        /\ pc[t] \in Looping => pass[t] < NumPasses
        /\ pc[t] \in {"reply", "work", "fin"} => task[t] \in handed

\* The pass counter does not leave the passes of the job, and nothing runs or
\* is done after the last.
WithinPasses(st) ==
    \/ st.CurPass < NumPasses
    \/ st.CurPass = NumPasses /\ NothingPending(st) /\ st.Done = <<>>

PassesBounded ==
    /\ WithinPasses(state)
    /\ ~ ready => state.CurPass = 0
    /\ store # NoState => WithinPasses(store)

\* What a pass owes to a task, discards included.
Due(st, id) ==
    st.CurPass + (IF InQueue(st.Done, id) \/ InQueue(st.Failed, id) THEN 1 ELSE 0)

\* The amounts due now, and due after a recovery.
IsDue(id, w) ==
    \/ w = 0
    \/ ready /\ w = Due(state, id)
    \/ store # NoState /\ w = Due(store, id)

\* Trainers that have read the task and not reported it.
Reporting(id) == {t \in Trainers : pc[t] = "fin" /\ task[t].ID = id}

\* r reads and d discards pay for n; the counters stop at NumPasses.
Pays(r, d, n) == r = NumPasses \/ d = NumPasses \/ r + d >= n

\* Every amount due, and one read for each report that is still to come, is
\* paid: a report is never accepted without a read of its own.
AllPaid ==
    \A id \in TaskIDs : \A w \in Nat :
        IsDue(id, w) => Pays(reads[id], discards[id], w + Cardinality(Reporting(id)))

JobInv == MasterInv /\ JobTypeOK /\ TrainersKnown /\ PassesBounded /\ AllPaid

\* What the handlers do to the amount due and to the passes.
LEMMA DueAfterDispatch ==
    ASSUME NEW st \in MasterState, st.Todo # <<>>, st.CurPass < NumPasses
    PROVE  /\ \A x \in TaskIDs : Due(Dispatched(st), x) = Due(st, x)
           /\ WithinPasses(Dispatched(st))
BY DEF Dispatched, Due, WithinPasses

LEMMA DueAfterFinish ==
    ASSUME NEW st \in MasterState, NEW id \in TaskIDs, IsPending(st, id), Conserved(st),
           WithinPasses(st)
    PROVE  /\ \A x \in TaskIDs \ {id} : Due(Finished(st, id), x) = Due(st, x)
           /\ Due(Finished(st, id), id) = Due(st, id) + 1
           /\ WithinPasses(Finished(st, id))
<1> DEFINE mv == MovedToDone(st, id)
           e == [st.Pending[id] EXCEPT !.NumFailure = 0]
<1>1. st.CurPass \in Nat /\ st.CurPass < NumPasses
  BY DEF MasterState, WithinPasses, NothingPending
<1>2. e \in TaskEntry /\ e.ID = id
  <2>1. st.Pending[id] \in TaskEntry /\ st.Pending[id].ID = id
    BY DEF MasterState, IsPending, Conserved
  <2> QED
    BY <2>1 DEF TaskEntry
<1>3. mv \in MasterState /\ Conserved(mv)
  BY FinishedType, MovedToDoneConserved
<1>4. mv.Done = Append(st.Done, e) /\ mv.Failed = st.Failed /\ mv.CurPass = st.CurPass
  BY DEF MovedToDone
<1> HIDE DEF e
<1>5. \A x \in TaskIDs : InQueue(mv.Done, x) <=> InQueue(st.Done, x) \/ x = id
  BY <1>2, <1>4, AppendQueue DEF MasterState
<1> HIDE DEF mv
<1>6. ~ InQueue(st.Done, id) /\ ~ InQueue(st.Failed, id)
  BY DEF Conserved
<1>7. /\ \A x \in TaskIDs \ {id} : Due(mv, x) = Due(st, x)
      /\ Due(mv, id) = Due(st, id) + 1
  BY <1>1, <1>4, <1>5, <1>6 DEF Due
<1>8. CASE ~ PassOver(mv)
  BY <1>1, <1>4, <1>7, <1>8 DEF Finished, mv, WithinPasses
<1>9. CASE PassOver(mv)
  <2> DEFINE nx == NewPass(mv)
  <2>1. Finished(st, id) = nx
    BY <1>9 DEF Finished, mv
  <2>2. /\ nx.CurPass = mv.CurPass + 1 /\ nx.Pending = mv.Pending
        /\ nx.Done = <<>> /\ nx.Failed = <<>>
    BY DEF NewPass
  <2> HIDE DEF nx
  <2>3. \A x \in TaskIDs : ~ InQueue(nx.Done, x) /\ ~ InQueue(nx.Failed, x)
    BY <2>2 DEF InQueue
  <2>4. \A x \in TaskIDs : InQueue(mv.Done, x) \/ InQueue(mv.Failed, x)
    BY <1>3, <1>9 DEF Conserved, PassOver, NothingPending, InQueue
  <2>5. \A x \in TaskIDs : Due(nx, x) = Due(mv, x)
    BY <1>1, <1>4, <2>2, <2>3, <2>4 DEF Due
  <2>6. WithinPasses(nx)
    BY <1>1, <1>4, <1>9, <2>2, MasterAssumption DEF WithinPasses, PassOver, NothingPending, IsPending
  <2> QED
    BY <1>7, <2>1, <2>5, <2>6
<1> QED
  BY <1>8, <1>9

LEMMA DueAfterFailure ==
    ASSUME NEW st \in MasterState, NEW id \in TaskIDs, IsPending(st, id), Conserved(st),
           WithinPasses(st)
    PROVE  /\ \A x \in TaskIDs : Due(Unfinished(st, id), x) =
                 IF InQueue(Unfinished(st, id).Failed, x) /\ ~ InQueue(st.Failed, x)
                 THEN Due(st, x) + 1 ELSE Due(st, x)
           /\ WithinPasses(Unfinished(st, id))
<1> DEFINE nx == Unfinished(st, id)
           e == [st.Pending[id] EXCEPT !.NumFailure = @ + 1]
<1>1. st.CurPass \in Nat /\ st.CurPass < NumPasses
  BY DEF MasterState, WithinPasses, NothingPending
<1>2. e \in TaskEntry /\ e.ID = id
  <2>1. st.Pending[id] \in TaskEntry /\ st.Pending[id].ID = id
    BY DEF MasterState, IsPending, Conserved
  <2> QED
    BY <2>1 DEF TaskEntry
<1>3. /\ nx.Done = st.Done /\ nx.CurPass = st.CurPass
      /\ nx.Failed = Append(st.Failed, e) \/ nx.Failed = st.Failed
  BY DEF Unfinished
<1> HIDE DEF nx, e
<1>4. \A x \in TaskIDs : InQueue(Append(st.Failed, e), x) <=> InQueue(st.Failed, x) \/ x = id
  BY <1>2, AppendQueue DEF MasterState
<1>5. ~ InQueue(st.Done, id) /\ ~ InQueue(st.Failed, id)
  BY DEF Conserved
<1>6. \A x \in TaskIDs : Due(nx, x) = IF InQueue(nx.Failed, x) /\ ~ InQueue(st.Failed, x)
                                     THEN Due(st, x) + 1 ELSE Due(st, x)
  <2> SUFFICES ASSUME NEW x \in TaskIDs
               PROVE  Due(nx, x) = IF InQueue(nx.Failed, x) /\ ~ InQueue(st.Failed, x)
                                   THEN Due(st, x) + 1 ELSE Due(st, x)
    OBVIOUS
  <2>1. CASE nx.Failed = st.Failed
    BY <2>1, <1>3 DEF Due
  <2>2. CASE nx.Failed = Append(st.Failed, e)
    BY <2>2, <1>1, <1>3, <1>4, <1>5 DEF Due
  <2> QED
    BY <2>1, <2>2, <1>3
<1> QED
  BY <1>1, <1>3, <1>6 DEF WithinPasses, nx

LEMMA DueType == ASSUME NEW st \in MasterState, NEW id \in TaskIDs PROVE Due(st, id) \in Nat
BY DEF Due, MasterState

\* After a handler that takes state to nx nothing is due that was not due in
\* state or in the store, or is due in nx.
LEMMA DueAfterSave ==
    ASSUME MasterInv, NEW saved \in SaveOutcomes, snapshot(saved), ready,
           NEW id \in TaskIDs, NEW w, IsDue(id, w)'
    PROVE  IsDue(id, w) \/ w = Due(state', id)
BY DEF IsDue, snapshot, Due, InQueue

\* One master's step: nothing becomes due for a task, except by a report that
\* is accepted or by a discard.
LEMMA DueOfSetDataset ==
    ASSUME MasterInv, PassesBounded, NEW saved \in SaveOutcomes, SetDataset(saved)
    PROVE  /\ \A id \in TaskIDs : \A w : IsDue(id, w)' => IsDue(id, w)
           /\ PassesBounded'
<1>1. /\ state' = [state EXCEPT !.Todo = partition] /\ (store' = store \/ store' = state')
      /\ state \in MasterState /\ ~ ready
  BY DEF SetDataset, snapshot, MasterInv, TypeOK
<1>2. /\ state'.CurPass = 0 /\ state'.Done = <<>> /\ state'.Failed = <<>>
      /\ state'.Pending = state.Pending /\ NothingPending(state)
  BY <1>1 DEF MasterState, MasterInv, UnreadyIsFresh, PassesBounded
<1>3. \A id \in TaskIDs : Due(state', id) = 0
  BY <1>2 DEF Due, InQueue
<1>4. WithinPasses(state')
  BY <1>2, MasterAssumption DEF WithinPasses, NothingPending, IsPending
<1>5. PassesBounded'
  BY <1>1, <1>2, <1>4 DEF PassesBounded, WithinPasses, NothingPending, IsPending
<1>6. ASSUME NEW id \in TaskIDs, NEW w, IsDue(id, w)' PROVE IsDue(id, w)
  <2>1. w = 0 \/ (store' # NoState /\ w = Due(store', id)) \/ w = Due(state', id)
    BY <1>6 DEF IsDue, Due, InQueue
  <2> QED
    BY <2>1, <1>1, <1>3 DEF IsDue
<1> QED
  BY <1>5, <1>6

LEMMA DueOfGetTask ==
    ASSUME MasterInv, PassesBounded, NEW saved \in SaveOutcomes, NEW passID \in Passes,
           GetTask(passID, saved)
    PROVE  /\ \A id \in TaskIDs : \A w : IsDue(id, w)' => IsDue(id, w)
           /\ PassesBounded'
<1>1. /\ state' = Dispatched(state) /\ state.Todo # <<>> /\ state.CurPass < NumPasses
      /\ state \in MasterState /\ ready /\ ready' /\ snapshot(saved)
      /\ store' = store \/ store' = state'
  BY MasterAssumption DEF GetTask, CanDispatch, Passes, MasterInv, TypeOK, snapshot
<1>2. WithinPasses(state') /\ \A x \in TaskIDs : Due(state', x) = Due(state, x)
  BY <1>1, DueAfterDispatch
<1>3. PassesBounded'
  BY <1>1, <1>2 DEF PassesBounded, WithinPasses, NothingPending, IsPending
<1>4. ASSUME NEW id \in TaskIDs, NEW w, IsDue(id, w)' PROVE IsDue(id, w)
  <2>1. IsDue(id, w) \/ w = Due(state', id)
    BY <1>1, <1>4, DueAfterSave
  <2> QED
    BY <2>1, <1>1, <1>2 DEF IsDue
<1> QED
  BY <1>3, <1>4

LEMMA DueOfTaskFinished ==
    ASSUME MasterInv, PassesBounded, NEW saved \in SaveOutcomes, NEW i \in TaskIDs,
           TaskFinished(i, saved)
    PROVE  /\ \A id \in TaskIDs : \A w \in Nat :
                 IsDue(id, w)' => IsDue(id, w) \/ (id = i /\ w - 1 \in Nat /\ IsDue(id, w - 1))
           /\ PassesBounded'
<1>1. /\ state' = Finished(state, i) /\ IsPending(state, i) /\ Conserved(state)
      /\ WithinPasses(state)
      /\ state \in MasterState /\ ready /\ ready' /\ snapshot(saved)
      /\ store' = store \/ store' = state'
  BY DEF TaskFinished, MasterInv, TypeOK, TasksConserved, snapshot, PassesBounded
<1>2. /\ \A x \in TaskIDs \ {i} : Due(state', x) = Due(state, x)
      /\ Due(state', i) = Due(state, i) + 1 /\ WithinPasses(state')
  BY <1>1, DueAfterFinish
<1>3. PassesBounded'
  BY <1>1, <1>2 DEF PassesBounded, WithinPasses, NothingPending, IsPending
<1>4. ASSUME NEW id \in TaskIDs, NEW w \in Nat, IsDue(id, w)'
      PROVE  IsDue(id, w) \/ (id = i /\ w - 1 \in Nat /\ IsDue(id, w - 1))
  <2>1. IsDue(id, w) \/ w = Due(state', id)
    BY <1>1, <1>4, DueAfterSave
  <2>2. CASE w = Due(state', id) /\ id # i
    BY <2>2, <1>1, <1>2 DEF IsDue
  <2>3. CASE w = Due(state', id) /\ id = i
    <3>1. w - 1 = Due(state, id) /\ w - 1 \in Nat
      BY <2>3, <1>1, <1>2, DueType
    <3> QED
      BY <3>1, <2>3, <1>1 DEF IsDue
  <2> QED
    BY <2>1, <2>2, <2>3
<1> QED
  BY <1>3, <1>4

LEMMA DueOfFailure ==
    ASSUME MasterInv, PassesBounded, NEW saved \in SaveOutcomes, NEW meta \in TaskMeta,
           processFailedTask(meta, saved), ready' = ready
    PROVE  /\ \A id \in TaskIDs : \A w \in Nat :
                 IsDue(id, w)' =>
                    IsDue(id, w) \/ (Discarded(id) /\ w - 1 \in Nat /\ IsDue(id, w - 1))
           /\ PassesBounded'
<1>0. meta.ID \in TaskIDs /\ IsPending(state, meta.ID) /\ ready
  BY DEF processFailedTask, TaskMeta, MasterInv, UnreadyIsFresh, NothingPending
<1>1. /\ state' = Unfinished(state, meta.ID) /\ Conserved(state) /\ WithinPasses(state)
      /\ state \in MasterState /\ ready /\ ready' /\ snapshot(saved)
      /\ store' = store \/ store' = state'
  BY <1>0 DEF processFailedTask, MasterInv, TypeOK, TasksConserved, snapshot, PassesBounded
<1>2. /\ \A x \in TaskIDs : Due(state', x) = IF Discarded(x) THEN Due(state, x) + 1 ELSE Due(state, x)
      /\ WithinPasses(state')
  BY <1>0, <1>1, DueAfterFailure DEF Discarded
<1>3. PassesBounded'
  BY <1>1, <1>2 DEF PassesBounded, WithinPasses, NothingPending, IsPending
<1>4. ASSUME NEW id \in TaskIDs, NEW w \in Nat, IsDue(id, w)'
      PROVE  IsDue(id, w) \/ (Discarded(id) /\ w - 1 \in Nat /\ IsDue(id, w - 1))
  <2>1. IsDue(id, w) \/ w = Due(state', id)
    BY <1>1, <1>4, DueAfterSave
  <2>2. CASE w = Due(state', id) /\ ~ Discarded(id)
    BY <2>2, <1>1, <1>2 DEF IsDue
  <2>3. CASE w = Due(state', id) /\ Discarded(id)
    <3>1. w - 1 = Due(state, id) /\ w - 1 \in Nat
      BY <2>3, <1>1, <1>2, DueType
    <3> QED
      BY <3>1, <2>3, <1>1 DEF IsDue
  <2> QED
    BY <2>1, <2>2, <2>3
<1> QED
  BY <1>3, <1>4

LEMMA DueOfProcess ==
    ASSUME MasterInv, PassesBounded, Crash \/ NewService \/ UNCHANGED <<state, store, ready>>
    PROVE  /\ \A id \in TaskIDs : \A w : IsDue(id, w)' => IsDue(id, w)
           /\ PassesBounded'
<1>1. CASE Crash
  <2>1. /\ state' = EmptyState /\ store' = store /\ ~ ready'
        /\ EmptyState.CurPass = 0 /\ EmptyState.Done = <<>> /\ NothingPending(EmptyState)
    BY <1>1 DEF Crash, EmptyState, NothingPending, IsPending
  <2>2. WithinPasses(EmptyState)
    BY <2>1, MasterAssumption DEF WithinPasses
  <2>3. PassesBounded'
    BY <2>1, <2>2 DEF PassesBounded, WithinPasses, NothingPending, IsPending
  <2> QED
    BY <2>1, <2>3 DEF IsDue, Due, InQueue
<1>2. CASE NewService
  <2>1. store' = store /\ (UNCHANGED <<state, ready>> \/ (store # NoState /\ state' = store /\ ready'))
    BY <1>2 DEF NewService
  <2> QED
    BY <2>1 DEF IsDue, Due, InQueue, PassesBounded, WithinPasses, NothingPending, IsPending
<1>3. CASE UNCHANGED <<state, store, ready>>
  BY <1>3 DEF IsDue, Due, InQueue, PassesBounded, WithinPasses, NothingPending, IsPending
<1> QED
  BY <1>1, <1>2, <1>3

\* One more read, one more discard or one report less.
LEMMA PaysMore ==
    ASSUME NEW r \in 0..NumPasses, NEW d \in 0..NumPasses, NEW n \in Nat, NEW m \in Nat, Pays(r, d, n)
    PROVE  /\ m <= n => Pays(r, d, m)
           /\ m <= n + 1 => Pays(Capped(r + 1), d, m) /\ Pays(r, Capped(d + 1), m)
           /\ Capped(r + 1) \in 0..NumPasses /\ Capped(d + 1) \in 0..NumPasses
BY MasterAssumption DEF Pays, Capped

LEMMA ReportingSize ==
    \A S \in SUBSET Trainers :
        /\ IsFiniteSet(S) /\ Cardinality(S) \in Nat
        /\ \A R \in SUBSET S : Cardinality(R) \in Nat /\ Cardinality(R) <= Cardinality(S)
<1>1. IsFiniteSet(Trainers)
  BY JobAssumption
<1>2. \A S \in SUBSET Trainers : IsFiniteSet(S)
  BY <1>1, FS_Subset
<1>3. \A S \in SUBSET Trainers : Cardinality(S) \in Nat
  BY <1>2, FS_CardinalityType
<1>4. ASSUME NEW S \in SUBSET Trainers, NEW R \in SUBSET S
      PROVE  Cardinality(R) \in Nat /\ Cardinality(R) <= Cardinality(S)
  BY <1>2, <1>3, FS_Subset
<1> QED
  BY <1>2, <1>3, <1>4

\* A step without reads, discards or new reports, after which nothing more is due.
LEMMA QuietPaid ==
    ASSUME AllPaid, JobTypeOK, reads' = reads, discards' = discards,
           \A id \in TaskIDs : \A w : IsDue(id, w)' => IsDue(id, w),
           \A id \in TaskIDs : Reporting(id)' \subseteq Reporting(id)
    PROVE  AllPaid'
<1> SUFFICES ASSUME NEW id \in TaskIDs, NEW w \in Nat, IsDue(id, w)'
             PROVE  Pays(reads[id], discards[id], w + Cardinality(Reporting(id)'))
  BY DEF AllPaid, Pays
<1>1. Pays(reads[id], discards[id], w + Cardinality(Reporting(id)))
  BY DEF AllPaid
<1>2. Reporting(id) \in SUBSET Trainers /\ Reporting(id)' \in SUBSET Reporting(id)
  BY DEF Reporting
<1>3. /\ Cardinality(Reporting(id)) \in Nat /\ Cardinality(Reporting(id)') \in Nat
      /\ Cardinality(Reporting(id)') <= Cardinality(Reporting(id))
  BY <1>2, ReportingSize
<1>4. reads[id] \in 0..NumPasses /\ discards[id] \in 0..NumPasses
  BY DEF JobTypeOK
<1> HIDE DEF Reporting
<1>5. /\ w + Cardinality(Reporting(id)) \in Nat /\ w + Cardinality(Reporting(id)') \in Nat
      /\ w + Cardinality(Reporting(id)') <= w + Cardinality(Reporting(id))
  BY <1>3
<1> QED
  BY <1>1, <1>4, <1>5, PaysMore

Labels == {"set", "get", "reply", "work", "fin", "end", "dead"}

\* One trainer moves on.
LEMMA TrainerMoves ==
    ASSUME JobTypeOK, TrainersKnown, NEW t \in Trainers, NEW l \in Labels, NEW p \in 0..NumPasses,
           NEW k \in TaskMeta \cup {NoTask}, handed \subseteq handed',
           pc' = [pc EXCEPT ![t] = l], pass' = [pass EXCEPT ![t] = p], task' = [task EXCEPT ![t] = k],
           l \in Looping => p < NumPasses, l \in {"reply", "work", "fin"} => k \in handed'
    PROVE  /\ pc' \in [Trainers -> Labels] /\ pass' \in [Trainers -> 0..NumPasses]
           /\ task' \in [Trainers -> TaskMeta \cup {NoTask}]
           /\ TrainersKnown'
           /\ \A id : Reporting(id)' = IF l = "fin" /\ k.ID = id THEN Reporting(id) \cup {t}
                                       ELSE Reporting(id) \ {t}
<1>1. /\ pc \in [Trainers -> Labels] /\ pass \in [Trainers -> 0..NumPasses]
      /\ task \in [Trainers -> TaskMeta \cup {NoTask}]
  BY DEF JobTypeOK, Labels
<1>2. /\ pc' \in [Trainers -> Labels] /\ pass' \in [Trainers -> 0..NumPasses]
      /\ task' \in [Trainers -> TaskMeta \cup {NoTask}]
  BY <1>1
<1>3. /\ pc'[t] = l /\ pass'[t] = p /\ task'[t] = k
      /\ \A u \in Trainers \ {t} : pc'[u] = pc[u] /\ pass'[u] = pass[u] /\ task'[u] = task[u]
  BY <1>1
<1>4. TrainersKnown'
  <2> SUFFICES ASSUME NEW u \in Trainers
               PROVE  /\ pc'[u] \in Looping => pass'[u] < NumPasses
                      /\ pc'[u] \in {"reply", "work", "fin"} => task'[u] \in handed'
    BY DEF TrainersKnown
  <2>1. CASE u = t
    BY <2>1, <1>3
  <2>2. CASE u # t
    BY <2>2, <1>3 DEF TrainersKnown
  <2> QED
    BY <2>1, <2>2
<1>5. ASSUME NEW id
      PROVE  Reporting(id)' = IF l = "fin" /\ k.ID = id THEN Reporting(id) \cup {t}
                              ELSE Reporting(id) \ {t}
  BY <1>3 DEF Reporting
<1> QED
  BY <1>2, <1>4, <1>5

\* The same when the trainer keeps its pass, or its task, or both.
LEMMA SamePass ==
    ASSUME JobTypeOK, NEW t \in Trainers
    PROVE  /\ pass' = pass => pass' = [pass EXCEPT ![t] = pass[t]] /\ pass[t] \in 0..NumPasses
           /\ task' = task => task' = [task EXCEPT ![t] = task[t]] /\ task[t] \in TaskMeta \cup {NoTask}
BY DEF JobTypeOK

\* Every step of a job is one of the master or leaves the master alone.
LEMMA JobStepsMaster ==
    ASSUME JobTypeOK, TrainersKnown, [JobNext]_jobVars
    PROVE  [Next]_vars
<1>1. ASSUME NEW t \in Trainers, NEW saved \in SaveOutcomes, SetDatasetCall(t, saved)
      PROVE  [Next]_vars
  BY <1>1 DEF SetDatasetCall, Next
<1>2. ASSUME NEW t \in Trainers, NEW saved, GetTask(pass[t], saved), saved \in SaveOutcomes, pc[t] = "get"
      PROVE  [Next]_vars
  <2>1. pass[t] \in Passes
    BY <1>2, MasterAssumption DEF JobTypeOK, TrainersKnown, Looping, Passes
  <2> QED
    BY <1>2, <2>1 DEF Next
<1>3. ASSUME NEW t \in Trainers, NEW saved \in SaveOutcomes, TaskFinishedCall(t, saved)
      PROVE  [Next]_vars
  <2>1. task[t].ID \in TaskIDs
    BY <1>3 DEF TaskFinishedCall, TrainersKnown, JobTypeOK, TypeOK, TaskMeta
  <2> QED
    BY <1>3, <2>1 DEF TaskFinishedCall, Next
<1>4. "ok" \in SaveOutcomes
  BY DEF SaveOutcomes
<1>5. ASSUME NEW t \in Trainers, Loop(t) PROVE [Next]_vars
  <2>1. CASE GetTaskCall(t)
    BY <2>1, <1>2, <1>4 DEF GetTaskCall
  <2>2. ASSUME NEW saved \in SaveOutcomes, GetTaskCallFails(t, saved) PROVE [Next]_vars
    BY <2>2, <1>2 DEF GetTaskCallFails
  <2> QED
    BY <1>1, <1>3, <1>5, <2>1, <2>2 DEF Loop, EndOfPass, ReceiveTask, ReadRecords, CallFails
<1>6. ASSUME NEW t \in Trainers, Die(t) \/ Restart(t) PROVE [Next]_vars
  BY <1>6 DEF Die, Restart
<1>7. ASSUME NEW id \in TaskIDs, ExpireTask(id) PROVE [Next]_vars
  BY <1>7 DEF ExpireTask, Expire, Next
<1>8. CASE MasterCrash
  BY <1>8 DEF MasterCrash, Next
<1>9. CASE MasterRestart
  BY <1>9 DEF MasterRestart, Next
<1>10. CASE UNCHANGED jobVars
  BY <1>10 DEF jobVars
<1> QED
  BY <1>5, <1>6, <1>7, <1>8, <1>9, <1>10 DEF JobNext

\* The parts of the invariant that are about the trainers and the counters.
TrainerInv == JobTypeOK /\ TrainersKnown /\ PassesBounded /\ AllPaid

\* A trainer's step in which the master's data stay or change without anything
\* becoming due, and that reads nothing.
LEMMA QuietTrainerStep ==
    ASSUME JobInv, TypeOK', NEW t \in Trainers, NEW l \in Labels \ {"fin"}, NEW p \in 0..NumPasses,
           NEW k \in TaskMeta \cup {NoTask}, handed \subseteq handed',
           pc' = [pc EXCEPT ![t] = l], pass' = [pass EXCEPT ![t] = p], task' = [task EXCEPT ![t] = k],
           l \in Looping => p < NumPasses, l \in {"reply", "work"} => k \in handed',
           crashes' = crashes, deaths' \in 0..MaxDeaths, late' = late,
           reads' = reads, discards' = discards, PassesBounded',
           \A id \in TaskIDs : \A w : IsDue(id, w)' => IsDue(id, w)
    PROVE  TrainerInv'
<1>0. l \in Labels /\ (l \in {"reply", "work", "fin"} => k \in handed')
  OBVIOUS
<1>1. /\ pc' \in [Trainers -> Labels] /\ pass' \in [Trainers -> 0..NumPasses]
      /\ task' \in [Trainers -> TaskMeta \cup {NoTask}] /\ TrainersKnown'
      /\ \A id : Reporting(id)' = IF l = "fin" /\ k.ID = id THEN Reporting(id) \cup {t}
                                  ELSE Reporting(id) \ {t}
  BY <1>0, TrainerMoves DEF JobInv
<1>2. JobTypeOK'
  BY <1>1 DEF JobInv, JobTypeOK, Labels
<1>3. \A id \in TaskIDs : Reporting(id)' \subseteq Reporting(id)
  BY <1>1
<1>4. AllPaid'
  BY <1>3, QuietPaid DEF JobInv
<1> QED
  BY <1>1, <1>2, <1>4 DEF TrainerInv

\* The calls that are not answered, or answered with nothing new.
LEMMA LoopQuiet ==
    ASSUME JobInv, MasterInv', NEW t \in Trainers,
           \/ \E saved \in SaveOutcomes : SetDatasetCall(t, saved) \/ GetTaskCallFails(t, saved)
           \/ GetTaskCall(t) \/ EndOfPass(t) \/ ReceiveTask(t) \/ CallFails(t)
           \/ Die(t) \/ Restart(t)
    PROVE  TrainerInv'
<1> USE DEF Goto, faultVars, trainerVars
<1>1. /\ TypeOK' /\ JobTypeOK /\ TrainersKnown /\ MasterInv /\ PassesBounded /\ AllPaid
      /\ pass[t] \in 0..NumPasses /\ task[t] \in TaskMeta \cup {NoTask}
      /\ pc[t] \in Looping => pass[t] < NumPasses
      /\ deaths \in 0..MaxDeaths
  BY DEF JobInv, MasterInv, JobTypeOK, TrainersKnown
<1>2. /\ pass' = pass => pass' = [pass EXCEPT ![t] = pass[t]]
      /\ task' = task => task' = [task EXCEPT ![t] = task[t]]
  BY <1>1, SamePass
<1>3. UNCHANGED vars => /\ \A id \in TaskIDs : \A w : IsDue(id, w)' => IsDue(id, w)
                        /\ PassesBounded' /\ handed' = handed
  BY <1>1, DueOfProcess DEF vars
<1>4. ASSUME NEW saved \in SaveOutcomes, SetDatasetCall(t, saved) PROVE TrainerInv'
  <2>1. /\ \A id \in TaskIDs : \A w : IsDue(id, w)' => IsDue(id, w)
        /\ PassesBounded' /\ handed' = handed
    BY <1>1, <1>3, <1>4, DueOfSetDataset DEF SetDatasetCall, SetDataset
  <2>2. /\ pc[t] = "set" /\ pc' = [pc EXCEPT ![t] = "get"] /\ pass' = pass /\ task' = task
        /\ UNCHANGED <<crashes, deaths, late, reads, discards>>
    BY <1>4 DEF SetDatasetCall
  <2> QED
    BY <1>1, <1>2, <2>1, <2>2, QuietTrainerStep DEF Labels, Looping
<1>5. ASSUME NEW saved \in SaveOutcomes, GetTask(pass[t], saved), pc[t] = "get"
      PROVE  /\ \A id \in TaskIDs : \A w : IsDue(id, w)' => IsDue(id, w)
             /\ PassesBounded'
  <2>1. pass[t] \in Passes
    BY <1>1, <1>5, MasterAssumption DEF Looping, Passes
  <2> QED
    BY <1>1, <1>5, <2>1, DueOfGetTask
<1>6. ASSUME NEW saved \in SaveOutcomes, GetTaskCallFails(t, saved) PROVE TrainerInv'
  <2>1. /\ pc[t] = "get" /\ GetTask(pass[t], saved) /\ pass' = pass /\ task' = task
        /\ UNCHANGED <<crashes, deaths, late, reads, discards>>
    BY <1>6 DEF GetTaskCallFails
  <2>2. pc' = [pc EXCEPT ![t] = "get"]
    BY <1>1, <1>6 DEF GetTaskCallFails, JobTypeOK
  <2>3. handed' = handed
    BY <1>6 DEF GetTaskCallFails, GetTask
  <2>4. /\ \A id \in TaskIDs : \A w : IsDue(id, w)' => IsDue(id, w)
        /\ PassesBounded'
    BY <1>5, <2>1
  <2> QED
    BY <1>1, <1>2, <2>1, <2>2, <2>3, <2>4, QuietTrainerStep DEF Labels, Looping
<1>7. CASE GetTaskCall(t)
  <2>1. /\ pc[t] = "get" /\ GetTask(pass[t], "ok")
        /\ pc' = [pc EXCEPT ![t] = "reply"] /\ pass' = pass
        /\ task' = [task EXCEPT ![t] = NextMeta(state)]
        /\ UNCHANGED <<crashes, deaths, late, reads, discards>>
    BY <1>7 DEF GetTaskCall
  <2>2. handed' = handed \cup {NextMeta(state)} /\ NextMeta(state) \in TaskMeta
    BY <1>1, <2>1, NextEntryType DEF GetTask, CanDispatch, MasterInv, TypeOK
  <2>3. "ok" \in SaveOutcomes
    BY DEF SaveOutcomes
  <2>4. /\ \A id \in TaskIDs : \A w : IsDue(id, w)' => IsDue(id, w)
        /\ PassesBounded'
    BY <1>5, <2>1, <2>3
  <2> QED
    BY <1>1, <1>2, <2>1, <2>2, <2>4, QuietTrainerStep DEF Labels, Looping
<1>8. CASE EndOfPass(t)
  <2>1. /\ pc[t] = "get" /\ UNCHANGED vars
        /\ pass' = [pass EXCEPT ![t] = pass[t] + 1] /\ task' = task
        /\ pc' = [pc EXCEPT ![t] = IF pass[t] + 1 = NumPasses THEN "end" ELSE "get"]
        /\ UNCHANGED <<crashes, deaths, late, reads, discards>>
    BY <1>8 DEF EndOfPass
  <2>2. pass[t] + 1 \in 0..NumPasses
    BY <1>1, <2>1, MasterAssumption DEF Looping
  <2>3. CASE pass[t] + 1 = NumPasses
    <3>1. pc' = [pc EXCEPT ![t] = "end"] /\ "end" \in Labels \ {"fin"} /\ "end" \notin Looping
      BY <2>1, <2>3 DEF Labels, Looping
    <3>2. /\ deaths' \in 0..MaxDeaths /\ handed \subseteq handed' /\ PassesBounded'
          /\ pass' = [pass EXCEPT ![t] = pass[t] + 1] /\ task' = [task EXCEPT ![t] = task[t]]
          /\ crashes' = crashes /\ late' = late /\ reads' = reads /\ discards' = discards
          /\ \A id \in TaskIDs : \A w : IsDue(id, w)' => IsDue(id, w)
      BY <1>1, <1>2, <1>3, <2>1
    <3>3. TypeOK' /\ task[t] \in TaskMeta \cup {NoTask}
      BY <1>1
    <3> QED
      BY <2>2, <3>1, <3>2, <3>3, QuietTrainerStep
  <2>4. CASE pass[t] + 1 # NumPasses
    <3>1. pass[t] + 1 < NumPasses
      BY <2>2, <2>4, MasterAssumption
    <3> QED
      BY <1>1, <1>2, <1>3, <2>1, <2>2, <2>4, <3>1, QuietTrainerStep DEF Labels, Looping
  <2> QED
    BY <2>3, <2>4
<1>9. CASE ReceiveTask(t)
  <2>1. /\ pc[t] = "reply" /\ UNCHANGED vars /\ pass' = pass /\ task' = task
        /\ pc' = [pc EXCEPT ![t] = "work"]
        /\ UNCHANGED <<crashes, deaths, late, reads, discards>>
    BY <1>9 DEF ReceiveTask
  <2>2. task[t] \in handed
    BY <1>1, <2>1 DEF TrainersKnown
  <2> QED
    BY <1>1, <1>2, <1>3, <2>1, <2>2, QuietTrainerStep DEF Labels, Looping
<1>10. CASE CallFails(t)
  <2>1. /\ pc[t] \in {"set", "fin"} /\ UNCHANGED vars /\ pass' = pass
        /\ task' = [task EXCEPT ![t] = NoTask] /\ pc' = [pc EXCEPT ![t] = "get"]
        /\ UNCHANGED <<crashes, deaths, late, reads, discards>>
    BY <1>10 DEF CallFails
  <2> QED
    BY <1>1, <1>2, <1>3, <2>1, QuietTrainerStep DEF Labels, Looping
<1>11. CASE Die(t)
  <2>1. /\ UNCHANGED vars /\ pass' = pass /\ deaths' = deaths + 1 /\ deaths < MaxDeaths
        /\ task' = [task EXCEPT ![t] = NoTask] /\ pc' = [pc EXCEPT ![t] = "dead"]
        /\ UNCHANGED <<crashes, late, reads, discards>>
    BY <1>11 DEF Die
  <2>2. deaths' \in 0..MaxDeaths
    BY <1>1, <2>1, JobAssumption
  <2> QED
    BY <1>1, <1>2, <1>3, <2>1, <2>2, QuietTrainerStep DEF Labels, Looping
<1>12. CASE Restart(t)
  <2>1. /\ UNCHANGED vars /\ pass' = [pass EXCEPT ![t] = 0] /\ task' = task
        /\ pc' = [pc EXCEPT ![t] = "set"]
        /\ UNCHANGED <<crashes, deaths, late, reads, discards>>
    BY <1>12 DEF Restart
  <2>2. 0 \in 0..NumPasses /\ 0 < NumPasses
    BY MasterAssumption, JobAssumption
  <2> QED
    BY <1>1, <1>2, <1>3, <2>1, <2>2, QuietTrainerStep DEF Labels, Looping
<1> QED
  BY <1>4, <1>6, <1>7, <1>8, <1>9, <1>10, <1>11, <1>12

\* A read pays for the report that follows it.
LEMMA ReadRecordsKeeps ==
    ASSUME JobInv, MasterInv', NEW t \in Trainers, ReadRecords(t)
    PROVE  TrainerInv'
<1> DEFINE i == task[t].ID
<1>1. /\ pc[t] = "work" /\ pc' = [pc EXCEPT ![t] = "fin"] /\ pass' = pass /\ task' = task
      /\ reads' = [reads EXCEPT ![i] = Capped(reads[i] + 1)] /\ discards' = discards
      /\ UNCHANGED <<crashes, deaths, late, vars>>
  BY DEF ReadRecords, Goto, faultVars
<1>2. task[t] \in handed /\ task[t] \in TaskMeta /\ i \in TaskIDs /\ pass[t] \in 0..NumPasses
      /\ pass[t] < NumPasses
  BY <1>1 DEF JobInv, TrainersKnown, MasterInv, TypeOK, TaskMeta, JobTypeOK, Looping
<1>3. /\ \A id \in TaskIDs : \A w : IsDue(id, w)' => IsDue(id, w)
      /\ PassesBounded' /\ handed' = handed
  BY <1>1, DueOfProcess DEF vars, JobInv
<1>4. pass' = [pass EXCEPT ![t] = pass[t]] /\ task' = [task EXCEPT ![t] = task[t]]
  BY <1>1, SamePass DEF JobInv
<1>5. /\ pc' \in [Trainers -> Labels] /\ pass' \in [Trainers -> 0..NumPasses]
      /\ task' \in [Trainers -> TaskMeta \cup {NoTask}]
      /\ TrainersKnown'
      /\ \A id : Reporting(id)' = IF i = id THEN Reporting(id) \cup {t} ELSE Reporting(id) \ {t}
  <2>1. JobTypeOK /\ TrainersKnown /\ "fin" \in Labels /\ handed \subseteq handed'
    BY <1>3 DEF JobInv, Labels
  <2>2. /\ pc' = [pc EXCEPT ![t] = "fin"] /\ pass' = [pass EXCEPT ![t] = pass[t]]
        /\ task' = [task EXCEPT ![t] = task[t]]
    BY <1>1, <1>4
  <2>3. task[t] \in TaskMeta \cup {NoTask} /\ task[t] \in handed' /\ pass[t] \in 0..NumPasses
    BY <1>2, <1>3
  <2>4. /\ pc' \in [Trainers -> Labels] /\ pass' \in [Trainers -> 0..NumPasses]
        /\ task' \in [Trainers -> TaskMeta \cup {NoTask}]
        /\ TrainersKnown'
        /\ \A id : Reporting(id)' = IF "fin" = "fin" /\ task[t].ID = id THEN Reporting(id) \cup {t}
                                    ELSE Reporting(id) \ {t}
    <3> HIDE DEF i
    <3>1. "fin" \in Looping => pass[t] < NumPasses
      BY <1>2
    <3>2. "fin" \in {"reply", "work", "fin"} => task[t] \in handed'
      BY <2>3
    <3> QED
      BY <2>1, <2>2, <2>3, <3>1, <3>2, TrainerMoves
  <2> QED
    BY <2>4
<1>6. \A id : t \notin Reporting(id)
  BY <1>1 DEF Reporting
<1> HIDE DEF i
<1>7. /\ reads \in [TaskIDs -> 0..NumPasses] /\ discards \in [TaskIDs -> 0..NumPasses]
  BY DEF JobInv, JobTypeOK
<1>8. /\ Capped(reads[i] + 1) \in 0..NumPasses
      /\ reads' \in [TaskIDs -> 0..NumPasses] /\ reads'[i] = Capped(reads[i] + 1)
      /\ \A id \in TaskIDs \ {i} : reads'[id] = reads[id]
  <2>1. Capped(reads[i] + 1) \in 0..NumPasses
    BY <1>2, <1>7, MasterAssumption DEF Capped
  <2> QED
    BY <2>1, <1>1, <1>2, <1>7
<1>9. JobTypeOK'
  <2>1. TypeOK'
    BY DEF MasterInv
  <2> QED
    BY <2>1, <1>1, <1>5, <1>7, <1>8 DEF JobInv, JobTypeOK, Labels
<1>10. AllPaid'
  <2> SUFFICES ASSUME NEW id \in TaskIDs, NEW w \in Nat, IsDue(id, w)'
               PROVE  Pays(reads'[id], discards[id], w + Cardinality(Reporting(id)'))
    BY <1>1 DEF AllPaid, Pays
  <2>1. Pays(reads[id], discards[id], w + Cardinality(Reporting(id)))
    BY <1>3 DEF JobInv, AllPaid
  <2>2. Reporting(id) \in SUBSET Trainers
    BY DEF Reporting
  <2>3. IsFiniteSet(Reporting(id)) /\ Cardinality(Reporting(id)) \in Nat
    BY <2>2, ReportingSize
  <2>4. reads[id] \in 0..NumPasses /\ discards[id] \in 0..NumPasses
    BY <1>7
  <2>5. CASE id = i
    <3>1. Cardinality(Reporting(id)') = Cardinality(Reporting(id)) + 1
      BY <1>5, <1>6, <2>3, <2>5, FS_AddElement
    <3>2. /\ w + Cardinality(Reporting(id)) \in Nat /\ w + Cardinality(Reporting(id)') \in Nat
          /\ w + Cardinality(Reporting(id)') <= w + Cardinality(Reporting(id)) + 1
      BY <2>3, <3>1
    <3> QED
      BY <2>1, <2>4, <2>5, <3>2, <1>8, PaysMore
  <2>6. CASE id # i
    <3>1. Reporting(id)' = Reporting(id)
      BY <1>5, <1>6, <2>6
    <3> QED
      BY <2>1, <2>6, <3>1, <1>8
  <2> QED
    BY <2>5, <2>6
<1> QED
  BY <1>3, <1>5, <1>9, <1>10 DEF TrainerInv

\* A report that is accepted uses up the read it stands for.
LEMMA TaskFinishedCallKeeps ==
    ASSUME JobInv, MasterInv', NEW t \in Trainers, NEW saved \in SaveOutcomes,
           TaskFinishedCall(t, saved)
    PROVE  TrainerInv'
<1> DEFINE i == task[t].ID
<1>1. /\ pc[t] = "fin" /\ pc' = [pc EXCEPT ![t] = "get"] /\ pass' = pass
      /\ task' = [task EXCEPT ![t] = NoTask] /\ reads' = reads /\ discards' = discards
      /\ UNCHANGED <<crashes, deaths, late>>
      /\ TaskFinished(i, saved) \/ UNCHANGED vars
  BY DEF TaskFinishedCall, Goto, faultVars
<1>2. task[t] \in TaskMeta /\ i \in TaskIDs /\ pass[t] \in 0..NumPasses
      /\ pass[t] < NumPasses
  BY <1>1 DEF JobInv, TrainersKnown, MasterInv, TypeOK, TaskMeta, JobTypeOK, Looping
<1>3. /\ \A id \in TaskIDs : \A w \in Nat :
            IsDue(id, w)' => IsDue(id, w) \/ (id = i /\ w - 1 \in Nat /\ IsDue(id, w - 1))
      /\ PassesBounded' /\ handed' = handed
  <2>1. CASE TaskFinished(i, saved)
    BY <2>1, <1>2, DueOfTaskFinished DEF JobInv, TaskFinished
  <2>2. CASE UNCHANGED vars
    BY <2>2, DueOfProcess DEF vars, JobInv
  <2> QED
    BY <1>1, <2>1, <2>2
<1>4. pass' = [pass EXCEPT ![t] = pass[t]]
  BY <1>1, SamePass DEF JobInv
<1>5. /\ pc' \in [Trainers -> Labels] /\ pass' \in [Trainers -> 0..NumPasses]
      /\ task' \in [Trainers -> TaskMeta \cup {NoTask}]
      /\ TrainersKnown'
      /\ \A id : Reporting(id)' = Reporting(id) \ {t}
  BY <1>1, <1>2, <1>3, <1>4, TrainerMoves DEF JobInv, Labels, Looping
<1>6. t \in Reporting(i)
  BY <1>1 DEF Reporting
<1> HIDE DEF i
<1>7. /\ reads \in [TaskIDs -> 0..NumPasses] /\ discards \in [TaskIDs -> 0..NumPasses]
  BY DEF JobInv, JobTypeOK
<1>8. JobTypeOK'
  <2>1. TypeOK'
    BY DEF MasterInv
  <2> QED
    BY <2>1, <1>1, <1>5 DEF JobInv, JobTypeOK, Labels
<1>9. AllPaid'
  <2> SUFFICES ASSUME NEW id \in TaskIDs, NEW w \in Nat, IsDue(id, w)'
               PROVE  Pays(reads[id], discards[id], w + Cardinality(Reporting(id)'))
    BY <1>1 DEF AllPaid, Pays
  <2>1. \A v \in Nat : IsDue(id, v) => Pays(reads[id], discards[id], v + Cardinality(Reporting(id)))
    BY DEF JobInv, AllPaid
  <2>2. Reporting(id) \in SUBSET Trainers /\ Reporting(id)' \in SUBSET Reporting(id)
    BY <1>5 DEF Reporting
  <2>3. /\ IsFiniteSet(Reporting(id)) /\ Cardinality(Reporting(id)) \in Nat
        /\ Cardinality(Reporting(id)') \in Nat
        /\ Cardinality(Reporting(id)') <= Cardinality(Reporting(id))
    BY <2>2, ReportingSize
  <2>4. reads[id] \in 0..NumPasses /\ discards[id] \in 0..NumPasses
    BY <1>7
  <2>5. CASE IsDue(id, w)
    <3>1. Pays(reads[id], discards[id], w + Cardinality(Reporting(id)))
      BY <2>1, <2>5
    <3>2. /\ w + Cardinality(Reporting(id)) \in Nat /\ w + Cardinality(Reporting(id)') \in Nat
          /\ w + Cardinality(Reporting(id)') <= w + Cardinality(Reporting(id))
      BY <2>3
    <3> QED
      BY <2>4, <3>1, <3>2, PaysMore
  <2>6. CASE id = i /\ w - 1 \in Nat /\ IsDue(id, w - 1)
    <3>1. Pays(reads[id], discards[id], (w - 1) + Cardinality(Reporting(id)))
      BY <2>1, <2>6
    <3>2. Cardinality(Reporting(id)') = Cardinality(Reporting(id)) - 1
      BY <1>5, <1>6, <2>3, <2>6, FS_RemoveElement
    <3>3. w + Cardinality(Reporting(id)') = (w - 1) + Cardinality(Reporting(id))
      BY <2>3, <3>2
    <3> QED
      BY <3>1, <3>3
  <2> QED
    BY <1>3, <2>5, <2>6
<1> QED
  BY <1>3, <1>5, <1>8, <1>9 DEF TrainerInv

\* A timer that fires: a task is due once more only when it is discarded, and
\* the discard is counted.
LEMMA ExpireKeeps ==
    ASSUME JobInv, MasterInv', NEW meta \in timers, NEW saved \in SaveOutcomes, Expire(meta, saved)
    PROVE  TrainerInv'
<1>1. /\ checkTimeoutFunc(meta, saved) /\ pc' = pc /\ pass' = pass /\ task' = task
      /\ reads' = reads /\ crashes' = crashes /\ deaths' = deaths
      /\ discards' = [id \in TaskIDs |-> IF Discarded(id) THEN Capped(discards[id] + 1)
                                                          ELSE discards[id]]
      /\ late' = late \/ (late < MaxLate /\ late' = late + 1)
  BY DEF Expire, trainerVars
<1>2. meta \in TaskMeta /\ ready' = ready /\ handed' = handed
  BY <1>1 DEF checkTimeoutFunc, JobInv, MasterInv, TypeOK
<1>3. /\ \A id \in TaskIDs : \A w \in Nat :
            IsDue(id, w)' => IsDue(id, w) \/ (Discarded(id) /\ w - 1 \in Nat /\ IsDue(id, w - 1))
      /\ PassesBounded'
  <2>1. CASE processFailedTask(meta, saved)
    BY <2>1, <1>2, DueOfFailure DEF JobInv
  <2>2. CASE UNCHANGED <<state, store>>
    BY <2>2, <1>2, DueOfProcess DEF JobInv
  <2> QED
    BY <1>1, <2>1, <2>2 DEF checkTimeoutFunc
<1>4. TrainersKnown' /\ \A id : Reporting(id)' = Reporting(id)
  BY <1>1, <1>2 DEF JobInv, TrainersKnown, Reporting
<1>5. /\ reads \in [TaskIDs -> 0..NumPasses] /\ discards \in [TaskIDs -> 0..NumPasses]
      /\ late \in 0..MaxLate
  BY DEF JobInv, JobTypeOK
<1>6. late' \in 0..MaxLate
  BY <1>1, <1>5, JobAssumption
<1>7. \A id \in TaskIDs :
        /\ discards'[id] = IF Discarded(id) THEN Capped(discards[id] + 1) ELSE discards[id]
        /\ discards'[id] \in 0..NumPasses
  BY <1>1, <1>5, MasterAssumption DEF Capped
<1>8. discards' \in [TaskIDs -> 0..NumPasses]
  BY <1>1, <1>7
<1>9. JobTypeOK'
  <2>1. TypeOK'
    BY DEF MasterInv
  <2> QED
    BY <2>1, <1>1, <1>6, <1>8 DEF JobInv, JobTypeOK
<1>10. AllPaid'
  <2> SUFFICES ASSUME NEW id \in TaskIDs, NEW w \in Nat, IsDue(id, w)'
               PROVE  Pays(reads[id], discards'[id], w + Cardinality(Reporting(id)))
    BY <1>1, <1>4 DEF AllPaid, Pays
  <2> DEFINE c == Cardinality(Reporting(id))
  <2>1. \A v \in Nat : IsDue(id, v) => Pays(reads[id], discards[id], v + c)
    BY DEF JobInv, AllPaid
  <2>2. c \in Nat
    <3>1. Reporting(id) \in SUBSET Trainers
      BY DEF Reporting
    <3> QED
      BY <3>1, ReportingSize
  <2>3. reads[id] \in 0..NumPasses /\ discards[id] \in 0..NumPasses
    BY <1>5
  <2> HIDE DEF c
  <2>4. CASE IsDue(id, w)
    <3>1. w + c \in Nat /\ w + c <= w + c + 1 /\ Pays(reads[id], discards[id], w + c)
      BY <2>1, <2>2, <2>4
    <3>2. Pays(reads[id], Capped(discards[id] + 1), w + c)
      BY <2>3, <3>1, PaysMore
    <3> QED
      BY <3>1, <3>2, <1>7 DEF c
  <2>5. CASE Discarded(id) /\ w - 1 \in Nat /\ IsDue(id, w - 1)
    <3>1. /\ (w - 1) + c \in Nat /\ w + c \in Nat /\ w + c <= (w - 1) + c + 1
          /\ Pays(reads[id], discards[id], (w - 1) + c)
      BY <2>1, <2>2, <2>5
    <3>2. Pays(reads[id], Capped(discards[id] + 1), w + c)
      BY <2>3, <3>1, PaysMore
    <3> QED
      BY <3>2, <2>5, <1>7 DEF c
  <2> QED
    BY <1>3, <2>4, <2>5
<1> QED
  BY <1>3, <1>4, <1>9, <1>10 DEF TrainerInv

\* Crashes and recoveries of the master.
LEMMA MasterProcessKeeps ==
    ASSUME JobInv, MasterInv', MasterCrash \/ MasterRestart \/ UNCHANGED jobVars
    PROVE  TrainerInv'
<1>1. /\ Crash \/ NewService \/ UNCHANGED vars
      /\ pass' = pass /\ reads' = reads /\ discards' = discards
      /\ deaths' = deaths /\ late' = late
      /\ crashes' = crashes \/ (crashes < MaxCrashes /\ crashes' = crashes + 1)
  BY DEF MasterCrash, MasterRestart, jobVars, trainerVars, faultVars
<1>2. handed' = handed
  BY <1>1 DEF Crash, NewService, vars
<1>3. /\ \A id \in TaskIDs : \A w : IsDue(id, w)' => IsDue(id, w)
      /\ PassesBounded'
  BY <1>1, DueOfProcess DEF JobInv, vars
<1>4. \/ pc' = pc /\ task' = task
      \/ /\ pc' = [t \in Trainers |-> IF pc[t] = "reply" THEN "get" ELSE pc[t]]
         /\ task' = [t \in Trainers |-> IF pc[t] = "reply" THEN NoTask ELSE task[t]]
  BY DEF MasterCrash, MasterRestart, jobVars, trainerVars
<1>5. /\ pc \in [Trainers -> Labels] /\ task \in [Trainers -> TaskMeta \cup {NoTask}]
      /\ crashes \in 0..MaxCrashes
  BY DEF JobInv, JobTypeOK, Labels
<1>6. /\ pc' \in [Trainers -> Labels] /\ task' \in [Trainers -> TaskMeta \cup {NoTask}]
      /\ \A t \in Trainers : \/ pc'[t] = pc[t] /\ task'[t] = task[t]
                             \/ pc[t] = "reply" /\ pc'[t] = "get"
  BY <1>4, <1>5 DEF Labels
<1>7. crashes' \in 0..MaxCrashes
  BY <1>1, <1>5, JobAssumption
<1>8. JobTypeOK'
  <2>1. TypeOK'
    BY DEF MasterInv
  <2> QED
    BY <2>1, <1>1, <1>6, <1>7 DEF JobInv, JobTypeOK, Labels
<1>9. TrainersKnown'
  BY <1>1, <1>2, <1>6 DEF JobInv, TrainersKnown, Looping
<1>10. \A id \in TaskIDs : Reporting(id)' \subseteq Reporting(id)
  BY <1>6 DEF Reporting
<1>11. AllPaid'
  BY <1>1, <1>3, <1>10, QuietPaid DEF JobInv
<1> QED
  BY <1>3, <1>8, <1>9, <1>11 DEF TrainerInv

LEMMA JobInitInv == JobInit => JobInv
<1> SUFFICES ASSUME JobInit PROVE JobInv
  OBVIOUS
<1>1. MasterInv
  BY InitInv DEF JobInit
<1>2. 0 \in 0..NumPasses /\ 0 < NumPasses /\ 0 \in 0..MaxCrashes /\ 0 \in 0..MaxDeaths /\ 0 \in 0..MaxLate
  BY MasterAssumption, JobAssumption
<1>3. JobTypeOK
  BY <1>1, <1>2 DEF JobInit, JobTypeOK, MasterInv
<1>4. TrainersKnown
  BY <1>2 DEF JobInit, TrainersKnown
<1>5. PassesBounded
  BY <1>2 DEF JobInit, Init, EmptyState, PassesBounded, WithinPasses
<1>6. AllPaid
  <2> SUFFICES ASSUME NEW id \in TaskIDs, NEW w \in Nat, IsDue(id, w)
               PROVE  Pays(reads[id], discards[id], w + Cardinality(Reporting(id)))
    BY DEF AllPaid
  <2>1. w = 0
    BY DEF JobInit, Init, IsDue
  <2>2. Reporting(id) = {}
    BY DEF JobInit, Reporting
  <2>3. Cardinality(Reporting(id)) = 0
    BY <2>2, FS_EmptySet
  <2>4. reads[id] = 0 /\ discards[id] = 0
    BY DEF JobInit
  <2> QED
    BY <2>1, <2>3, <2>4 DEF Pays
<1> QED
  BY <1>1, <1>3, <1>4, <1>5, <1>6 DEF JobInv

LEMMA JobNextInv == JobInv /\ [JobNext]_jobVars => JobInv'
<1> SUFFICES ASSUME JobInv, [JobNext]_jobVars PROVE JobInv'
  OBVIOUS
<1>1. MasterInv /\ JobTypeOK /\ TrainersKnown
  BY DEF JobInv
<1>2. [Next]_vars
  BY <1>1, JobStepsMaster
<1>3. MasterInv'
  BY <1>1, <1>2, NextInv
<1>4. ASSUME NEW t \in Trainers, Loop(t) \/ Die(t) \/ Restart(t) PROVE TrainerInv'
  BY <1>3, <1>4, LoopQuiet, ReadRecordsKeeps, TaskFinishedCallKeeps DEF Loop
<1>5. ASSUME NEW id \in TaskIDs, ExpireTask(id) PROVE TrainerInv'
  BY <1>3, <1>5, ExpireKeeps DEF ExpireTask
<1>6. ASSUME MasterCrash \/ MasterRestart \/ UNCHANGED jobVars PROVE TrainerInv'
  BY <1>3, <1>6, MasterProcessKeeps
<1>7. TrainerInv'
  <2>1. CASE \E t \in Trainers : Loop(t) \/ Die(t) \/ Restart(t)
    BY <2>1, <1>4
  <2>2. CASE \E id \in TaskIDs : ExpireTask(id)
    BY <2>2, <1>5
  <2>3. MasterCrash \/ MasterRestart \/ UNCHANGED jobVars => TrainerInv'
    BY <1>6
  <2> QED
    BY <2>1, <2>2, <2>3 DEF JobNext
<1> QED
  BY <1>3, <1>7 DEF TrainerInv, JobInv

\* JobInv holds in every reachable state of a job.
THEOREM JobInvariant == JobSpec => []JobInv
BY JobInitInv, JobNextInv, PTL DEF JobSpec

\* The trainers drive the master only through its handlers: a job is a
\* behaviour of the master, so what is proved of the master holds in a job.
THEOREM JobIsMaster == JobSpec => Spec
<1>1. JobInit => Init
  BY DEF JobInit
<1>2. JobInv /\ [JobNext]_jobVars => [Next]_vars
  BY JobStepsMaster DEF JobInv
<1> QED
  BY <1>1, <1>2, JobInvariant, PTL DEF JobSpec, Spec

\* The trainers' state stays within its types (cloud_reader, getRecords).
THEOREM JobTypeCorrect == JobSpec => []JobTypeOK
<1>1. JobInv => JobTypeOK
  BY DEF JobInv
<1> QED
  BY <1>1, JobInvariant, PTL

\* What is owed to a task is at most what is due, and at most one per pass.
LEMMA OwedIsPaid ==
    ASSUME JobInv, NEW st \in MasterState, NEW id \in TaskIDs, WithinPasses(st),
           IsDue(id, Due(st, id))
    PROVE  reads[id] + discards[id] >= Owed(st, id)
<1>1. Due(st, id) \in Nat /\ Owed(st, id) \in Nat /\ Owed(st, id) <= Due(st, id)
  BY DueType DEF Due, Owed, MasterState
<1>2. Owed(st, id) <= NumPasses
  <2>1. CASE st.CurPass < NumPasses
    BY <2>1, MasterAssumption DEF Owed, MasterState
  <2>2. CASE st.CurPass = NumPasses /\ st.Done = <<>>
    <3>1. ~ InQueue(st.Done, id)
      BY <2>2 DEF InQueue
    <3> QED
      BY <2>2, <3>1, MasterAssumption DEF Owed
  <2> QED
    BY <2>1, <2>2 DEF WithinPasses
<1>3. reads[id] \in 0..NumPasses /\ discards[id] \in 0..NumPasses
  BY DEF JobInv, JobTypeOK
<1>4. Cardinality(Reporting(id)) \in Nat
  <2>1. Reporting(id) \in SUBSET Trainers
    BY DEF Reporting
  <2> QED
    BY <2>1, ReportingSize
<1>5. Pays(reads[id], discards[id], Due(st, id) + Cardinality(Reporting(id)))
  BY <1>1 DEF JobInv, AllPaid
<1> QED
  BY <1>1, <1>2, <1>3, <1>4, <1>5, MasterAssumption DEF Pays

\* The job goes through the whole dataset in every pass, for any number of
\* trainers, tasks and passes and with a store that fails in every way.
THEOREM EveryPassIsFull == JobSpec => []FullPass
<1>1. JobInv => FullPass
  <2> SUFFICES ASSUME JobInv, NEW id \in TaskIDs
               PROVE  /\ ready => reads[id] + discards[id] >= Owed(state, id)
                      /\ store # NoState => reads[id] + discards[id] >= Owed(store, id)
    BY DEF FullPass
  <2>1. state \in MasterState /\ (store # NoState => store \in MasterState)
    BY DEF JobInv, JobTypeOK, TypeOK
  <2>2. WithinPasses(state) /\ (store # NoState => WithinPasses(store))
    BY DEF JobInv, PassesBounded
  <2>3. /\ ready => IsDue(id, Due(state, id))
        /\ store # NoState => IsDue(id, Due(store, id))
    BY DEF IsDue
  <2> QED
    BY <2>1, <2>2, <2>3, OwedIsPaid
<1> QED
  BY <1>1, JobInvariant, PTL

\* The pass that a recovery would find never goes back.
LEMMA PassNeverBack ==
    ASSUME MasterInv, PoolStepFrom(store, store') \/ store' = store
    PROVE  PoolPass(store) \in Nat /\ PoolPass(store') \in Nat /\ PoolPass(store') >= PoolPass(store)
<1>1. PoolPass(store) \in Nat
  BY DEF MasterInv, TypeOK, MasterState, PoolPass
<1>2. PoolPass(store') = PoolPass(store) \/ PoolPass(store') = PoolPass(store) + 1
  BY DEF PoolStepFrom
<1> QED
  BY <1>1, <1>2

\* With a store that never fails no trainer gets more than one pass ahead of
\* the master: ErrPassAfter means that others still work on the pass.
THEOREM NeverTwoAhead ==
    ASSUME SaveFaults = FALSE
    PROVE  JobSpec => []OnePassAhead
<1> DEFINE AheadInv == SavedIsCurrent /\ \A t \in Trainers : pass[t] <= 1 + PoolPass(store)
<1>1. JobInit => AheadInv
  BY DEF JobInit, Init, SavedIsCurrent, EmptyState, PoolPass
<1>2. JobInv /\ JobInv' /\ AheadInv /\ [JobNext]_jobVars => AheadInv'
  <2> SUFFICES ASSUME JobInv, JobInv', AheadInv, [JobNext]_jobVars PROVE AheadInv'
    OBVIOUS
  <2>1. MasterInv /\ MasterInv' /\ JobTypeOK /\ TrainersKnown /\ [Next]_vars
    BY JobStepsMaster DEF JobInv
  <2>2. SavedIsCurrent' /\ (PoolStepFrom(store, store') \/ store' = store)
    BY <2>1, MasterStep
  <2>3. PoolPass(store) \in Nat /\ PoolPass(store') \in Nat /\ PoolPass(store') >= PoolPass(store)
    BY <2>1, <2>2, PassNeverBack
  <2>4. pass \in [Trainers -> 0..NumPasses]
    BY <2>1 DEF JobTypeOK
  <2>5. \/ pass' = pass
        \/ \E t \in Trainers : EndOfPass(t) \/ Restart(t)
    BY DEF JobNext, jobVars, trainerVars, Loop, SetDatasetCall, GetTaskCall, GetTaskCallFails,
           ReceiveTask, ReadRecords, TaskFinishedCall, CallFails, Die, ExpireTask, Expire,
           MasterCrash, MasterRestart
  <2>6. ASSUME pass' = pass PROVE \A u \in Trainers : pass'[u] <= 1 + PoolPass(store')
    BY <2>3, <2>4, <2>6, MasterAssumption
  <2>7. ASSUME NEW t \in Trainers, EndOfPass(t)
        PROVE  \A u \in Trainers : pass'[u] <= 1 + PoolPass(store')
    <3>1. ready /\ GetTaskError(pass[t]) \in EndsPass /\ pass' = [pass EXCEPT ![t] = pass[t] + 1]
      BY <2>7 DEF EndOfPass
    <3>2. store # NoState /\ PoolPass(store) = state.CurPass
      BY <3>1 DEF SavedIsCurrent, PoolPass
    <3>3. ~ (pass[t] > state.CurPass)
      BY <2>3, <2>4, <3>1, <3>2 DEF GetTaskError, EndsPass
    <3>4. pass[t] <= PoolPass(store)
      BY <2>3, <2>4, <3>2, <3>3, MasterAssumption
    <3>5. pass'[t] = pass[t] + 1 /\ \A u \in Trainers \ {t} : pass'[u] = pass[u]
      BY <2>4, <3>1
    <3> QED
      BY <2>3, <2>4, <3>4, <3>5, MasterAssumption
  <2>8. ASSUME NEW t \in Trainers, Restart(t)
        PROVE  \A u \in Trainers : pass'[u] <= 1 + PoolPass(store')
    <3>1. pass'[t] = 0 /\ \A u \in Trainers \ {t} : pass'[u] = pass[u]
      BY <2>4, <2>8 DEF Restart
    <3> QED
      BY <2>3, <2>4, <3>1, MasterAssumption
  <2> QED
    BY <2>2, <2>5, <2>6, <2>7, <2>8
<1>3. AheadInv => OnePassAhead
  BY DEF OnePassAhead, PoolPass
<1> QED
  BY <1>1, <1>2, <1>3, JobInvariant, PTL DEF JobSpec

\* A job implements TaskPool: with a store that never fails, no interleaving of
\* trainers, crashes and expired timers shows through the master.
THEOREM JobImplementsPool ==
    ASSUME SaveFaults = FALSE
    PROVE  JobSpec => ImplementsTaskPool
BY JobIsMaster, MasterImplementsPool, PTL
=============================================================================
