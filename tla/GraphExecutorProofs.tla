-------------------------- MODULE GraphExecutorProofs --------------------------
(***************************************************************************)
(* Proofs about GraphExecutor, for any graph, any number of operators,     *)
(* threads, runs and exceptions: both executors implement DagRun, Run      *)
(* throws what its operators raised, and no operator outlives its scopes.  *)
(***************************************************************************)
EXTENDS GraphExecutor, TLAPS, FiniteSetTheorems

-----------------------------------------------------------------------------
(* The inductive invariant. *)

AllVars == Vars \cup {FetchVar}
Phases == {"pending", "ready", "delayed", "queued", "running", "posting",
           "notifying", "ending", "pushing", "over", "failed"}

Types ==
    /\ kind \in {"threaded", "fast"} /\ in \in Graphs /\ fetched \in SUBSET Vars
    /\ pc \in {"idle", "run", "pop", "drain", "check"}
    /\ phase \in [AllOps -> Phases] /\ deps \in [AllOps -> Int]
    /\ pendingVars \subseteq AllVars /\ readyVars \subseteq AllVars /\ runningOps \in Int
    /\ count \in [AllOps -> Int] /\ todo \in [AllOps -> SUBSET (AllVars \X AllOps)]
    /\ next \in [AllOps -> AllOps \cup {Nobody}]
    /\ remaining \in Int /\ completeQ \in Seq(Int) /\ numComplete \in Int /\ toPop \in Int
    /\ exception \in {"none", "eof", "enforce"} /\ raised \subseteq {"eof", "enforce"}
    /\ outcome \in {"none", "returned", "eof", "enforce"} /\ threwBefore \in BOOLEAN
    /\ runs \in 0..MaxRuns /\ dropCounter \in 0..(DropEvery - 1) /\ scopes \in BOOLEAN

\* The wrapper: a run has scopes, and between runs no operator is at work.
Wrapped ==
    /\ scopes \/ dropCounter = 0
    /\ pc # "idle" => scopes /\ runs > 0 /\ outcome = "none"
    /\ pc = "idle" => At({"queued", "running", "posting", "notifying", "ending"}) = {}
    /\ \A o \in AllOps : o \notin Live => phase[o] = "pending"
    /\ runs = 0 => \A o \in AllOps : phase[o] = "pending"

\* What is caught, and what became of it.
FirstOf(r) == IF r = {} THEN "none" ELSE IF "enforce" \in r THEN "enforce" ELSE "eof"

Caught ==
    /\ raised # {} <=> \E o \in AllOps : OpFailed(o)
    /\ raised # {} => exception # "none"
    /\ kind = "threaded" \/ ~threwBefore => exception = FirstOf(raised)
    /\ pc = "idle" /\ outcome \in {"none", "returned"} => raised = {}
    /\ pc \in {"drain", "check"} => raised # {}
    /\ \A i \in DOMAIN completeQ : completeQ[i] = -1 => raised # {}
    /\ HonestThrow

\* The threaded executor: a variable that was posted is in readyVars until it
\* is popped, and an operator leaves "pending" when its last input is popped.
Posted(v) == IF v = FetchVar THEN phase[Fetch] = "over"
             ELSE \A p \in Ops : v \in Out[p] => phase[p] = "over"

RunVars == IF fetched = {} THEN Vars ELSE AllVars

ThreadedPhases == {"pending", "ready", "delayed", "queued", "running", "posting", "over", "failed"}

ThreadedInv ==
    /\ \A o \in AllOps : phase[o] \in ThreadedPhases
    /\ pc # "check"
    /\ runs > 0 => readyVars \subseteq pendingVars
    /\ runs > 0 => pendingVars \ readyVars = {v \in RunVars : ~Posted(v)}
    /\ \A o \in AllOps : deps[o] = Cardinality(Inputs(o) \cap pendingVars)
    /\ runs > 0 => \A o \in Live : phase[o] = "pending" <=> Inputs(o) \cap pendingVars # {}
    /\ remaining = 0 /\ completeQ = << >> /\ numComplete = 0 /\ toPop = 0

\* running_ops_ counts what is queued, running or failed, and what failed in
\* earlier runs.
Counted == At({"queued", "running", "failed"})

RunningCounted ==
    /\ runningOps >= Cardinality(Counted)
    /\ runs = 0 => runningOps = 0
    /\ runs > 0 => runningOps <= (runs - 1) * Cardinality(AllOps) + Cardinality(Counted)

\* The fast executor: which of an operator's inputs are still to be counted.
Undelivered(v, op) ==
    \A p \in Ops : v \in Out[p] => ~OpEnded(p) \/ <<v, op>> \in todo[p]

Missing(op) == {v \in Inputs(op) \cap Generated : Undelivered(v, op)}

FastPhases == {"pending", "queued", "running", "notifying", "ending", "pushing", "over", "failed"}

\* The tasks in the pool, by the operator they are at.
Tasks == At({"queued", "running", "notifying", "ending"})

Handed(o) == {p \in Outputs(o) \X Live : p[1] \in Inputs(p[2])}

TodoInv ==
    \A o \in AllOps :
        /\ todo[o] # {} => phase[o] = "notifying"
        /\ todo[o] \subseteq Handed(o)

DepsInv ==
    \A o \in AllOps :
        /\ deps[o] = IF runs = 0 THEN 0 ELSE Cardinality(Missing(o))
        /\ phase[o] # "pending" => deps[o] = 0

CountInv ==
    \A o \in AllOps :
        /\ phase[o] \in {"pending", "queued"} => count[o] = 0
        /\ phase[o] = "ending" => count[o] = -1
        /\ phase[o] \in {"running", "notifying"} => count[o] >= 0

\* The operator a task goes on with is ready, and no other task has it.
NextInv ==
    \A o \in AllOps : phase[o] = "notifying" /\ next[o] # Nobody =>
        /\ next[o] \in Live /\ phase[next[o]] = "pending" /\ deps[next[o]] = 0
        /\ \A q \in AllOps : phase[q] = "notifying" /\ next[q] = next[o] => q = o

FastShape ==
    /\ \A o \in AllOps : phase[o] \in FastPhases
    /\ pc # "run"
    /\ remaining = Cardinality(Tasks)
    /\ runningOps = 0

FastInv == TodoInv /\ DepsInv /\ CountInv /\ NextInv /\ FastShape

QueueInv ==
    /\ pc = "drain" => toPop >= 1
    /\ toPop \in 0..Cardinality(AllOps) /\ numComplete \in 0..Cardinality(AllOps)
    /\ completeQ \in Seq(-1..Cardinality(AllOps))

\* numComplete counts ended operators, each once.  An ended operator is
\* credited to the task that goes on from it (task), or to the number of the
\* entry of completeQ that reports it (slot); the first h entries are popped.
Carries(o) == phase[o] \in {"running", "notifying"} \/ (phase[o] = "pushing" /\ count[o] # -1)

CreditedTo(task, o) == {x \in AllOps : task[x] = o}
Reported(slot, i) == {x \in AllOps : slot[x] = i}
Popped(slot, h) == {x \in AllOps : slot[x] \in 1..h}

Credits(task, slot, h) ==
    /\ \A x \in AllOps :
         /\ task[x] # Nobody => slot[x] = 0 /\ Carries(task[x])
         /\ task[x] # Nobody \/ slot[x] # 0 => OpEnded(x)
         /\ slot[x] <= h + Len(completeQ)
         /\ phase[x] = "notifying" => task[x] = x
         /\ Carries(x) => count[x] = Cardinality(CreditedTo(task, x))
    /\ \A i \in DOMAIN completeQ : completeQ[i] \in {-1, Cardinality(Reported(slot, h + i))}
    /\ numComplete <= Cardinality(Popped(slot, h))

Credited ==
    \E task \in [AllOps -> AllOps \cup {Nobody}], slot \in [AllOps -> Nat], h \in Nat :
        Credits(task, slot, h)

ExecInv ==
    /\ Types /\ Wrapped /\ Caught
    /\ kind = "threaded" => ThreadedInv /\ RunningCounted
    /\ kind = "fast" => FastInv /\ QueueInv /\ (pc # "idle" => Credited)

-----------------------------------------------------------------------------
(* The graph. *)

LEMMA Facts ==
    /\ IsFiniteSet(AllOps) /\ IsFiniteSet(Vars)
    /\ Cardinality(AllOps) \in Nat /\ Cardinality(Vars) \in Nat
    /\ AllOps = Ops \cup {Fetch} /\ Fetch \notin Ops /\ Nobody \notin AllOps /\ FetchVar \notin Vars
    /\ \A o \in Ops : Out[o] \subseteq Vars /\ Out[o] # {}
    /\ \A o, p \in Ops : \A v \in Vars : v \in Out[o] /\ v \in Out[p] => o = p
    /\ \A g \in Graphs : \A o \in Ops : g[o] \subseteq Vars
    /\ Generated \subseteq Vars
    /\ DropEvery \in Nat \ {0} /\ MaxRuns \in Nat
<1>1. IsFiniteSet(AllOps)
  BY GraphAssumption, FS_AddElement DEF AllOps
<1>2. Cardinality(AllOps) \in Nat /\ Cardinality(Vars) \in Nat
  BY <1>1, GraphAssumption, FS_CardinalityType
<1>3. \A o \in Ops : Out[o] \subseteq Vars /\ Out[o] # {}
  BY GraphAssumption
<1>4. \A g \in Graphs : \A o \in Ops : g[o] \subseteq Vars
  BY GraphAssumption
<1>5. Generated \subseteq Vars
  BY <1>3 DEF Generated
<1> QED
  BY <1>1, <1>2, <1>3, <1>4, <1>5, GraphAssumption DEF AllOps

LEMMA InGraph ==
    ASSUME Types
    PROVE  /\ \A o \in AllOps : Inputs(o) \subseteq Vars
           /\ \A o \in Ops : o \in Live /\ o # Fetch /\ Inputs(o) = in[o] /\ Outputs(o) = Out[o]
           /\ Inputs(Fetch) = fetched /\ Outputs(Fetch) = {FetchVar}
           /\ Live \subseteq AllOps /\ (Fetch \in Live <=> fetched # {})
           /\ \A o \in AllOps : o \notin Live => Inputs(o) = {}
           /\ \A o \in AllOps : Outputs(o) # {} /\ Outputs(o) \subseteq AllVars
BY Facts DEF Types, Inputs, Outputs, Live, AllVars

LEMMA SameGraph ==
    ASSUME in' = in, fetched' = fetched
    PROVE  /\ Live' = Live /\ RunVars' = RunVars
           /\ \A o : Inputs(o)' = Inputs(o)
BY DEF Live, RunVars, Inputs

\* Inputs that are to come.
LEMMA InputCount ==
    ASSUME NEW S, S \subseteq Vars
    PROVE  /\ IsFiniteSet(S) /\ Cardinality(S) \in 0..Cardinality(Vars)
           /\ Cardinality(S) = 0 <=> S = {}
BY Facts, FS_Subset, FS_CardinalityType, FS_EmptySet

LEMMA OpCount ==
    ASSUME NEW S, S \subseteq AllOps
    PROVE  /\ IsFiniteSet(S) /\ Cardinality(S) \in 0..Cardinality(AllOps)
           /\ Cardinality(S) = 0 <=> S = {}
           /\ Cardinality(S) = Cardinality(AllOps) <=> S = AllOps
BY Facts, FS_Subset, FS_CardinalityType, FS_EmptySet

\* An operator moves from one phase to another.
LEMMA MoveAt ==
    ASSUME phase \in [AllOps -> Phases], NEW o \in AllOps, NEW ph \in Phases,
           phase' = [phase EXCEPT ![o] = ph], NEW S
    PROVE  /\ phase' \in [AllOps -> Phases] /\ phase'[o] = ph
           /\ \A x \in AllOps \ {o} : phase'[x] = phase[x]
           /\ At(S)' = IF ph \in S THEN At(S) \cup {o} ELSE At(S) \ {o}
BY DEF At

-----------------------------------------------------------------------------
(* Types. *)

LEMMA TypesInit == ExecInit => Types
<1> SUFFICES ASSUME ExecInit PROVE Types
  OBVIOUS
<1> USE DEF ExecInit
<1>1. phase \in [AllOps -> Phases] /\ deps \in [AllOps -> Int] /\ count \in [AllOps -> Int]
  BY DEF Phases
<1>2. todo \in [AllOps -> SUBSET (AllVars \X AllOps)] /\ next \in [AllOps -> AllOps \cup {Nobody}]
  OBVIOUS
<1>3. runs \in 0..MaxRuns /\ dropCounter \in 0..(DropEvery - 1)
  BY Facts
<1>4. /\ kind \in {"threaded", "fast"} /\ in \in Graphs /\ fetched \in SUBSET Vars /\ pc = "idle"
      /\ pendingVars \subseteq AllVars /\ readyVars \subseteq AllVars /\ runningOps = 0
      /\ raised \subseteq {"eof", "enforce"} /\ threwBefore \in BOOLEAN /\ scopes \in BOOLEAN
      /\ remaining = 0 /\ completeQ = << >> /\ numComplete = 0 /\ toPop = 0
      /\ exception = "none" /\ outcome = "none"
  OBVIOUS
<1> HIDE DEF ExecInit
<1> QED
  BY <1>1, <1>2, <1>3, <1>4 DEF Types

LEMMA TypesEnd ==
    ASSUME Types, NEW result \in {"returned", "eof", "enforce", "none"}, EndRun(result),
           UNCHANGED <<phase, threadedVars, fastVars, exception>>
    PROVE  Types'
<1>1. dropCounter' \in 0..(DropEvery - 1) /\ scopes' \in BOOLEAN
  <2>1. dropCounter + 1 \in Nat /\ dropCounter' = (dropCounter + 1) % DropEvery
        /\ scopes' = (dropCounter + 1 # DropEvery)
    BY Facts DEF Types, EndRun, DropScopes
  <2> QED
    BY <2>1, Facts
<1>2. /\ pc' = "idle" /\ outcome' = result
      /\ UNCHANGED <<kind, allowDelay, in, deps, fetched, raised, threwBefore, runs, failures>>
      /\ UNCHANGED <<pendingVars, readyVars, runningOps, count, todo, next, remaining, completeQ,
                     numComplete, toPop>>
  BY DEF EndRun, graph, threadedVars, fastVars
<1> QED
  BY <1>1, <1>2 DEF Types

LEMMA TypesBegin ==
    ASSUME Types, RunBegins
    PROVE  Types'
<1>1. PICK f \in {{}} \cup {{v} : v \in Fetchable} : ThreadedBegin(f) \/ FastBegin(f)
  BY DEF RunBegins
<1>2. f \subseteq Vars
  BY GraphAssumption
<1>3. BeginRun(f)
  BY <1>1 DEF ThreadedBegin, FastBegin
<1>4. /\ UNCHANGED <<kind, in, dropCounter>> /\ fetched' = f /\ runs' \in 0..MaxRuns
      /\ raised' = {} /\ outcome' = "none" /\ threwBefore' \in BOOLEAN /\ scopes' \in BOOLEAN
  BY <1>3, Facts DEF BeginRun, graph, Types
<1>5. CASE ThreadedBegin(f)
  <2>1. /\ pc' = "run" /\ exception' = "none"
        /\ UNCHANGED <<runningOps, count, todo, next, remaining, completeQ, numComplete, toPop>>
    BY <1>5 DEF ThreadedBegin, fastVars
  <2>2. phase' \in [AllOps -> Phases]
    BY <1>5 DEF ThreadedBegin, Phases
  <2>3. deps' \in [AllOps -> Int]
    <3>1. Cardinality(f) \in Int /\ \A o \in Ops : Cardinality(in[o]) \in Int
      BY <1>2, Facts, InputCount DEF Types
    <3>2. \A o \in AllOps : o = Fetch \/ o \in Ops
      BY Facts
    <3> QED
      BY <1>5, <3>1, <3>2 DEF ThreadedBegin
  <2>4. pendingVars' \subseteq AllVars /\ readyVars' \subseteq AllVars
    BY <1>5 DEF ThreadedBegin, AllVars
  <2> QED
    BY <1>2, <1>4, <2>1, <2>2, <2>3, <2>4 DEF Types
<1>6. CASE FastBegin(f)
  <2>1. /\ pc' = "pop" /\ completeQ' = << >> /\ numComplete' = 0 /\ toPop' = 0
        /\ UNCHANGED <<pendingVars, readyVars, runningOps, exception>>
    BY <1>6 DEF FastBegin, threadedVars
  <2>2. phase' \in [AllOps -> Phases] /\ count' \in [AllOps -> Int]
    BY <1>6 DEF FastBegin, Phases
  <2>3. todo' \in [AllOps -> SUBSET (AllVars \X AllOps)] /\ next' \in [AllOps -> AllOps \cup {Nobody}]
    BY <1>6 DEF FastBegin
  <2>4. deps' \in [AllOps -> Int]
    <3>1. \A S : S \cap Generated \subseteq Vars
      BY Facts
    <3>2. \A S : NotReadyInputs(S) \in Int
      BY <3>1, InputCount DEF NotReadyInputs
    <3> HIDE DEF NotReadyInputs
    <3> QED
      BY <1>6, <3>2 DEF FastBegin
  <2>5. remaining' \in Int
    <3>1. Bootstrap \subseteq AllOps
      BY Facts DEF Bootstrap
    <3> QED
      BY <1>6, <3>1, OpCount DEF FastBegin
  <2> QED
    BY <1>2, <1>4, <2>1, <2>2, <2>3, <2>4, <2>5 DEF Types
<1> QED
  BY <1>1, <1>5, <1>6

LEMMA TypesMain ==
    ASSUME Types, MainStep
    PROVE  Types'
<1>0. \A e \in {"none", "eof", "enforce"} : e \in {"returned", "eof", "enforce", "none"}
  OBVIOUS
<1> USE DEF graph, threadedVars, fastVars, runVars
<1>1. CASE RunAllOps
  <2>1. phase' \in [AllOps -> Phases]
    BY <1>1 DEF RunAllOps, Types, Phases
  <2>2. runningOps' \in Int
    <3>1. ToRun \subseteq AllOps
      BY DEF ToRun, At
    <3> QED
      BY <1>1, <3>1, OpCount DEF RunAllOps, Types
  <2> QED
    BY <1>1, <2>1, <2>2 DEF RunAllOps, Types
<1>2. CASE PopAll
  <2>1. phase' \in [AllOps -> Phases]
    BY <1>2 DEF PopAll, Types, Phases
  <2>2. deps' \in [AllOps -> Int]
    <3>1. \A o \in AllOps : readyVars \cap Inputs(o) \subseteq Vars
      BY InGraph
    <3>2. \A o \in AllOps : Cardinality(readyVars \cap Inputs(o)) \in Int
      BY <3>1, InputCount
    <3>3. \A o \in AllOps : deps[o] \in Int
      BY DEF Types
    <3> QED
      BY <1>2, <3>2, <3>3 DEF PopAll, DepsLeft
  <2> QED
    BY <1>2, <2>1, <2>2 DEF PopAll, Types
<1>3. CASE PopTimeout
  BY <1>3 DEF PopTimeout, Types
<1>4. CASE ThreadedThrow
  BY <1>4, <1>0, TypesEnd DEF ThreadedThrow, Types
<1>5. CASE ThreadedReturn
  BY <1>5, TypesEnd DEF ThreadedReturn
<1>6. CASE PopComplete
  <2>1. completeQ' \in Seq(Int) /\ Head(completeQ) \in Int
    BY <1>6 DEF PopComplete, Types
  <2> QED
    BY <1>6, <2>1 DEF PopComplete, Types
<1>7. CASE CheckRemaining
  BY <1>7 DEF CheckRemaining, Types
<1>8. CASE DrainPop
  <2>1. completeQ' \in Seq(Int)
    BY <1>8 DEF DrainPop, Types
  <2> QED
    BY <1>8, <2>1 DEF DrainPop, Types
<1>9. CASE FastThrow
  BY <1>9, <1>0, TypesEnd DEF FastThrow, Types
<1>10. CASE FastReturn
  BY <1>10, TypesEnd DEF FastReturn
<1> QED
  BY <1>1, <1>2, <1>3, <1>4, <1>5, <1>6, <1>7, <1>8, <1>9, <1>10 DEF MainStep

LEMMA TypesPool ==
    ASSUME Types, NEW o \in AllOps, PoolStep(o) \/ OpRaisesSome(o)
    PROVE  Types'
<1> USE DEF graph, threadedVars, fastVars, runVars
<1>0. phase \in [AllOps -> Phases] /\ count \in [AllOps -> Int]
  BY DEF Types
<1>1. CASE StartOp(o)
  <2>1. phase' \in [AllOps -> Phases]
    BY <1>0, <1>1 DEF StartOp, Phases
  <2> QED
    BY <1>1, <2>1 DEF StartOp, Types
<1>2. CASE ThreadedOpEnds(o)
  <2>1. phase' \in [AllOps -> Phases]
    BY <1>0, <1>2 DEF ThreadedOpEnds, Phases
  <2> QED
    BY <1>2, <2>1 DEF ThreadedOpEnds, Types
<1>3. CASE PostOutputs(o)
  <2>1. phase' \in [AllOps -> Phases]
    BY <1>0, <1>3 DEF PostOutputs, Phases
  <2>2. readyVars' \subseteq AllVars
    BY <1>3, InGraph DEF PostOutputs, Types
  <2> QED
    BY <1>3, <2>1, <2>2 DEF PostOutputs, Types
<1>4. CASE FastOpEnds(o)
  <2>1. phase' \in [AllOps -> Phases] /\ count' \in [AllOps -> Int]
    BY <1>0, <1>4 DEF FastOpEnds, Phases
  <2>2. next' \in [AllOps -> AllOps \cup {Nobody}]
    BY <1>4 DEF FastOpEnds, Types
  <2>3. todo' \in [AllOps -> SUBSET (AllVars \X AllOps)]
    <3>1. Outputs(o) \X Live \subseteq AllVars \X AllOps
      BY InGraph
    <3>2. {p \in Outputs(o) \X Live : p[1] \in Inputs(p[2])} \in SUBSET (AllVars \X AllOps)
      BY <3>1
    <3> QED
      BY <1>4, <3>2 DEF FastOpEnds, Types
  <2> QED
    BY <1>4, <2>1, <2>2, <2>3 DEF FastOpEnds, Types
<1>5. CASE Notify(o)
  <2>1. PICK p \in todo[o] :
        /\ todo' = [todo EXCEPT ![o] = @ \ {p}]
        /\ deps' = [deps EXCEPT ![p[2]] = @ - 1]
        /\ next' \in {[next EXCEPT ![o] = p[2]], next}
        /\ phase' \in {[phase EXCEPT ![p[2]] = "queued"], phase}
        /\ remaining' \in {remaining + 1, remaining}
    BY <1>5 DEF Notify
  <2>2. p[2] \in AllOps
    BY DEF Types
  <2>3. phase' \in [AllOps -> Phases]
    BY <1>0, <2>1, <2>2 DEF Phases
  <2>4. todo' \in [AllOps -> SUBSET (AllVars \X AllOps)] /\ deps' \in [AllOps -> Int]
    BY <2>1, <2>2 DEF Types
  <2>5. next' \in [AllOps -> AllOps \cup {Nobody}]
    <3>1. next \in [AllOps -> AllOps \cup {Nobody}]
      BY DEF Types
    <3>2. [next EXCEPT ![o] = p[2]] \in [AllOps -> AllOps \cup {Nobody}]
      BY <2>2, <3>1
    <3> QED
      BY <2>1, <3>1, <3>2
  <2>6. remaining' \in Int
    BY <2>1 DEF Types
  <2> QED
    BY <1>5, <2>3, <2>4, <2>5, <2>6 DEF Notify, Types
<1>6. CASE GoOn(o)
  <2>1. next[o] \in AllOps
    BY <1>6 DEF GoOn, Types
  <2>2. phase' \in [AllOps -> Phases]
    BY <1>0, <1>6, <2>1 DEF GoOn, Phases
  <2>3. count' \in [AllOps -> Int]
    BY <1>0, <1>6, <2>1 DEF GoOn
  <2> QED
    BY <1>6, <2>2, <2>3 DEF GoOn, Types
<1>7. CASE EndTask(o)
  <2>1. phase' \in [AllOps -> Phases]
    BY <1>0, <1>7 DEF EndTask, Phases
  <2> QED
    BY <1>7, <2>1 DEF EndTask, Types
<1>8. CASE PushComplete(o)
  <2>1. phase' \in [AllOps -> Phases]
    BY <1>0, <1>8 DEF PushComplete, Phases
  <2>2. completeQ' \in Seq(Int)
    BY <1>8 DEF PushComplete, Types
  <2> QED
    BY <1>8, <2>1, <2>2 DEF PushComplete, Types
<1>9. ASSUME NEW e \in {"eof", "enforce"}, ThreadedOpRaises(o, e) \/ FastOpRaises(o, e)
      PROVE  Types'
  <2>1. OpRaises(o, e)
    BY <1>9 DEF ThreadedOpRaises, FastOpRaises
  <2>2. phase' \in [AllOps -> Phases] /\ count' \in [AllOps -> Int]
    BY <1>0, <1>9 DEF ThreadedOpRaises, FastOpRaises, Phases
  <2>3. raised' \subseteq {"eof", "enforce"} /\ exception' \in {"none", "eof", "enforce"}
    BY <2>1 DEF OpRaises, Catch, Types
  <2> QED
    BY <2>1, <2>2, <2>3 DEF OpRaises, Types
<1> QED
  BY <1>1, <1>2, <1>3, <1>4, <1>5, <1>6, <1>7, <1>8, <1>9 DEF PoolStep, OpRaisesSome

LEMMA TypesNext == Types /\ [ExecNext]_execVars => Types'
<1> SUFFICES ASSUME Types, [ExecNext]_execVars PROVE Types'
  OBVIOUS
<1>1. CASE UNCHANGED execVars
  BY <1>1 DEF execVars, graph, threadedVars, fastVars, runVars, Types
<1> QED
  BY <1>1, TypesBegin, TypesMain, TypesPool DEF ExecNext

-----------------------------------------------------------------------------
(* The end of a run. *)

LEMMA ThreadedAllOver ==
    ASSUME Types, ThreadedInv, runs > 0, pendingVars = {}
    PROVE  \A o \in Live : phase[o] = "over"
<1>1. \A v \in RunVars : Posted(v)
  BY DEF ThreadedInv
<1>2. Vars \subseteq RunVars /\ (Fetch \in Live => FetchVar \in RunVars)
  BY InGraph DEF RunVars, AllVars
<1>3. ASSUME NEW o \in Ops PROVE phase[o] = "over"
  <2>1. PICK v \in Vars : v \in Out[o] /\ v # FetchVar
    BY Facts
  <2> QED
    BY <1>1, <1>2, <2>1 DEF Posted
<1>4. Fetch \in Live => phase[Fetch] = "over"
  BY <1>1, <1>2 DEF Posted
<1> QED
  BY <1>3, <1>4, InGraph, Facts

LEMMA EndedIsLive ==
    ASSUME Wrapped, NEW o \in AllOps, OpEnded(o)
    PROVE  o \in Live
BY DEF Wrapped, OpEnded

LEMMA FastAllEnded ==
    ASSUME Types, Wrapped, Credited, numComplete = Cardinality(Live)
    PROVE  \A o \in Live : OpEnded(o) /\ phase[o] # "notifying"
<1>1. PICK task \in [AllOps -> AllOps \cup {Nobody}], slot \in [AllOps -> Nat], h \in Nat :
         Credits(task, slot, h)
  BY DEF Credited
<1>2. \A x \in AllOps : slot[x] # 0 => OpEnded(x) /\ phase[x] # "notifying"
  BY <1>1, Facts DEF Credits
<1>3. Popped(slot, h) \subseteq Live
  BY <1>2, EndedIsLive DEF Popped
<1>4. IsFiniteSet(Live) /\ Cardinality(Popped(slot, h)) >= Cardinality(Live)
  BY <1>1, InGraph, OpCount DEF Credits
<1>5. Popped(slot, h) = Live
  <2>1. Cardinality(Popped(slot, h)) <= Cardinality(Live)
    BY <1>3, <1>4, FS_Subset
  <2>2. Cardinality(Popped(slot, h)) \in Nat /\ Cardinality(Live) \in Nat
    BY <1>3, InGraph, OpCount
  <2> QED
    BY <1>3, <1>4, <2>1, <2>2, FS_Subset
<1>6. \A x \in Live : slot[x] # 0 /\ x \in AllOps
  BY <1>5, InGraph DEF Popped
<1> QED
  BY <1>2, <1>6

\* Run returns only when every operator has ended.
LEMMA ReturnIsComplete ==
    ASSUME ExecInv, ThreadedReturn \/ FastReturn
    PROVE  \A o \in Live : OpEnded(o) /\ phase[o] \in {"pushing", "over"}
<1>1. Types /\ Wrapped
  BY DEF ExecInv
<1>2. CASE ThreadedReturn
  <2>1. ThreadedInv /\ runs > 0 /\ pendingVars = {}
    BY <1>1, <1>2 DEF ExecInv, ThreadedReturn, Wrapped
  <2> QED
    BY <1>1, <2>1, ThreadedAllOver DEF OpEnded, OpFailed
<1>3. CASE FastReturn
  <2>1. FastInv /\ Credited /\ numComplete = Cardinality(Live)
    BY <1>1, <1>3 DEF ExecInv, FastReturn
  <2>2. \A o \in Live : OpEnded(o) /\ phase[o] # "notifying"
    BY <1>1, <2>1, FastAllEnded
  <2> QED
    BY <1>1, <2>1, <2>2, InGraph DEF OpEnded, FastInv, FastShape, FastPhases
<1> QED
  BY <1>2, <1>3

\* No operator is at work when Run returns or throws.
LEMMA EndIsQuiet ==
    ASSUME ExecInv, ThreadedReturn \/ ThreadedThrow \/ FastReturn \/ FastThrow
    PROVE  At({"queued", "running", "posting", "notifying", "ending"}) = {}
<1>1. Types /\ Wrapped
  BY DEF ExecInv
<1>2. CASE ThreadedReturn \/ FastReturn
  <2>1. \A o \in AllOps : phase[o] \in {"pushing", "over", "pending"}
    BY <1>1, <1>2, ReturnIsComplete DEF Wrapped
  <2> QED
    BY <2>1 DEF At
<1>3. CASE ThreadedThrow
  <2>1. ThreadedInv
    BY <1>3 DEF ExecInv, ThreadedThrow
  <2> QED
    BY <1>3, <2>1 DEF ThreadedThrow, FuturesDone, Busy, At, ThreadedInv, ThreadedPhases
<1>4. CASE FastThrow
  <2>1. FastInv
    BY <1>1, <1>4 DEF ExecInv, FastThrow, ThreadedInv, Types
  <2>2. Tasks = {}
    <3>1. Tasks \subseteq AllOps
      BY DEF Tasks, At
    <3> QED
      BY <1>4, <2>1, <3>1, OpCount DEF FastThrow, FastInv, FastShape
  <2> QED
    BY <2>1, <2>2 DEF Tasks, At, FastInv, FastShape, FastPhases
<1> QED
  BY <1>2, <1>3, <1>4

\* A task of the fast executor counts down a dependency.
Delivers(o, v, op) ==
    /\ phase[o] = "notifying" /\ <<v, op>> \in todo[o]
    /\ todo' = [todo EXCEPT ![o] = @ \ {<<v, op>>}]
    /\ deps' = [deps EXCEPT ![op] = @ - 1]
    /\ \/ deps[op] # 1 /\ UNCHANGED <<next, phase, remaining>>
       \/ /\ deps[op] = 1 /\ next[o] = Nobody /\ next' = [next EXCEPT ![o] = op]
          /\ UNCHANGED <<phase, remaining>>
       \/ /\ deps[op] = 1 /\ next[o] # Nobody /\ UNCHANGED next
          /\ phase' = [phase EXCEPT ![op] = "queued"] /\ remaining' = remaining + 1
    /\ UNCHANGED <<kind, allowDelay, in, pc, pendingVars, readyVars, runningOps, count, completeQ,
                   numComplete, toPop, exception, fetched, raised, outcome, threwBefore, runs,
                   failures, dropCounter, scopes>>

LEMMA NotifyIs ==
    ASSUME ExecInv, NEW o \in AllOps, Notify(o)
    PROVE  /\ kind = "fast" /\ FastInv /\ runs > 0 /\ pc # "idle" /\ o \in Ops
           /\ \E v \in Vars, op \in Live :
                /\ v \in Out[o] /\ v \in Inputs(op) /\ Delivers(o, v, op)
<1>1. phase[o] = "notifying" /\ Types /\ Wrapped
  BY DEF Notify, ExecInv
<1>2. kind = "fast" /\ FastInv
  BY <1>1 DEF ExecInv, ThreadedInv, ThreadedPhases, Types
<1>3. runs > 0 /\ pc # "idle"
  BY <1>1 DEF Wrapped, Types, At
<1>4. PICK p \in todo[o] :
        /\ todo' = [todo EXCEPT ![o] = @ \ {p}]
        /\ deps' = [deps EXCEPT ![p[2]] = @ - 1]
        /\ \/ deps[p[2]] # 1 /\ UNCHANGED <<next, phase, remaining>>
           \/ /\ deps[p[2]] = 1 /\ next[o] = Nobody /\ next' = [next EXCEPT ![o] = p[2]]
              /\ UNCHANGED <<phase, remaining>>
           \/ /\ deps[p[2]] = 1 /\ next[o] # Nobody /\ UNCHANGED next
              /\ phase' = [phase EXCEPT ![p[2]] = "queued"] /\ remaining' = remaining + 1
  BY DEF Notify, IsLast
<1>5. PICK v \in Outputs(o), op \in Live : p = <<v, op>> /\ v \in Inputs(op)
  BY <1>2 DEF FastInv, TodoInv, Handed
<1>6. v \in Vars
  BY <1>1, <1>5, InGraph
<1>7. o \in Ops /\ v \in Out[o]
  BY <1>1, <1>5, <1>6, InGraph, Facts
<1>8. UNCHANGED <<kind, allowDelay, in, pc, pendingVars, readyVars, runningOps, count, completeQ,
                   numComplete, toPop, exception, fetched, raised, outcome, threwBefore, runs,
                   failures, dropCounter, scopes>>
  BY DEF Notify, graph, threadedVars, runVars
<1>9. p[2] = op
  BY <1>5
<1>10. Delivers(o, v, op)
  BY <1>1, <1>4, <1>5, <1>8, <1>9 DEF Delivers
<1> QED
  BY <1>2, <1>3, <1>5, <1>6, <1>7, <1>10

-----------------------------------------------------------------------------
(* The wrapper. *)

LEMMA WrappedInit == ExecInit => Wrapped
BY DEF ExecInit, Wrapped, At

LEMMA WrappedBegin ==
    ASSUME Types, Wrapped, RunBegins
    PROVE  Wrapped' /\ runs' = runs + 1 /\ pc' # "idle"
<1>1. PICK f \in {{}} \cup {{v} : v \in Fetchable} : ThreadedBegin(f) \/ FastBegin(f)
  BY DEF RunBegins
<1>2. BeginRun(f) /\ pc' # "idle"
  BY <1>1 DEF ThreadedBegin, FastBegin
<1>3. scopes' /\ outcome' = "none" /\ runs' = runs + 1 /\ runs' > 0
  <2>1. scopes'
    BY <1>2 DEF BeginRun, Wrapped
  <2>2. outcome' = "none" /\ runs' = runs + 1
    BY <1>2 DEF BeginRun
  <2>3. runs \in Nat
    BY DEF Types
  <2> QED
    BY <2>1, <2>2, <2>3
<1>4. Ops \subseteq Live'
  BY DEF Live, AllOps
<1>5. \A o \in AllOps : o \notin Ops => phase'[o] = "pending"
  BY <1>1 DEF ThreadedBegin, FastBegin, Bootstrap
<1> QED
  BY <1>2, <1>3, <1>4, <1>5 DEF Wrapped, Types

LEMMA WrappedEnd ==
    ASSUME ExecInv, ThreadedReturn \/ ThreadedThrow \/ FastReturn \/ FastThrow
    PROVE  Wrapped'
<1>1. Types /\ Wrapped
  BY DEF ExecInv
<1>2. PICK result : EndRun(result) /\ UNCHANGED phase
  BY DEF ThreadedReturn, ThreadedThrow, FastReturn, FastThrow
<1>3. scopes' \/ dropCounter' = 0
  <2>1. CASE dropCounter + 1 = DropEvery
    <3>1. dropCounter' = DropEvery % DropEvery
      BY <1>2, <2>1 DEF EndRun, DropScopes
    <3> QED
      BY <3>1, Facts
  <2>2. CASE dropCounter + 1 # DropEvery
    BY <1>2, <2>2 DEF EndRun, DropScopes
  <2> QED
    BY <2>1, <2>2
<1>4. At({"queued", "running", "posting", "notifying", "ending"})' = {}
  BY <1>2, EndIsQuiet DEF At
<1>5. pc' = "idle" /\ UNCHANGED <<in, fetched, runs>>
  BY <1>2 DEF EndRun, graph
<1> QED
  BY <1>1, <1>2, <1>3, <1>4, <1>5, SameGraph DEF Wrapped

\* A step of the pool is a step of an operator of the run, and between runs
\* only a task that has yet to push.
LEMMA PoolMoves ==
    ASSUME ExecInv, NEW o \in AllOps, PoolStep(o) \/ OpRaisesSome(o)
    PROVE  /\ phase[o] # "pending" /\ o \in Live /\ runs > 0
           /\ pc = "idle" => phase[o] = "pushing"
           /\ UNCHANGED <<kind, allowDelay, in, pc, fetched, outcome, threwBefore, runs,
                          dropCounter, scopes>>
           /\ \A x \in AllOps : phase'[x] # phase[x] =>
                x \in Live /\ (pc = "idle" => phase'[x] \in {"over", "failed"})
<1> USE DEF graph, runVars
<1>1. Types /\ Wrapped /\ phase \in [AllOps -> Phases]
  BY DEF ExecInv, Types
<1>2. /\ phase[o] \in {"queued", "running", "posting", "notifying", "ending", "pushing"}
      /\ UNCHANGED <<kind, allowDelay, in, pc, fetched, outcome, threwBefore, runs, dropCounter,
                     scopes>>
  BY DEF PoolStep, OpRaisesSome, StartOp, ThreadedOpEnds, PostOutputs, FastOpEnds, Notify, GoOn,
         EndTask, PushComplete, ThreadedOpRaises, FastOpRaises, OpRaises
<1>3. phase[o] # "pending" /\ o \in Live /\ runs > 0 /\ (pc = "idle" => phase[o] = "pushing")
  BY <1>1, <1>2 DEF Wrapped, At, Types
<1>4. CASE Notify(o)
  <2>1. PICK v \in Vars, op \in Live : Delivers(o, v, op) /\ pc # "idle"
    BY <1>4, NotifyIs
  <2>2. op \in AllOps
    BY <1>1, InGraph
  <2> QED
    BY <1>1, <1>2, <1>3, <2>1, <2>2 DEF Delivers
<1>5. CASE GoOn(o)
  <2>1. phase[o] = "notifying" /\ FastInv
    BY <1>1, <1>5 DEF GoOn, ExecInv, ThreadedInv, ThreadedPhases, Types
  <2>2. next[o] \in Live /\ next[o] \in AllOps
    BY <1>1, <1>5, <2>1, InGraph DEF GoOn, FastInv, NextInv
  <2> QED
    BY <1>1, <1>2, <1>3, <1>5, <2>1, <2>2 DEF GoOn
<1>6. CASE ~Notify(o) /\ ~GoOn(o)
  <2>1. PICK ph : phase' = [phase EXCEPT ![o] = ph]
    BY <1>6 DEF PoolStep, OpRaisesSome, StartOp, ThreadedOpEnds, PostOutputs, FastOpEnds,
         EndTask, PushComplete, ThreadedOpRaises, FastOpRaises
  <2>2. \A x \in AllOps : phase'[x] # phase[x] => x = o
    BY <1>1, <2>1
  <2>3. pc = "idle" => phase'[o] \in {"over", "failed"}
    BY <1>1, <1>3, <1>6 DEF PoolStep, OpRaisesSome, StartOp, ThreadedOpEnds, PostOutputs, FastOpEnds,
         EndTask, PushComplete, ThreadedOpRaises, FastOpRaises, OpRaises
  <2> QED
    BY <1>2, <1>3, <2>2, <2>3
<1> QED
  BY <1>4, <1>5, <1>6

LEMMA WrappedPool ==
    ASSUME ExecInv, NEW o \in AllOps, PoolStep(o) \/ OpRaisesSome(o)
    PROVE  Wrapped'
<1>1. Types /\ Wrapped
  BY DEF ExecInv
<1>2. /\ runs > 0 /\ UNCHANGED <<in, pc, fetched, outcome, runs, dropCounter, scopes>>
      /\ \A x \in AllOps : phase'[x] # phase[x] =>
            x \in Live /\ (pc = "idle" => phase'[x] \in {"over", "failed"})
  BY PoolMoves
<1>3. pc' = "idle" => At({"queued", "running", "posting", "notifying", "ending"})' = {}
  BY <1>1, <1>2 DEF Wrapped, At
<1>4. \A x \in AllOps : x \notin Live' => phase'[x] = "pending"
  BY <1>1, <1>2, SameGraph DEF Wrapped
<1> QED
  BY <1>1, <1>2, <1>3, <1>4 DEF Wrapped

\* The main thread, within a run.
MainWithin == RunAllOps \/ PopAll \/ PopTimeout \/ PopComplete \/ CheckRemaining \/ DrainPop

LEMMA ReleasedWasPending ==
    ASSUME Types, ThreadedInv, runs > 0, NEW o \in AllOps, Released(o)
    PROVE  phase[o] = "pending"
BY DEF Released, ThreadedInv

LEMMA MainMoves ==
    ASSUME ExecInv, MainWithin
    PROVE  /\ pc # "idle" /\ pc' # "idle" /\ runs > 0
           /\ UNCHANGED <<kind, allowDelay, in, fetched, outcome, threwBefore, runs, failures,
                          dropCounter, scopes, raised, exception, count, todo, next, remaining>>
           /\ \A x \in AllOps : phase'[x] # phase[x] => x \in Live
           /\ \A x \in AllOps : phase'[x] # phase[x] =>
                /\ phase[x] \in {"pending", "ready", "delayed"}
                /\ phase'[x] \in {"ready", "delayed", "queued"}
<1> USE DEF graph, runVars, fastVars
<1>1. Types /\ Wrapped
  BY DEF ExecInv
<1>2. /\ pc # "idle" /\ pc' # "idle"
      /\ UNCHANGED <<kind, allowDelay, in, fetched, outcome, threwBefore, runs, failures,
                     dropCounter, scopes, raised, exception, count, todo, next, remaining>>
  BY <1>1 DEF MainWithin, RunAllOps, PopAll, PopTimeout, PopComplete, CheckRemaining, DrainPop, Types
<1>3. runs > 0
  BY <1>1, <1>2 DEF Wrapped
<1>4. CASE RunAllOps
  <2>1. \A x \in AllOps : phase'[x] # phase[x] =>
           phase[x] \in {"ready", "delayed"} /\ phase'[x] = "queued"
    BY <1>4 DEF RunAllOps, ToRun, At
  <2> QED
    BY <1>1, <1>2, <1>3, <2>1 DEF Wrapped
<1>5. CASE PopAll
  <2>1. ThreadedInv
    BY <1>5 DEF PopAll, ExecInv
  <2>2. \A x \in AllOps : phase'[x] # phase[x] =>
           phase[x] = "pending" /\ phase'[x] \in {"ready", "delayed"} /\ x \in Live
    BY <1>1, <1>3, <1>5, <2>1, ReleasedWasPending DEF PopAll, Released
  <2> QED
    BY <1>2, <1>3, <2>2
<1>6. CASE UNCHANGED phase
  BY <1>2, <1>3, <1>6
<1> QED
  BY <1>4, <1>5, <1>6 DEF MainWithin, PopTimeout, PopComplete, CheckRemaining, DrainPop

LEMMA WrappedMain ==
    ASSUME ExecInv, MainWithin
    PROVE  Wrapped'
<1>1. Types /\ Wrapped
  BY DEF ExecInv
<1>2. /\ pc # "idle" /\ pc' # "idle" /\ runs > 0
      /\ UNCHANGED <<in, fetched, outcome, runs, dropCounter, scopes>>
      /\ \A x \in AllOps : phase'[x] # phase[x] => x \in Live
  BY MainMoves
<1>3. \A x \in AllOps : x \notin Live' => phase'[x] = "pending"
  BY <1>1, <1>2, SameGraph DEF Wrapped
<1> QED
  BY <1>1, <1>2, <1>3 DEF Wrapped

-----------------------------------------------------------------------------
(* Which operators have ended or failed. *)

\* Only the end of Run makes an operator ended; no step of the pool but an
\* exception makes one failed.
LEMMA OpStates ==
    ASSUME ExecInv, NEW o \in AllOps, PoolStep(o)
    PROVE  /\ \A x \in AllOps : OpFailed(x)' <=> OpFailed(x)
           /\ \A x \in AllOps : x # o => (OpEnded(x)' <=> OpEnded(x))
           /\ ~ThreadedOpEnds(o) /\ ~FastOpEnds(o) => (OpEnded(o)' <=> OpEnded(o))
           /\ ThreadedOpEnds(o) \/ FastOpEnds(o) => phase[o] = "running" /\ OpEnded(o)'
<1> USE DEF OpEnded, OpFailed
<1>1. Types /\ Wrapped /\ phase \in [AllOps -> Phases] /\ count \in [AllOps -> Int]
  BY DEF ExecInv, Types
<1>2. CASE StartOp(o)
  BY <1>1, <1>2 DEF StartOp, fastVars, ThreadedOpEnds, FastOpEnds
<1>3. CASE ThreadedOpEnds(o)
  BY <1>1, <1>3 DEF ThreadedOpEnds, fastVars
<1>4. CASE PostOutputs(o)
  BY <1>1, <1>4 DEF PostOutputs, fastVars, ThreadedOpEnds, FastOpEnds
<1>5. CASE FastOpEnds(o)
  BY <1>1, <1>5 DEF FastOpEnds
<1>6. CASE Notify(o)
  <2>1. PICK v \in Vars, op \in Live : Delivers(o, v, op) /\ FastInv /\ runs > 0
    BY <1>6, NotifyIs
  <2>2. op \in AllOps
    BY <1>1, InGraph
  <2>3. deps[op] = 1 => phase[op] = "pending"
    BY <2>1, <2>2 DEF FastInv, DepsInv
  <2> QED
    BY <1>1, <1>6, <2>1, <2>2, <2>3 DEF Delivers, ThreadedOpEnds, FastOpEnds
<1>7. CASE GoOn(o)
  <2>1. phase[o] = "notifying" /\ FastInv
    BY <1>1, <1>7 DEF GoOn, ExecInv, ThreadedInv, ThreadedPhases, Types
  <2>2. next[o] \in AllOps /\ phase[next[o]] = "pending" /\ next[o] # o
    BY <1>1, <1>7, <2>1, InGraph DEF GoOn, FastInv, NextInv
  <2> QED
    BY <1>1, <1>7, <2>1, <2>2 DEF GoOn, ThreadedOpEnds, FastOpEnds
<1>8. CASE EndTask(o)
  <2>1. FastInv
    BY <1>1, <1>8 DEF EndTask, ExecInv, ThreadedInv, ThreadedPhases, Types
  <2>2. \/ phase[o] = "ending" /\ count[o] = -1
        \/ phase[o] = "notifying" /\ count[o] >= 0
    BY <1>8, <2>1 DEF EndTask, FastInv, CountInv
  <2> QED
    BY <1>1, <1>8, <2>2 DEF EndTask, ThreadedOpEnds, FastOpEnds
<1>9. CASE PushComplete(o)
  BY <1>1, <1>9 DEF PushComplete, ThreadedOpEnds, FastOpEnds
<1> QED
  BY <1>2, <1>3, <1>4, <1>5, <1>6, <1>7, <1>8, <1>9 DEF PoolStep

LEMMA RaiseStates ==
    ASSUME ExecInv, NEW o \in AllOps, OpRaisesSome(o)
    PROVE  /\ phase[o] = "running" /\ OpFailed(o)' /\ ~OpEnded(o)'
           /\ \A x \in AllOps : x # o => (OpFailed(x)' <=> OpFailed(x))
           /\ \A x \in AllOps : x # o => (OpEnded(x)' <=> OpEnded(x))
<1>1. phase \in [AllOps -> Phases] /\ count \in [AllOps -> Int]
  BY DEF ExecInv, Types
<1>2. PICK e \in {"eof", "enforce"} : ThreadedOpRaises(o, e) \/ FastOpRaises(o, e)
  BY DEF OpRaisesSome
<1> QED
  BY <1>1, <1>2 DEF ThreadedOpRaises, FastOpRaises, OpRaises, OpFailed, OpEnded

LEMMA MainStates ==
    ASSUME ExecInv, MainWithin
    PROVE  \A x \in AllOps :
              /\ OpFailed(x)' <=> OpFailed(x)
              /\ OpEnded(x)' <=> OpEnded(x)
              /\ phase'[x] = "running" <=> phase[x] = "running"
BY MainMoves DEF OpFailed, OpEnded

-----------------------------------------------------------------------------
(* Exceptions. *)

LEMMA CaughtInit == ExecInit => Caught
BY DEF ExecInit, Caught, OpFailed, FirstOf, HonestThrow

LEMMA CaughtBegin ==
    ASSUME ExecInv, RunBegins
    PROVE  Caught'
<1>1. PICK f \in {{}} \cup {{v} : v \in Fetchable} : ThreadedBegin(f) \/ FastBegin(f)
  BY DEF RunBegins
<1>2. /\ pc = "idle" /\ raised' = {} /\ outcome' = "none" /\ kind' = kind
      /\ threwBefore' = (threwBefore \/ outcome \in {"eof", "enforce"})
  BY <1>1 DEF ThreadedBegin, FastBegin, BeginRun, graph
<1>3. Types /\ Caught
  BY DEF ExecInv
<1>4. \A o \in AllOps : phase'[o] \in {"pending", "ready", "queued"}
  BY <1>1 DEF ThreadedBegin, FastBegin
<1>5. kind = "threaded" \/ ~threwBefore' => exception' = "none"
  <2>1. CASE ThreadedBegin(f)
    BY <2>1 DEF ThreadedBegin
  <2>2. CASE FastBegin(f) /\ threwBefore'
    BY <2>2 DEF FastBegin
  <2>3. CASE FastBegin(f) /\ ~threwBefore'
    <3>1. ~threwBefore /\ outcome \in {"none", "returned"}
      BY <1>2, <1>3, <2>3 DEF Types
    <3>2. raised = {} /\ exception = FirstOf(raised)
      BY <1>2, <1>3, <3>1 DEF Caught
    <3> QED
      BY <2>3, <3>2 DEF FirstOf, FastBegin
  <2> QED
    BY <1>1, <2>1, <2>2, <2>3
<1>6. completeQ' = << >>
  BY <1>1 DEF ThreadedBegin, FastBegin, ExecInv, ThreadedInv, fastVars
<1>7. pc' \in {"run", "pop"}
  BY <1>1 DEF ThreadedBegin, FastBegin
<1>8. FirstOf(raised)' = "none"
  BY <1>2 DEF FirstOf
<1>9. ~\E o \in AllOps : OpFailed(o)'
  BY <1>4 DEF OpFailed
<1>10. DOMAIN completeQ' = {}
  BY <1>6
<1> QED
  BY <1>2, <1>5, <1>7, <1>8, <1>9, <1>10 DEF Caught, HonestThrow

LEMMA CaughtEnd ==
    ASSUME ExecInv, ThreadedReturn \/ ThreadedThrow \/ FastReturn \/ FastThrow
    PROVE  Caught'
<1>1. Types /\ Wrapped /\ Caught
  BY DEF ExecInv
<1>2. /\ pc' = "idle"
      /\ UNCHANGED <<kind, phase, count, completeQ, exception, raised, threwBefore>>
  BY DEF ThreadedReturn, ThreadedThrow, FastReturn, FastThrow, EndRun, graph, fastVars
<1>3. \A o \in AllOps : OpFailed(o)' <=> OpFailed(o)
  BY <1>2 DEF OpFailed
<1>4. CASE ThreadedReturn \/ FastReturn
  <2>1. \A o \in AllOps : ~OpFailed(o)
    BY <1>1, <1>4, ReturnIsComplete DEF Wrapped, OpEnded, OpFailed
  <2>2. raised = {} /\ outcome' = "returned"
    BY <1>1, <1>4, <2>1 DEF Caught, ThreadedReturn, FastReturn, EndRun
  <2> QED
    BY <1>1, <1>2, <1>3, <2>2 DEF Caught, FirstOf, HonestThrow
<1>5. CASE ThreadedThrow \/ FastThrow
  <2>1. raised # {} /\ outcome' = exception
    BY <1>1, <1>5 DEF Caught, ThreadedThrow, FastThrow, EndRun
  <2>2. exception \in {"eof", "enforce"}
    BY <1>1, <2>1 DEF Caught, Types
  <2>3. HonestThrow'
    BY <1>1, <1>2, <2>1 DEF Caught, HonestThrow, FirstOf
  <2> QED
    BY <1>1, <1>2, <1>3, <2>1, <2>2, <2>3 DEF Caught, FirstOf
<1> QED
  BY <1>4, <1>5

LEMMA CaughtMain ==
    ASSUME ExecInv, MainWithin
    PROVE  Caught'
<1>1. Types /\ Wrapped /\ Caught
  BY DEF ExecInv
<1>2. /\ pc # "idle" /\ pc' # "idle"
      /\ UNCHANGED <<kind, outcome, threwBefore, raised, exception>>
  BY MainMoves
<1>3. \A o \in AllOps : OpFailed(o)' <=> OpFailed(o)
  BY MainStates
<1>4. \A i \in DOMAIN completeQ' : completeQ'[i] = -1 => raised # {}
  <2>1. CASE PopComplete \/ DrainPop
    <3>1. completeQ # << >> /\ completeQ' = Tail(completeQ) /\ completeQ \in Seq(Int)
      BY <1>1, <2>1 DEF PopComplete, DrainPop, Types
    <3>2. \A i \in DOMAIN completeQ' : i + 1 \in DOMAIN completeQ /\ completeQ'[i] = completeQ[i + 1]
      BY <3>1
    <3> QED
      BY <1>1, <3>2 DEF Caught
  <2>2. CASE UNCHANGED completeQ
    BY <1>1, <2>2 DEF Caught
  <2> QED
    BY <2>1, <2>2 DEF MainWithin, RunAllOps, PopAll, PopTimeout, CheckRemaining, fastVars
<1>5. pc' \in {"drain", "check"} => raised # {}
  <2>1. CASE PopTimeout
    BY <1>1, <2>1 DEF PopTimeout, Caught, FirstOf
  <2>2. CASE PopComplete
    <3>1. completeQ # << >> /\ completeQ \in Seq(Int)
      BY <1>1, <2>2 DEF PopComplete, Types
    <3>2. 1 \in DOMAIN completeQ /\ Head(completeQ) = completeQ[1]
      BY <3>1
    <3> QED
      BY <1>1, <2>2, <3>2 DEF PopComplete, Caught
  <2>3. CASE CheckRemaining \/ DrainPop
    BY <1>1, <2>3 DEF CheckRemaining, DrainPop, Caught
  <2> QED
    BY <2>1, <2>2, <2>3 DEF MainWithin, RunAllOps, PopAll
<1> QED
  BY <1>1, <1>2, <1>3, <1>4, <1>5 DEF Caught, FirstOf, HonestThrow

LEMMA CaughtPool ==
    ASSUME ExecInv, NEW o \in AllOps, PoolStep(o)
    PROVE  Caught'
<1>1. Types /\ Wrapped /\ Caught
  BY DEF ExecInv
<1>2. UNCHANGED <<kind, pc, outcome, threwBefore>>
  BY PoolMoves
<1>3. UNCHANGED <<raised, exception>>
  BY DEF PoolStep, StartOp, ThreadedOpEnds, PostOutputs, FastOpEnds, Notify, GoOn, EndTask,
         PushComplete, runVars
<1>4. \A x \in AllOps : OpFailed(x)' <=> OpFailed(x)
  BY OpStates
<1>5. \A i \in DOMAIN completeQ' : completeQ'[i] = -1 => raised # {}
  <2>1. CASE PushComplete(o)
    <3>1. completeQ \in Seq(Int) /\ count[o] \in Int
      BY <1>1 DEF Types
    <3>2. count[o] = -1 => raised # {}
      BY <1>1, <2>1 DEF PushComplete, OpFailed, Caught
    <3>3. CASE pc = "idle"
      BY <1>1, <2>1, <3>3 DEF PushComplete, Caught
    <3>4. CASE pc # "idle"
      <4>1. completeQ' = Append(completeQ, count[o])
        BY <2>1, <3>4 DEF PushComplete
      <4>2. \A i \in DOMAIN completeQ' : completeQ'[i] = count[o]
               \/ (i \in DOMAIN completeQ /\ completeQ'[i] = completeQ[i])
        BY <3>1, <4>1
      <4> QED
        BY <1>1, <3>2, <4>2 DEF Caught
    <3> QED
      BY <3>3, <3>4
  <2>2. CASE UNCHANGED completeQ
    BY <1>1, <2>2 DEF Caught
  <2> QED
    BY <2>1, <2>2 DEF PoolStep, StartOp, ThreadedOpEnds, PostOutputs, FastOpEnds, Notify, GoOn,
          EndTask, fastVars
<1> QED
  BY <1>1, <1>2, <1>3, <1>4, <1>5 DEF Caught, FirstOf, HonestThrow

LEMMA CaughtRaise ==
    ASSUME ExecInv, NEW o \in AllOps, OpRaisesSome(o)
    PROVE  Caught'
<1>1. Types /\ Wrapped /\ Caught
  BY DEF ExecInv
<1>2. PICK e \in {"eof", "enforce"} : ThreadedOpRaises(o, e) \/ FastOpRaises(o, e)
  BY DEF OpRaisesSome
<1>3. /\ phase[o] = "running" /\ raised' = raised \cup {e} /\ completeQ' = completeQ
      /\ exception' = IF e = "eof" /\ exception # "none" THEN exception ELSE e
  BY <1>2 DEF ThreadedOpRaises, FastOpRaises, OpRaises, Catch
<1>4. UNCHANGED <<kind, pc, outcome, threwBefore>> /\ pc # "idle"
  BY <1>3, PoolMoves
<1>5. outcome = "none"
  BY <1>1, <1>4 DEF Wrapped
<1>6. raised' # {} /\ exception' # "none" /\ \E x \in AllOps : OpFailed(x)'
  BY <1>3, RaiseStates
<1>7. kind = "threaded" \/ ~threwBefore => exception' = FirstOf(raised)'
  <2>1. exception = FirstOf(raised) => exception' = FirstOf(raised)'
    BY <1>1, <1>3 DEF FirstOf, Types
  <2> QED
    BY <1>1, <2>1 DEF Caught
<1> QED
  BY <1>4, <1>5, <1>6, <1>7 DEF Caught, HonestThrow

-----------------------------------------------------------------------------
(* The threaded executor. *)

LEMMA ThreadedInit ==
    ASSUME ExecInit
    PROVE  ThreadedInv /\ RunningCounted
<1>1. \A S : Cardinality(S \cap {}) = 0
  <2>1. \A S : S \cap {} = {}
    OBVIOUS
  <2> QED
    BY <2>1, FS_EmptySet
<1>2. \A o \in AllOps : phase[o] = "pending" /\ deps[o] = 0
  BY DEF ExecInit
<1>3. Counted = {}
  BY <1>2 DEF Counted, At
<1>4. RunningCounted
  BY <1>3, FS_EmptySet DEF ExecInit, RunningCounted
<1>5. \A o \in AllOps : deps[o] = Cardinality(Inputs(o) \cap pendingVars)
  BY <1>1, <1>2 DEF ExecInit
<1> QED
  BY <1>2, <1>4, <1>5 DEF ExecInit, ThreadedInv, ThreadedPhases

\* A step that neither posts nor pops.
LEMMA ThreadedFrame ==
    ASSUME ThreadedInv, pc' # "check",
           UNCHANGED <<in, fetched, deps, pendingVars, readyVars, runs, remaining, completeQ,
                       numComplete, toPop>>,
           \A x \in AllOps :
              /\ phase'[x] \in ThreadedPhases
              /\ phase'[x] = "pending" <=> phase[x] = "pending"
              /\ phase'[x] = "over" <=> phase[x] = "over"
    PROVE  ThreadedInv'
<1>1. Live' = Live /\ RunVars' = RunVars /\ \A o : Inputs(o)' = Inputs(o)
  BY SameGraph
<1>2. \A v : Posted(v)' <=> Posted(v)
  BY DEF Posted, AllOps
<1>3. runs' > 0 => pendingVars' \ readyVars' = {v \in RunVars' : ~Posted(v)'}
  BY <1>1, <1>2 DEF ThreadedInv
<1>4. Live \subseteq AllOps
  BY DEF Live, AllOps
<1>5. runs' > 0 => \A o \in Live' : phase'[o] = "pending" <=> Inputs(o)' \cap pendingVars' # {}
  BY <1>1, <1>4 DEF ThreadedInv
<1>6. \A o \in AllOps : deps'[o] = Cardinality(Inputs(o)' \cap pendingVars')
  BY <1>1 DEF ThreadedInv
<1> QED
  BY <1>3, <1>5, <1>6 DEF ThreadedInv

LEMMA ThreadedInvBegin ==
    ASSUME ExecInv, kind = "threaded", RunBegins
    PROVE  ThreadedInv'
<1>1. PICK f \in {{}} \cup {{v} : v \in Fetchable} : ThreadedBegin(f)
  BY DEF RunBegins, FastBegin
<1>2. fetched' = f /\ in' = in /\ pc' = "run" /\ f \subseteq Vars
  BY <1>1, GraphAssumption DEF ThreadedBegin, BeginRun, graph
<1>3. \A o \in AllOps : phase'[o] \in {"pending", "ready"}
  BY <1>1 DEF ThreadedBegin
<1>4. RunVars' = pendingVars' /\ readyVars' = Vars \ Generated /\ Vars \subseteq pendingVars'
  BY <1>1, <1>2 DEF ThreadedBegin, RunVars, AllVars
<1>5. pendingVars' \ readyVars' = {v \in RunVars' : ~Posted(v)'}
  <2>1. \A v \in Vars : Posted(v)' <=> v \notin Generated
    BY <1>3, Facts DEF Posted, Generated
  <2>2. ~Posted(FetchVar)'
    BY <1>3, Facts DEF Posted
  <2>3. \A v \in pendingVars' : v \in Vars \/ v = FetchVar
    BY <1>1 DEF ThreadedBegin
  <2> QED
    BY <1>4, <2>1, <2>2, <2>3, Facts
<1>7. \A o \in AllOps : Inputs(o)' = (IF o = Fetch THEN f ELSE in[o]) /\ Inputs(o)' \subseteq Vars
  BY <1>2, Facts DEF Inputs, ExecInv, Types, AllOps
<1>8. \A o \in AllOps : Inputs(o)' \cap pendingVars' = Inputs(o)'
  BY <1>4, <1>7
<1>9. \A o \in AllOps : deps'[o] = Cardinality(Inputs(o)' \cap pendingVars')
  BY <1>1, <1>7, <1>8 DEF ThreadedBegin
<1>10. ASSUME NEW o \in Live' PROVE phase'[o] = "pending" <=> Inputs(o)' \cap pendingVars' # {}
  <2>1. o \in AllOps
    BY DEF Live, AllOps
  <2>2. CASE o = Fetch
    <3>1. f # {}
      BY <1>2, <2>2, Facts DEF Live
    <3> QED
      BY <1>1, <1>7, <1>8, <2>1, <2>2, <3>1, Facts DEF ThreadedBegin
  <2>3. CASE o # Fetch
    <3>1. o \in Ops /\ Inputs(o)' = in[o]
      BY <1>7, <2>1, <2>3 DEF AllOps
    <3>2. phase'[o] = IF in[o] = {} THEN "ready" ELSE "pending"
      BY <1>1, <2>1, <3>1 DEF ThreadedBegin
    <3> QED
      BY <1>8, <2>1, <3>1, <3>2
  <2> QED
    BY <2>2, <2>3
<1>11. remaining' = 0 /\ completeQ' = << >> /\ numComplete' = 0 /\ toPop' = 0
  BY <1>1 DEF ThreadedBegin, fastVars, ExecInv, ThreadedInv
<1>12. readyVars' \subseteq pendingVars'
  BY <1>4
<1> QED
  BY <1>2, <1>3, <1>5, <1>9, <1>10, <1>11, <1>12 DEF ThreadedInv, ThreadedPhases

LEMMA ThreadedInvPop ==
    ASSUME ExecInv, PopAll
    PROVE  ThreadedInv'
<1>1. /\ Types /\ ThreadedInv /\ runs > 0
      /\ UNCHANGED <<in, fetched, runs, remaining, completeQ, numComplete, toPop>>
  BY MainMoves DEF MainWithin, PopAll, ExecInv, graph, runVars, fastVars
<1>2. Live' = Live /\ RunVars' = RunVars /\ \A o : Inputs(o)' = Inputs(o)
  BY <1>1, SameGraph
<1>3. /\ pendingVars' = pendingVars \ readyVars /\ readyVars' = {} /\ deps' = DepsLeft /\ pc' = "run"
      /\ readyVars \subseteq pendingVars
  BY <1>1 DEF PopAll, ThreadedInv
<1>4. \A x \in AllOps : phase'[x] = phase[x] \/ (Released(x) /\ phase[x] = "pending"
                                                 /\ phase'[x] \in {"ready", "delayed"})
  BY <1>1, ReleasedWasPending DEF PopAll
<1>5. \A v : Posted(v)' <=> Posted(v)
  BY <1>4 DEF Posted, AllOps
<1>6. pendingVars' \ readyVars' = {v \in RunVars' : ~Posted(v)'}
  BY <1>1, <1>2, <1>3, <1>5 DEF ThreadedInv
<1>7. ASSUME NEW o \in AllOps
      PROVE  /\ deps'[o] = Cardinality(Inputs(o) \cap pendingVars') /\ deps'[o] \in Nat
             /\ deps'[o] = 0 <=> Inputs(o) \cap pendingVars' = {}
  <2> DEFINE A == Inputs(o) \cap pendingVars
             B == readyVars \cap Inputs(o)
             C == Inputs(o) \cap pendingVars'
  <2>1. A \subseteq Vars /\ B \subseteq A /\ C = A \ B /\ C \subseteq Vars
    BY <1>1, <1>3, InGraph
  <2>2. IsFiniteSet(A) /\ IsFiniteSet(B) /\ Cardinality(A) \in Nat /\ Cardinality(B) \in Nat
        /\ Cardinality(C) \in Nat /\ (Cardinality(C) = 0 <=> C = {})
    BY <2>1, InputCount
  <2>3. Cardinality(A \ B) = Cardinality(A) - Cardinality(A \cap B) /\ A \cap B = B
    BY <2>1, <2>2, FS_Difference
  <2>4. deps[o] = Cardinality(A) /\ deps'[o] = deps[o] - Cardinality(B)
    BY <1>1, <1>3 DEF ThreadedInv, DepsLeft
  <2> QED
    BY <2>1, <2>2, <2>3, <2>4
<1>8. ASSUME NEW o \in Live
      PROVE  phase'[o] = "pending" <=> Inputs(o) \cap pendingVars' # {}
  <2>1. o \in AllOps
    BY <1>1, InGraph
  <2>2. Released(o) <=> readyVars \cap Inputs(o) # {} /\ deps'[o] = 0
    BY <1>3 DEF Released
  <2>3. phase[o] = "pending" <=> Inputs(o) \cap pendingVars # {}
    BY <1>1 DEF ThreadedInv
  <2>4. CASE Released(o)
    BY <1>4, <1>7, <2>1, <2>2, <2>4 DEF PopAll
  <2>5. CASE ~Released(o)
    <3>1. phase'[o] = phase[o]
      BY <1>4, <2>1, <2>5
    <3>2. CASE readyVars \cap Inputs(o) = {}
      BY <1>3, <2>3, <3>1, <3>2
    <3>3. CASE deps'[o] # 0
      BY <1>3, <1>7, <2>1, <2>3, <3>1, <3>3
    <3> QED
      BY <2>2, <2>5, <3>2, <3>3
  <2> QED
    BY <2>4, <2>5
<1>9. \A x \in AllOps : phase'[x] \in ThreadedPhases
  BY <1>1, <1>4 DEF ThreadedInv, ThreadedPhases
<1>10. \A o \in Live' : phase'[o] = "pending" <=> Inputs(o)' \cap pendingVars' # {}
  BY <1>2, <1>8
<1>11. \A o \in AllOps : deps'[o] = Cardinality(Inputs(o)' \cap pendingVars')
  BY <1>2, <1>7
<1>12. remaining' = 0 /\ completeQ' = << >> /\ numComplete' = 0 /\ toPop' = 0
  BY <1>1 DEF ThreadedInv
<1> QED
  BY <1>3, <1>6, <1>9, <1>10, <1>11, <1>12 DEF ThreadedInv

LEMMA ThreadedInvMain ==
    ASSUME ExecInv, kind = "threaded", MainWithin
    PROVE  ThreadedInv'
<1>1. ThreadedInv
  BY DEF ExecInv
<1>2. CASE PopAll
  BY <1>2, ThreadedInvPop
<1>3. CASE RunAllOps \/ PopTimeout
  <2>1. \A x \in AllOps : phase'[x] = phase[x]
           \/ (phase[x] \in {"ready", "delayed"} /\ phase'[x] = "queued")
    BY <1>3 DEF RunAllOps, PopTimeout, ToRun, At
  <2>2. /\ pc' # "check"
        /\ UNCHANGED <<in, fetched, deps, pendingVars, readyVars, runs, remaining, completeQ,
                       numComplete, toPop>>
    BY <1>3 DEF RunAllOps, PopTimeout, graph, runVars, fastVars, threadedVars
  <2>3. \A x \in AllOps :
          /\ phase'[x] \in ThreadedPhases
          /\ phase'[x] = "pending" <=> phase[x] = "pending"
          /\ phase'[x] = "over" <=> phase[x] = "over"
    BY <1>1, <2>1 DEF ThreadedInv, ThreadedPhases
  <2> QED
    BY <1>1, <2>2, <2>3, ThreadedFrame
<1> QED
  BY <1>1, <1>2, <1>3 DEF MainWithin, PopComplete, CheckRemaining, DrainPop, ThreadedInv

LEMMA ThreadedInvEnd ==
    ASSUME ExecInv, kind = "threaded", ThreadedReturn \/ ThreadedThrow \/ FastReturn \/ FastThrow
    PROVE  ThreadedInv' /\ RunningCounted'
<1>1. ThreadedInv /\ RunningCounted
  BY DEF ExecInv
<1>2. UNCHANGED <<in, fetched, phase, deps, pendingVars, readyVars, runningOps, runs, remaining,
                  completeQ, numComplete, toPop>> /\ pc' = "idle"
  BY DEF ThreadedReturn, ThreadedThrow, FastReturn, FastThrow, EndRun, graph, fastVars, threadedVars
<1>3. ThreadedInv'
  BY <1>1, <1>2, ThreadedFrame DEF ThreadedInv
<1>4. Counted' = Counted
  BY <1>2 DEF Counted, At
<1> QED
  BY <1>1, <1>2, <1>3, <1>4 DEF RunningCounted

LEMMA ThreadedInvPost ==
    ASSUME ExecInv, kind = "threaded", NEW o \in AllOps, PostOutputs(o)
    PROVE  ThreadedInv'
<1>1. Types /\ Wrapped /\ ThreadedInv /\ phase \in [AllOps -> Phases]
  BY DEF ExecInv, Types
<1>2. /\ phase[o] = "posting" /\ phase' = [phase EXCEPT ![o] = "over"]
      /\ readyVars' = readyVars \cup Outputs(o)
      /\ UNCHANGED <<in, fetched, pc, deps, pendingVars, runs, remaining, completeQ, numComplete,
                     toPop>>
  BY DEF PostOutputs, graph, runVars, fastVars
<1>3. o \in Live /\ runs > 0
  BY <1>1, <1>2 DEF Wrapped, Types
<1>4. Live' = Live /\ RunVars' = RunVars /\ \A x : Inputs(x)' = Inputs(x)
  BY <1>2, SameGraph
<1>5. \A x \in AllOps : phase'[x] = IF x = o THEN "over" ELSE phase[x]
  BY <1>1, <1>2
<1>6. \A v \in Outputs(o) : v \in RunVars /\ ~Posted(v) /\ Posted(v)'
  <2>1. CASE o = Fetch
    <3>1. Outputs(o) = {FetchVar} /\ FetchVar \in RunVars
      BY <1>1, <1>3, <2>1, InGraph DEF RunVars, AllVars
    <3> QED
      BY <1>2, <1>5, <2>1, <3>1 DEF Posted
  <2>2. CASE o # Fetch
    <3>1. o \in Ops /\ Outputs(o) = Out[o] /\ Out[o] \subseteq Vars
      BY <1>1, <2>2, InGraph, Facts
    <3>2. \A v \in Out[o] : v # FetchVar /\ v \in RunVars
      BY <3>1, Facts DEF RunVars, AllVars
    <3>3. \A v \in Out[o] : \A p \in Ops : v \in Out[p] => p = o
      BY <3>1, Facts
    <3> QED
      BY <1>2, <1>5, <3>1, <3>2, <3>3 DEF Posted, AllOps
  <2> QED
    BY <2>1, <2>2
<1>7. \A v \in RunVars : v \notin Outputs(o) => (Posted(v)' <=> Posted(v))
  <2>1. Outputs(o) = IF o = Fetch THEN {FetchVar} ELSE Out[o]
    BY DEF Outputs
  <2>2. Fetch \notin Ops /\ Ops \subseteq AllOps /\ Fetch \in AllOps
    BY Facts
  <2> QED
    BY <1>5, <2>1, <2>2 DEF Posted
<1>8. pendingVars \ readyVars = {v \in RunVars : ~Posted(v)} /\ readyVars \subseteq pendingVars
  BY <1>1, <1>3 DEF ThreadedInv
<1>9. pendingVars' \ readyVars' = {v \in RunVars' : ~Posted(v)'} /\ readyVars' \subseteq pendingVars'
  BY <1>2, <1>4, <1>6, <1>7, <1>8
<1>10. \A x \in AllOps : phase'[x] \in ThreadedPhases /\ (phase'[x] = "pending" <=> phase[x] = "pending")
  BY <1>1, <1>2, <1>5 DEF ThreadedInv, ThreadedPhases
<1>11. \A x \in Live' : phase'[x] = "pending" <=> Inputs(x)' \cap pendingVars' # {}
  BY <1>1, <1>2, <1>3, <1>4, <1>10, InGraph DEF ThreadedInv
<1>12. \A x \in AllOps : deps'[x] = Cardinality(Inputs(x)' \cap pendingVars')
  BY <1>1, <1>2, <1>4 DEF ThreadedInv
<1>13. remaining' = 0 /\ completeQ' = << >> /\ numComplete' = 0 /\ toPop' = 0 /\ pc' # "check"
  BY <1>1, <1>2 DEF ThreadedInv
<1> QED
  BY <1>9, <1>10, <1>11, <1>12, <1>13 DEF ThreadedInv

LEMMA ThreadedInvPool ==
    ASSUME ExecInv, kind = "threaded", NEW o \in AllOps, PoolStep(o) \/ OpRaisesSome(o)
    PROVE  ThreadedInv'
<1>1. Types /\ ThreadedInv /\ phase \in [AllOps -> Phases]
  BY DEF ExecInv, Types
<1>2. CASE PostOutputs(o)
  BY <1>2, ThreadedInvPost
<1>3. CASE StartOp(o) \/ ThreadedOpEnds(o) \/ OpRaisesSome(o)
  <2>1. /\ phase[o] \in {"queued", "running"}
        /\ \E ph \in {"running", "posting", "failed"} : phase' = [phase EXCEPT ![o] = ph]
    BY <1>3 DEF StartOp, ThreadedOpEnds, OpRaisesSome, ThreadedOpRaises, FastOpRaises, OpRaises
  <2>2. UNCHANGED <<in, fetched, pc, deps, pendingVars, readyVars, runs, remaining, completeQ,
                    numComplete, toPop>>
    BY <1>3 DEF StartOp, ThreadedOpEnds, OpRaisesSome, ThreadedOpRaises, FastOpRaises, OpRaises,
                graph, runVars, fastVars, threadedVars
  <2>3. \A x \in AllOps :
          /\ phase'[x] \in ThreadedPhases
          /\ phase'[x] = "pending" <=> phase[x] = "pending"
          /\ phase'[x] = "over" <=> phase[x] = "over"
    BY <1>1, <2>1 DEF ThreadedInv, ThreadedPhases
  <2> QED
    BY <1>1, <2>2, <2>3, ThreadedFrame DEF ThreadedInv
<1>4. phase[o] \notin {"notifying", "ending", "pushing"}
  BY <1>1 DEF ThreadedInv, ThreadedPhases
<1> QED
  BY <1>2, <1>3, <1>4 DEF PoolStep, FastOpEnds, Notify, GoOn, EndTask, PushComplete

\* running_ops_.
LEMMA CountedBegin ==
    ASSUME ExecInv, kind = "threaded", RunBegins
    PROVE  RunningCounted'
<1>1. PICK f \in {{}} \cup {{v} : v \in Fetchable} : ThreadedBegin(f)
  BY DEF RunBegins, FastBegin
<1>2. runs' = runs + 1 /\ runningOps' = runningOps
  BY <1>1 DEF ThreadedBegin, BeginRun
<1>3. Types /\ RunningCounted
  BY DEF ExecInv
<1>4. Counted' = {}
  BY <1>1 DEF ThreadedBegin, Counted, At
<1>5. Counted \subseteq AllOps
  BY DEF Counted, At
<1> DEFINE N == Cardinality(AllOps)
           C == Cardinality(Counted)
<1>6. N \in Nat /\ C \in 0..N
  BY <1>5, OpCount, Facts
<1>7. Cardinality(Counted') = 0
  BY <1>4, FS_EmptySet
<1>8. runs \in Nat /\ runningOps \in Int
  BY <1>3 DEF Types
<1>9. /\ runningOps >= C
      /\ runs = 0 => runningOps = 0
      /\ runs > 0 => runningOps <= (runs - 1) * N + C
  BY <1>3 DEF RunningCounted
<1> HIDE DEF N, C
<1>10. runs > 0 => runs * N = (runs - 1) * N + N
  BY <1>6, <1>8
<1>11. runs * N \in Nat /\ (runs + 1) - 1 = runs
  BY <1>6, <1>8
<1>12. runningOps' <= (runs' - 1) * N
  BY <1>2, <1>6, <1>8, <1>9, <1>10, <1>11
<1>13. /\ runningOps' >= 0 /\ runs' > 0
       /\ runningOps' <= (runs' - 1) * N + 0
  <2>1. runs' - 1 = runs
    BY <1>2, <1>8
  <2> QED
    BY <1>2, <1>6, <1>8, <1>9, <1>11, <1>12, <2>1
<1> QED
  BY <1>7, <1>8, <1>2, <1>13 DEF RunningCounted, N

LEMMA CountedStep ==
    ASSUME ExecInv, kind = "threaded",
           MainWithin \/ \E o \in AllOps : PoolStep(o) \/ OpRaisesSome(o)
    PROVE  RunningCounted'
<1>1. Types /\ Wrapped /\ ThreadedInv /\ RunningCounted /\ phase \in [AllOps -> Phases]
      /\ runs \in Nat /\ runningOps \in Int
  BY DEF ExecInv, Types
<1>2. Counted \subseteq AllOps /\ IsFiniteSet(Counted) /\ Cardinality(Counted) \in Nat
  BY OpCount DEF Counted, At
<1>3. Cardinality(AllOps) \in Nat
  BY Facts
<1>4. runs' = runs /\ runs > 0
  BY MainMoves, PoolMoves
<1>5. SUFFICES runningOps' - Cardinality(Counted') = runningOps - Cardinality(Counted)
               /\ Cardinality(Counted') \in Nat /\ runningOps' \in Int
  <2> DEFINE N == (runs - 1) * Cardinality(AllOps)
  <2>1. N \in Int
    BY <1>1, <1>3
  <2>2. runningOps >= Cardinality(Counted) /\ runningOps <= N + Cardinality(Counted)
    BY <1>1, <1>4 DEF RunningCounted
  <2> HIDE DEF N
  <2>3. runningOps' >= Cardinality(Counted') /\ runningOps' <= N + Cardinality(Counted')
    BY <1>1, <1>2, <1>5, <2>1, <2>2
  <2> QED
    BY <1>4, <2>3 DEF RunningCounted, N
<1>6. CASE RunAllOps
  <2>1. ToRun \subseteq AllOps /\ ToRun \cap Counted = {}
    BY DEF ToRun, Counted, At
  <2>2. Counted' = Counted \cup ToRun
    BY <1>6 DEF RunAllOps, Counted, At, ToRun
  <2>3. IsFiniteSet(ToRun) /\ Cardinality(ToRun) \in Nat
    BY <2>1, OpCount
  <2>4. Cardinality(Counted') = Cardinality(Counted) + Cardinality(ToRun)
    <3>1. Cardinality(Counted \cap ToRun) = 0
      BY <2>1, FS_EmptySet
    <3>2. Cardinality(Counted \cup ToRun)
            = Cardinality(Counted) + Cardinality(ToRun) - Cardinality(Counted \cap ToRun)
      BY <1>2, <2>3, FS_Union
    <3> QED
      BY <1>2, <2>2, <2>3, <3>1, <3>2
  <2> QED
    BY <1>1, <1>2, <1>6, <2>3, <2>4 DEF RunAllOps
<1>7. CASE \E o \in AllOps : ThreadedOpEnds(o)
  <2>1. PICK o \in AllOps : ThreadedOpEnds(o)
    BY <1>7
  <2>2. Counted' = Counted \ {o} /\ o \in Counted
    BY <1>1, <2>1 DEF ThreadedOpEnds, Counted, At
  <2>3. Cardinality(Counted') = Cardinality(Counted) - 1
    BY <1>2, <2>2, FS_RemoveElement
  <2>4. Cardinality(Counted') \in Nat
    BY <1>2, <2>2, OpCount
  <2> QED
    BY <1>1, <1>2, <2>1, <2>3, <2>4 DEF ThreadedOpEnds
<1>8. CASE runningOps' = runningOps /\ Counted' = Counted
  BY <1>1, <1>2, <1>8
<1>9. CASE PopAll \/ PopTimeout
  <2>1. runningOps' = runningOps
    BY <1>9 DEF PopAll, PopTimeout, threadedVars
  <2>2. \A x \in AllOps : phase'[x] = phase[x]
           \/ (phase[x] = "pending" /\ phase'[x] \in {"ready", "delayed"})
    BY <1>1, <1>4, <1>9, ReleasedWasPending DEF PopAll, PopTimeout
  <2>3. Counted' = Counted
    BY <2>2 DEF Counted, At
  <2> QED
    BY <1>8, <2>1, <2>3
<1>10. CASE \E o \in AllOps : StartOp(o) \/ PostOutputs(o) \/ OpRaisesSome(o)
  <2>1. PICK o \in AllOps : StartOp(o) \/ PostOutputs(o) \/ OpRaisesSome(o)
    BY <1>10
  <2>2. runningOps' = runningOps
    BY <2>1 DEF StartOp, PostOutputs, OpRaisesSome, ThreadedOpRaises, FastOpRaises, OpRaises,
                threadedVars
  <2>3. Counted' = Counted
    BY <1>1, <2>1 DEF StartOp, PostOutputs, OpRaisesSome, ThreadedOpRaises, FastOpRaises,
                      OpRaises, Counted, At
  <2> QED
    BY <1>8, <2>2, <2>3
<1>11. \A o \in AllOps : phase[o] \notin {"notifying", "ending", "pushing"} /\ pc # "check"
  BY <1>1 DEF ThreadedInv, ThreadedPhases
<1> QED
  BY <1>6, <1>7, <1>9, <1>10, <1>11, Facts DEF MainWithin, PoolStep, FastOpEnds, Notify, GoOn, EndTask,
        PushComplete, PopComplete, CheckRemaining, DrainPop

-----------------------------------------------------------------------------
(* The fast executor. *)

LEMMA FastInit ==
    ASSUME ExecInit
    PROVE  FastInv /\ QueueInv
<1>1. \A o \in AllOps : phase[o] = "pending" /\ deps[o] = 0 /\ todo[o] = {} /\ count[o] = 0
  BY DEF ExecInit
<1>2. Tasks = {}
  BY <1>1 DEF Tasks, At
<1>3. FastShape
  BY <1>1, <1>2, FS_EmptySet DEF ExecInit, FastShape, FastPhases
<1>4. QueueInv
  BY Facts DEF ExecInit, QueueInv
<1> QED
  BY <1>1, <1>3, <1>4 DEF ExecInit, FastInv, TodoInv, DepsInv, CountInv, NextInv

LEMMA FastInvBegin ==
    ASSUME ExecInv, kind = "fast", RunBegins
    PROVE  FastInv' /\ QueueInv'
<1>1. PICK f \in {{}} \cup {{v} : v \in Fetchable} : FastBegin(f)
  BY DEF RunBegins, ThreadedBegin
<1>2. fetched' = f /\ in' = in /\ runs' > 0 /\ pc' = "pop" /\ Types /\ FastShape
  <2>1. runs' = runs + 1 /\ runs \in Nat
    BY <1>1 DEF FastBegin, BeginRun, ExecInv, Types
  <2> QED
    BY <1>1, <2>1 DEF FastBegin, BeginRun, graph, ExecInv, FastInv
<1>3. \A o \in AllOps : phase'[o] = IF o \in Bootstrap THEN "queued" ELSE "pending"
  BY <1>1 DEF FastBegin
<1>4. \A o \in AllOps : count'[o] = 0 /\ todo'[o] = {} /\ next'[o] = Nobody
  BY <1>1 DEF FastBegin
<1>5. \A o \in AllOps : Inputs(o)' = IF o = Fetch THEN f ELSE in[o]
  BY <1>2 DEF Inputs
<1>6. \A o \in AllOps : deps'[o] = Cardinality(Inputs(o)' \cap Generated)
  BY <1>1, <1>5 DEF FastBegin, NotReadyInputs
<1>7. \A o \in AllOps : ~OpEnded(o)'
  BY <1>3 DEF OpEnded
<1>8. \A o : Missing(o)' = Inputs(o)' \cap Generated
  BY <1>7, Facts DEF Missing, Undelivered
<1>9. \A o \in Bootstrap : o \in AllOps /\ deps'[o] = 0
  <2>1. \A o \in Bootstrap : o \in Ops /\ o # Fetch /\ Cardinality(in[o] \cap Generated) = 0
    BY Facts DEF Bootstrap, NotReadyInputs
  <2> QED
    BY <1>5, <1>6, <2>1 DEF AllOps
<1>10. DepsInv'
  BY <1>2, <1>3, <1>6, <1>8, <1>9 DEF DepsInv
<1>11. Tasks' = Bootstrap
  BY <1>3, <1>9 DEF Tasks, At
<1>12. FastShape'
  BY <1>1, <1>2, <1>3, <1>11 DEF FastBegin, FastShape, FastPhases, threadedVars
<1>13. QueueInv'
  BY <1>1, <1>2, Facts DEF FastBegin, QueueInv
<1> QED
  BY <1>3, <1>4, <1>10, <1>12, <1>13 DEF FastInv, TodoInv, CountInv, NextInv

LEMMA SameMissing ==
    ASSUME in' = in, fetched' = fetched, todo' = todo,
           \A p \in AllOps : OpEnded(p)' <=> OpEnded(p)
    PROVE  /\ \A op : Missing(op)' = Missing(op)
           /\ \A o : Handed(o)' = Handed(o)
<1>1. Live' = Live /\ \A o : Inputs(o)' = Inputs(o)
  BY SameGraph
<1>2. \A v, op : Undelivered(v, op)' <=> Undelivered(v, op)
  BY DEF Undelivered, AllOps
<1> QED
  BY <1>1, <1>2 DEF Missing, Handed, Outputs

\* An operator moves on and nothing is handed over.
LEMMA FastMove ==
    ASSUME Types, FastInv, NEW o \in AllOps, phase[o] # "pending", todo[o] = {},
           NEW ph \in FastPhases \ {"pending", "notifying"}, phase' = [phase EXCEPT ![o] = ph],
           UNCHANGED <<in, fetched, runs, deps, todo, next>>,
           \A p \in AllOps : OpEnded(p)' <=> OpEnded(p)
    PROVE  TodoInv' /\ DepsInv' /\ NextInv' /\ \A x \in AllOps : phase'[x] \in FastPhases
<1>1. \A x \in AllOps : phase'[x] = IF x = o THEN ph ELSE phase[x]
  BY DEF Types
<1>2. Live' = Live /\ (\A x : Missing(x)' = Missing(x)) /\ (\A x : Handed(x)' = Handed(x))
  BY SameGraph, SameMissing
<1>3. TodoInv'
  BY <1>1, <1>2 DEF FastInv, TodoInv
<1>4. DepsInv'
  BY <1>1, <1>2 DEF FastInv, DepsInv
<1>5. NextInv'
  <2>1. \A q \in AllOps : phase'[q] = "notifying" <=> phase[q] = "notifying" /\ q # o
    BY <1>1
  <2>2. \A q \in AllOps : phase[q] = "notifying" /\ next[q] # Nobody =>
            next[q] \in AllOps /\ phase'[next[q]] = "pending"
    BY <1>1, InGraph DEF FastInv, NextInv
  <2> QED
    BY <1>2, <2>1, <2>2 DEF FastInv, NextInv
<1> QED
  BY <1>1, <1>3, <1>4, <1>5 DEF FastInv, FastShape

LEMMA FastStart ==
    ASSUME ExecInv, kind = "fast", NEW o \in AllOps, StartOp(o)
    PROVE  FastInv'
<1>1. Types /\ FastInv /\ phase \in [AllOps -> Phases]
  BY DEF ExecInv, Types
<1>2. /\ phase[o] = "queued" /\ phase' = [phase EXCEPT ![o] = "running"]
      /\ UNCHANGED <<in, fetched, pc, runs, deps, todo, next, count, remaining, runningOps>>
  BY DEF StartOp, graph, runVars, fastVars, threadedVars
<1>3. todo[o] = {}
  BY <1>1, <1>2 DEF FastInv, TodoInv
<1>4. \A x \in AllOps : OpEnded(x)' <=> OpEnded(x)
  BY OpStates, <1>2 DEF PoolStep, ThreadedOpEnds, FastOpEnds
<1>5. TodoInv' /\ DepsInv' /\ NextInv' /\ \A x \in AllOps : phase'[x] \in FastPhases
  BY <1>1, <1>2, <1>3, <1>4, FastMove DEF FastPhases
<1>6. CountInv'
  BY <1>1, <1>2 DEF FastInv, CountInv
<1>7. Tasks' = Tasks
  BY <1>1, <1>2 DEF Tasks, At
<1>8. FastShape'
  BY <1>1, <1>2, <1>5, <1>7 DEF FastInv, FastShape
<1> QED
  BY <1>5, <1>6, <1>8 DEF FastInv

LEMMA FastRaise ==
    ASSUME ExecInv, kind = "fast", NEW o \in AllOps, OpRaisesSome(o)
    PROVE  FastInv'
<1>1. Types /\ FastInv /\ phase \in [AllOps -> Phases] /\ count \in [AllOps -> Int]
  BY DEF ExecInv, Types
<1>2. /\ phase[o] = "running" /\ phase' = [phase EXCEPT ![o] = "ending"]
      /\ count' = [count EXCEPT ![o] = -1]
      /\ UNCHANGED <<in, fetched, pc, runs, deps, todo, next, remaining, runningOps>>
  BY DEF OpRaisesSome, ThreadedOpRaises, FastOpRaises, OpRaises, graph, threadedVars
<1>3. todo[o] = {}
  BY <1>1, <1>2 DEF FastInv, TodoInv
<1>4. \A x \in AllOps : OpEnded(x)' <=> OpEnded(x)
  BY RaiseStates DEF OpEnded
<1>5. TodoInv' /\ DepsInv' /\ NextInv' /\ \A x \in AllOps : phase'[x] \in FastPhases
  BY <1>1, <1>2, <1>3, <1>4, FastMove DEF FastPhases
<1>6. CountInv'
  BY <1>1, <1>2 DEF FastInv, CountInv
<1>7. Tasks' = Tasks
  BY <1>1, <1>2 DEF Tasks, At
<1>8. FastShape'
  BY <1>1, <1>2, <1>5, <1>7 DEF FastInv, FastShape
<1> QED
  BY <1>5, <1>6, <1>8 DEF FastInv

LEMMA FastEndTask ==
    ASSUME ExecInv, kind = "fast", NEW o \in AllOps, EndTask(o)
    PROVE  FastInv'
<1>1. Types /\ FastInv /\ phase \in [AllOps -> Phases]
  BY DEF ExecInv, Types
<1>2. /\ phase[o] \in {"ending", "notifying"} /\ phase' = [phase EXCEPT ![o] = "pushing"]
      /\ remaining' = remaining - 1
      /\ UNCHANGED <<in, fetched, pc, runs, deps, todo, next, count, runningOps>>
  BY DEF EndTask, graph, runVars, threadedVars
<1>3. todo[o] = {}
  BY <1>1 DEF FastInv, TodoInv, EndTask
<1>4. \A x \in AllOps : OpEnded(x)' <=> OpEnded(x)
  BY OpStates, <1>2 DEF PoolStep, ThreadedOpEnds, FastOpEnds
<1>5. TodoInv' /\ DepsInv' /\ NextInv' /\ \A x \in AllOps : phase'[x] \in FastPhases
  BY <1>1, <1>2, <1>3, <1>4, FastMove DEF FastPhases
<1>6. CountInv'
  BY <1>1, <1>2 DEF FastInv, CountInv
<1>7. Tasks' = Tasks \ {o} /\ o \in Tasks
  BY <1>1, <1>2 DEF Tasks, At
<1>8. FastShape'
  <2>1. Tasks \subseteq AllOps
    BY DEF Tasks, At
  <2>2. Cardinality(Tasks \ {o}) = Cardinality(Tasks) - 1
    BY <1>7, <2>1, OpCount, FS_RemoveElement
  <2> QED
    BY <1>1, <1>2, <1>5, <1>7, <2>2 DEF FastInv, FastShape
<1> QED
  BY <1>5, <1>6, <1>8 DEF FastInv

LEMMA FastPush ==
    ASSUME ExecInv, kind = "fast", NEW o \in AllOps, PushComplete(o)
    PROVE  FastInv'
<1>1. Types /\ FastInv /\ phase \in [AllOps -> Phases]
  BY DEF ExecInv, Types
<1>2. /\ phase[o] = "pushing"
      /\ UNCHANGED <<in, fetched, pc, runs, deps, todo, next, count, remaining, runningOps>>
  BY DEF PushComplete, graph, runVars, threadedVars
<1>3. PICK ph \in {"failed", "over"} : phase' = [phase EXCEPT ![o] = ph]
  BY DEF PushComplete
<1>4. todo[o] = {}
  BY <1>1, <1>2 DEF FastInv, TodoInv
<1>5. \A x \in AllOps : OpEnded(x)' <=> OpEnded(x)
  BY OpStates, <1>2 DEF PoolStep, ThreadedOpEnds, FastOpEnds
<1>6. TodoInv' /\ DepsInv' /\ NextInv' /\ \A x \in AllOps : phase'[x] \in FastPhases
  BY <1>1, <1>2, <1>3, <1>4, <1>5, FastMove DEF FastPhases
<1>7. CountInv'
  BY <1>1, <1>2, <1>3 DEF FastInv, CountInv
<1>8. Tasks' = Tasks
  BY <1>1, <1>2, <1>3 DEF Tasks, At
<1>9. FastShape'
  BY <1>1, <1>2, <1>6, <1>8 DEF FastInv, FastShape
<1> QED
  BY <1>6, <1>7, <1>9 DEF FastInv

\* An operator has run: all its outputs are to be handed over.
LEMMA FastEnds ==
    ASSUME ExecInv, kind = "fast", NEW o \in AllOps, FastOpEnds(o)
    PROVE  FastInv'
<1>1. /\ Types /\ FastInv /\ phase \in [AllOps -> Phases] /\ count \in [AllOps -> Int]
      /\ todo \in [AllOps -> SUBSET (AllVars \X AllOps)] /\ DOMAIN next = AllOps
  BY DEF ExecInv, Types
<1>2. /\ phase[o] = "running" /\ phase' = [phase EXCEPT ![o] = "notifying"]
      /\ count' = [count EXCEPT ![o] = @ + 1]
      /\ todo' = [todo EXCEPT ![o] = Handed(o)]
      /\ next' = [next EXCEPT ![o] = Nobody]
      /\ UNCHANGED <<in, fetched, pc, runs, deps, remaining, runningOps>>
  BY DEF FastOpEnds, Handed, graph, runVars, threadedVars
<1>3. /\ \A x \in AllOps : phase'[x] = IF x = o THEN "notifying" ELSE phase[x]
      /\ \A x \in AllOps : todo'[x] = IF x = o THEN Handed(o) ELSE todo[x]
      /\ \A x \in AllOps : next'[x] = IF x = o THEN Nobody ELSE next[x]
      /\ \A x \in AllOps : count'[x] = IF x = o THEN count[o] + 1 ELSE count[x]
  BY <1>1, <1>2
<1>4. /\ Live' = Live /\ (\A x : Inputs(x)' = Inputs(x)) /\ (\A x : Handed(x)' = Handed(x))
  <2>1. Live' = Live /\ (\A x : Inputs(x)' = Inputs(x))
    BY <1>2, SameGraph
  <2> QED
    BY <2>1 DEF Handed, Outputs
<1>5. TodoInv'
  BY <1>1, <1>3, <1>4 DEF FastInv, TodoInv
<1>6. \A x \in AllOps : Missing(x)' = Missing(x)
  <2>1. \A p \in Ops : p # o => (OpEnded(p)' <=> OpEnded(p)) /\ todo'[p] = todo[p]
    BY <1>3, OpStates DEF PoolStep, AllOps
  <2>2. ~OpEnded(o)
    BY <1>2 DEF OpEnded
  <2>3. ASSUME NEW x \in AllOps, NEW v \in Inputs(x), o \in Ops, v \in Out[o]
        PROVE  <<v, x>> \in todo'[o]
    <3>1. x \in Live
      BY <1>1, <2>3, InGraph
    <3>2. <<v, x>> \in Handed(o)
      BY <1>1, <2>3, <3>1, InGraph DEF Handed
    <3> QED
      BY <1>3, <3>2
  <2>4. ASSUME NEW x \in AllOps, NEW v \in Inputs(x)
        PROVE  Undelivered(v, x)' <=> Undelivered(v, x)
    BY <2>1, <2>2, <2>3 DEF Undelivered
  <2> QED
    BY <1>4, <2>4 DEF Missing
<1>7. DepsInv'
  BY <1>1, <1>2, <1>3, <1>6 DEF FastInv, DepsInv
<1>8. CountInv'
  BY <1>1, <1>2, <1>3 DEF FastInv, CountInv
<1>9. NextInv'
  <2>1. \A q \in AllOps : phase[q] = "notifying" /\ next[q] # Nobody =>
            next[q] \in AllOps /\ phase'[next[q]] = "pending"
    BY <1>1, <1>2, <1>3, InGraph DEF FastInv, NextInv
  <2> QED
    BY <1>1, <1>2, <1>3, <1>4, <2>1 DEF FastInv, NextInv
<1>10. Tasks' = Tasks
  BY <1>2, <1>3 DEF Tasks, At
<1>11. FastShape'
  BY <1>1, <1>2, <1>3, <1>10 DEF FastInv, FastShape, FastPhases
<1> QED
  BY <1>5, <1>7, <1>8, <1>9, <1>11 DEF FastInv

\* Handing v to op takes v, and nothing else, off what op is missing.
LEMMA Delivered ==
    ASSUME ExecInv, NEW o \in Ops, NEW v \in Vars, NEW op \in Live, Notify(o), Delivers(o, v, op),
           v \in Out[o], v \in Inputs(op)
    PROVE  /\ v \in Missing(op) /\ Missing(op)' = Missing(op) \ {v}
           /\ \A x \in AllOps : x # op => Missing(x)' = Missing(x)
<1>1. /\ Types /\ phase[o] = "notifying" /\ <<v, op>> \in todo[o] /\ o \in AllOps
      /\ todo \in [AllOps -> SUBSET (AllVars \X AllOps)]
  BY DEF Delivers, ExecInv, Types, AllOps
<1>2. \A x \in AllOps : todo'[x] = IF x = o THEN todo[o] \ {<<v, op>>} ELSE todo[x]
  BY <1>1 DEF Delivers
<1>3. \A x \in AllOps : OpEnded(x)' <=> OpEnded(x)
  BY <1>1, OpStates DEF PoolStep, ThreadedOpEnds, FastOpEnds
<1>4. OpEnded(o) /\ OpEnded(o)'
  BY <1>1, <1>3 DEF OpEnded, OpFailed
<1>5. \A p \in Ops : v \in Out[p] => p = o
  BY Facts
<1>6. v \in Generated
  BY DEF Generated
<1>7. Undelivered(v, op) /\ ~Undelivered(v, op)'
  BY <1>1, <1>2, <1>4, <1>5 DEF Undelivered
<1>8. \A w, x : <<w, x>> # <<v, op>> => (Undelivered(w, x)' <=> Undelivered(w, x))
  BY <1>2, <1>3 DEF Undelivered, AllOps
<1>9. \A x : Inputs(x)' = Inputs(x)
  BY SameGraph DEF Delivers
<1> QED
  BY <1>6, <1>7, <1>8, <1>9 DEF Missing

LEMMA FastNotify ==
    ASSUME ExecInv, kind = "fast", NEW o \in AllOps, Notify(o)
    PROVE  FastInv'
<1>1. Types /\ FastInv /\ runs > 0 /\ o \in Ops
  BY NotifyIs DEF ExecInv
<1>2. PICK v \in Vars, op \in Live : v \in Out[o] /\ v \in Inputs(op) /\ Delivers(o, v, op)
  BY NotifyIs
<1>3. /\ v \in Missing(op) /\ Missing(op)' = Missing(op) \ {v}
      /\ \A x \in AllOps : x # op => Missing(x)' = Missing(x)
  BY <1>1, <1>2, Delivered
<1>4. op \in AllOps /\ phase[o] = "notifying" /\ deps[o] = 0
  BY <1>1, <1>2, InGraph DEF Delivers, FastInv, DepsInv
<1>5. IsFiniteSet(Missing(op)) /\ Cardinality(Missing(op)) \in Nat \ {0}
  <2>1. Missing(op) \subseteq Vars
    BY Facts DEF Missing
  <2> QED
    BY <1>3, <2>1, InputCount
<1>6. deps[op] = Cardinality(Missing(op)) /\ deps[op] \in Nat \ {0} /\ phase[op] = "pending"
  BY <1>1, <1>4, <1>5 DEF FastInv, DepsInv
<1>7. /\ UNCHANGED <<in, fetched, pc, runs, count, runningOps>>
      /\ \A x \in AllOps : deps'[x] = IF x = op THEN deps[op] - 1 ELSE deps[x]
      /\ \A x \in AllOps : todo'[x] = IF x = o THEN todo[o] \ {<<v, op>>} ELSE todo[x]
  BY <1>1, <1>2, <1>4 DEF Delivers, Types
<1>8. phase \in [AllOps -> Phases] /\ next \in [AllOps -> AllOps \cup {Nobody}]
  BY <1>1 DEF Types
<1>9. /\ Live' = Live /\ (\A x : Handed(x)' = Handed(x))
  <2>1. Live' = Live /\ (\A x : Inputs(x)' = Inputs(x))
    BY <1>7, SameGraph
  <2> QED
    BY <2>1 DEF Handed, Outputs
<1>10. \A x \in AllOps : phase'[x] = phase[x] \/ (x = op /\ phase'[x] = "queued" /\ deps[op] = 1)
  BY <1>2, <1>4, <1>8 DEF Delivers
<1>11. TodoInv'
  BY <1>1, <1>4, <1>6, <1>7, <1>9, <1>10 DEF FastInv, TodoInv
<1>12. DepsInv'
  <2>1. Cardinality(Missing(op) \ {v}) = Cardinality(Missing(op)) - 1
    BY <1>3, <1>5, FS_RemoveElement
  <2>2. deps'[op] = deps[op] - 1
    BY <1>4, <1>7
  <2>3. deps'[op] = Cardinality(Missing(op)')
    BY <1>3, <1>6, <2>1, <2>2
  <2>4. \A x \in AllOps : x # op => deps'[x] = deps[x] /\ phase'[x] = phase[x]
    BY <1>7, <1>10
  <2>5. \A x \in AllOps : x # op => deps'[x] = Cardinality(Missing(x)')
    BY <1>1, <1>3, <2>4 DEF FastInv, DepsInv
  <2>6. phase'[op] # "pending" => deps'[op] = 0
    BY <1>4, <1>6, <1>10, <2>2
  <2>7. \A x \in AllOps : x # op => (phase'[x] # "pending" => deps'[x] = 0)
    BY <1>1, <2>4 DEF FastInv, DepsInv
  <2>8. runs' # 0
    BY <1>1, <1>7
  <2> QED
    BY <2>3, <2>5, <2>6, <2>7, <2>8 DEF DepsInv
<1>13. CountInv'
  BY <1>1, <1>6, <1>7, <1>10 DEF FastInv, CountInv
<1>14. \A q \in AllOps : phase'[q] = "notifying" <=> phase[q] = "notifying"
  BY <1>6, <1>10
<1>15. \A q \in AllOps : phase[q] = "notifying" /\ next[q] # Nobody =>
          /\ next[q] \in AllOps /\ next[q] # op
          /\ phase'[next[q]] = "pending" /\ deps'[next[q]] = 0
  BY <1>1, <1>4, <1>6, <1>7, <1>10, InGraph DEF FastInv, NextInv
<1>16. NextInv'
  <2>1. CASE next' = next
    BY <1>1, <1>9, <1>14, <1>15, <2>1 DEF FastInv, NextInv
  <2>2. CASE deps[op] = 1 /\ next' = [next EXCEPT ![o] = op] /\ phase' = phase
    <3>1. \A x \in AllOps : next'[x] = IF x = o THEN op ELSE next[x]
      BY <1>8, <2>2
    <3>2. op \in Live' /\ phase'[op] = "pending" /\ deps'[op] = 0
      BY <1>4, <1>6, <1>7, <1>9, <2>2
    <3>3. \A q \in AllOps : phase'[q] = "notifying" /\ next'[q] = op => q = o
      BY <1>4, <1>14, <1>15, <3>1, Facts
    <3> QED
      BY <1>1, <1>9, <1>14, <1>15, <3>1, <3>2, <3>3 DEF FastInv, NextInv
  <2> QED
    BY <1>2, <2>1, <2>2 DEF Delivers
<1>17. remaining' = Cardinality(Tasks')
  <2>1. remaining = Cardinality(Tasks) /\ IsFiniteSet(Tasks) /\ op \notin Tasks
    BY <1>1, <1>6, OpCount DEF FastInv, FastShape, Tasks, At
  <2>2. CASE phase' = phase /\ remaining' = remaining
    BY <2>1, <2>2 DEF Tasks, At
  <2>3. CASE phase' = [phase EXCEPT ![op] = "queued"] /\ remaining' = remaining + 1
    <3>1. Tasks' = Tasks \cup {op}
      BY <1>4, <1>8, <2>3 DEF Tasks, At
    <3> QED
      BY <2>1, <2>3, <3>1, FS_AddElement
  <2> QED
    BY <1>2, <2>2, <2>3 DEF Delivers
<1>18. FastShape'
  BY <1>1, <1>7, <1>10, <1>17 DEF FastInv, FastShape, FastPhases
<1> QED
  BY <1>11, <1>12, <1>13, <1>16, <1>18 DEF FastInv

LEMMA FastGoOn ==
    ASSUME ExecInv, kind = "fast", NEW o \in AllOps, GoOn(o)
    PROVE  FastInv'
<1>1. Types /\ FastInv /\ phase \in [AllOps -> Phases] /\ count \in [AllOps -> Int]
  BY DEF ExecInv, Types
<1> DEFINE n == next[o]
<1>2. /\ phase[o] = "notifying" /\ todo[o] = {} /\ n # Nobody
      /\ phase' = [phase EXCEPT ![o] = "over", ![n] = "running"]
      /\ count' = [count EXCEPT ![n] = count[o]]
      /\ UNCHANGED <<in, fetched, pc, runs, deps, todo, next, remaining, runningOps>>
  BY DEF GoOn, graph, runVars, threadedVars
<1>3. /\ n \in AllOps /\ n # o /\ phase[n] = "pending" /\ deps[n] = 0
      /\ \A q \in AllOps : phase[q] = "notifying" /\ next[q] = n => q = o
  BY <1>1, <1>2, InGraph DEF FastInv, NextInv
<1>4. /\ \A x \in AllOps : phase'[x] = IF x = o THEN "over" ELSE IF x = n THEN "running" ELSE phase[x]
      /\ \A x \in AllOps : count'[x] = IF x = n THEN count[o] ELSE count[x]
  BY <1>1, <1>2, <1>3
<1>5. \A x \in AllOps : OpEnded(x)' <=> OpEnded(x)
  BY OpStates, <1>2 DEF PoolStep, ThreadedOpEnds, FastOpEnds
<1>6. Live' = Live /\ (\A x : Missing(x)' = Missing(x)) /\ (\A x : Handed(x)' = Handed(x))
  BY <1>2, <1>5, SameGraph, SameMissing
<1>7. TodoInv'
  BY <1>1, <1>2, <1>3, <1>4, <1>6 DEF FastInv, TodoInv
<1>8. DepsInv'
  BY <1>1, <1>2, <1>3, <1>4, <1>6 DEF FastInv, DepsInv
<1>9. CountInv'
  BY <1>1, <1>2, <1>3, <1>4 DEF FastInv, CountInv
<1>10. NextInv'
  <2>1. \A q \in AllOps : phase'[q] = "notifying" <=> phase[q] = "notifying" /\ q # o
    BY <1>3, <1>4
  <2>2. \A q \in AllOps : phase[q] = "notifying" /\ q # o /\ next[q] # Nobody =>
            next[q] \in AllOps /\ phase'[next[q]] = "pending"
    BY <1>1, <1>2, <1>3, <1>4, InGraph DEF FastInv, NextInv
  <2> QED
    BY <1>1, <1>2, <1>6, <2>1, <2>2 DEF FastInv, NextInv
<1>11. Cardinality(Tasks') = Cardinality(Tasks)
  <2> HIDE DEF n
  <2>0. o \in Tasks /\ n \notin Tasks \ {o}
    BY <1>2, <1>3 DEF Tasks, At
  <2>1. Tasks' = (Tasks \ {o}) \cup {n} /\ o \in Tasks /\ n \notin Tasks \ {o}
    BY <1>3, <1>4, <2>0 DEF Tasks, At
  <2>2. IsFiniteSet(Tasks) /\ Cardinality(Tasks) \in Nat
    BY OpCount DEF Tasks, At
  <2>3. IsFiniteSet(Tasks \ {o}) /\ Cardinality(Tasks \ {o}) = Cardinality(Tasks) - 1
    BY <2>1, <2>2, FS_RemoveElement
  <2>4. Cardinality((Tasks \ {o}) \cup {n}) = Cardinality(Tasks \ {o}) + 1
    BY <2>1, <2>3, FS_AddElement
  <2> QED
    BY <2>1, <2>2, <2>3, <2>4
<1>12. FastShape'
  BY <1>1, <1>2, <1>4, <1>11 DEF FastInv, FastShape, FastPhases
<1> QED
  BY <1>7, <1>8, <1>9, <1>10, <1>12 DEF FastInv

LEMMA FastInvPool ==
    ASSUME ExecInv, kind = "fast", NEW o \in AllOps, PoolStep(o) \/ OpRaisesSome(o)
    PROVE  FastInv'
<1>1. phase[o] # "posting"
  BY DEF ExecInv, FastInv, FastShape, FastPhases
<1> QED
  BY <1>1, FastStart, FastRaise, FastEndTask, FastPush, FastEnds, FastNotify, FastGoOn
     DEF PoolStep, ThreadedOpEnds, PostOutputs

\* The main thread only looks.
LEMMA FastInvMain ==
    ASSUME ExecInv, kind = "fast",
           MainWithin \/ ThreadedReturn \/ ThreadedThrow \/ FastReturn \/ FastThrow
    PROVE  FastInv'
<1>1. Types /\ FastInv
  BY DEF ExecInv
<1>2. /\ UNCHANGED <<in, fetched, phase, deps, todo, next, count, runs, remaining, runningOps>>
      /\ pc' # "run"
  BY <1>1 DEF MainWithin, RunAllOps, PopAll, PopTimeout, PopComplete, CheckRemaining, DrainPop,
         ThreadedReturn, ThreadedThrow, FastReturn, FastThrow, EndRun, graph, runVars, fastVars,
         threadedVars, FastInv, FastShape
<1>3. \A x \in AllOps : OpEnded(x)' <=> OpEnded(x)
  BY <1>2 DEF OpEnded, OpFailed
<1>4. Live' = Live /\ (\A x : Missing(x)' = Missing(x)) /\ (\A x : Handed(x)' = Handed(x))
  BY <1>2, <1>3, SameGraph, SameMissing
<1>5. Tasks' = Tasks
  BY <1>2 DEF Tasks, At
<1> QED
  BY <1>1, <1>2, <1>4, <1>5 DEF FastInv, TodoInv, DepsInv, CountInv, NextInv, FastShape

-----------------------------------------------------------------------------
(* num_complete of the fast executor. *)

Tokens == [AllOps -> AllOps \cup {Nobody}]
Slots == [AllOps -> Nat]

\* Labels: how many operators have one.
LEMMA LabelCount ==
    ASSUME NEW task \in Tokens, NEW slot \in Slots, NEW h \in Nat
    PROVE  /\ \A o : /\ CreditedTo(task, o) \subseteq AllOps /\ IsFiniteSet(CreditedTo(task, o))
                     /\ Cardinality(CreditedTo(task, o)) \in 0..Cardinality(AllOps)
           /\ \A i : /\ Reported(slot, i) \subseteq AllOps /\ IsFiniteSet(Reported(slot, i))
                     /\ Cardinality(Reported(slot, i)) \in 0..Cardinality(AllOps)
           /\ Popped(slot, h) \subseteq AllOps /\ IsFiniteSet(Popped(slot, h))
           /\ Cardinality(Popped(slot, h)) \in 0..Cardinality(AllOps)
<1>1. /\ \A o : CreditedTo(task, o) \subseteq AllOps
      /\ \A i : Reported(slot, i) \subseteq AllOps
      /\ Popped(slot, h) \subseteq AllOps
  BY DEF CreditedTo, Reported, Popped
<1> HIDE DEF CreditedTo, Reported, Popped
<1> QED
  BY <1>1, OpCount

LEMMA CreditedBegin ==
    ASSUME ExecInv, kind = "fast", RunBegins
    PROVE  Credited'
<1>1. PICK f \in {{}} \cup {{v} : v \in Fetchable} : FastBegin(f)
  BY DEF RunBegins, ThreadedBegin
<1>2. completeQ' = << >> /\ numComplete' = 0
  BY <1>1 DEF FastBegin
<1>3. \A x \in AllOps : phase'[x] \in {"queued", "pending"}
  BY <1>1 DEF FastBegin
<1> DEFINE task == [x \in AllOps |-> Nobody]
           slot == [x \in AllOps |-> 0]
<1>4. task \in Tokens /\ slot \in Slots
  BY DEF Tokens, Slots
<1>5. \A x \in AllOps : task[x] = Nobody /\ slot[x] = 0
  OBVIOUS
<1> HIDE DEF task, slot
<1>6. numComplete' <= Cardinality(Popped(slot, 0))
  BY <1>2, <1>4, LabelCount
<1>7. \A x \in AllOps : ~Carries(x)'
  BY <1>3 DEF Carries
<1>8. Len(completeQ') = 0 /\ DOMAIN completeQ' = {}
  BY <1>2
<1>9. Credits(task, slot, 0)'
  BY <1>3, <1>5, <1>6, <1>7, <1>8 DEF Credits
<1> QED
  BY <1>4, <1>9 DEF Credited, Tokens, Slots

\* A step that neither ends an operator nor touches completeQ.
LEMMA CreditedFrame ==
    ASSUME Credited, UNCHANGED <<completeQ, numComplete>>,
           \A x \in AllOps :
              /\ OpEnded(x)' <=> OpEnded(x)
              /\ Carries(x) => Carries(x)' /\ count'[x] = count[x]
              /\ Carries(x)' /\ ~Carries(x) => count'[x] = 0
              /\ phase'[x] = "notifying" => phase[x] = "notifying"
    PROVE  Credited'
<1>1. PICK task \in Tokens, slot \in Slots, h \in Nat : Credits(task, slot, h)
  BY DEF Credited, Tokens, Slots
<1>2. ASSUME NEW x \in AllOps, Carries(x)'
      PROVE  count'[x] = Cardinality(CreditedTo(task, x))
  <2>1. CASE Carries(x)
    BY <1>1, <2>1 DEF Credits
  <2>2. CASE ~Carries(x)
    <3>1. \A y \in AllOps : task[y] # x
      BY <1>1, <2>2, Facts DEF Credits
    <3>2. CreditedTo(task, x) = {}
      BY <3>1 DEF CreditedTo
    <3> QED
      BY <1>2, <2>2, <3>2, FS_EmptySet
  <2> QED
    BY <2>1, <2>2
<1>3. \A x \in AllOps : task[x] # Nobody => task[x] \in AllOps
  BY <1>1 DEF Tokens
<1>4. Credits(task, slot, h)'
  BY <1>1, <1>2, <1>3 DEF Credits
<1> QED
  BY <1>1, <1>4 DEF Credited, Tokens, Slots

\* The operators credited to o are credited to new.
Relabel(task, o, new) == [x \in AllOps |-> IF task[x] = o THEN new ELSE task[x]]

LEMMA RelabelIs ==
    ASSUME NEW task \in Tokens, NEW o \in AllOps, NEW new \in AllOps \cup {Nobody}, new # o
    PROVE  /\ Relabel(task, o, new) \in Tokens
           /\ \A x \in AllOps : Relabel(task, o, new)[x] = IF task[x] = o THEN new ELSE task[x]
           /\ \A y : y # o /\ y # new => CreditedTo(Relabel(task, o, new), y) = CreditedTo(task, y)
           /\ CreditedTo(task, new) = {} =>
                CreditedTo(Relabel(task, o, new), new) = CreditedTo(task, o)
BY DEF Relabel, Tokens, CreditedTo

LEMMA CreditedEnds ==
    ASSUME ExecInv, Credited, NEW o \in AllOps, FastOpEnds(o)
    PROVE  Credited'
<1>1. PICK task \in Tokens, slot \in Slots, h \in Nat : Credits(task, slot, h)
  BY DEF Credited, Tokens, Slots
<1>2. /\ Types /\ phase \in [AllOps -> Phases] /\ count \in [AllOps -> Int]
  BY DEF ExecInv, Types
<1>3. /\ phase[o] = "running" /\ UNCHANGED <<completeQ, numComplete>>
      /\ \A x \in AllOps : phase'[x] = IF x = o THEN "notifying" ELSE phase[x]
      /\ \A x \in AllOps : count'[x] = IF x = o THEN count[o] + 1 ELSE count[x]
  BY <1>2 DEF FastOpEnds
<1>4. /\ \A x \in AllOps : x # o => (OpEnded(x)' <=> OpEnded(x))
      /\ OpEnded(o)' /\ ~OpEnded(o)
  BY <1>3, OpStates DEF PoolStep, OpEnded
<1>5. task[o] = Nobody /\ slot[o] = 0
  BY <1>1, <1>4 DEF Credits
<1> DEFINE t == [task EXCEPT ![o] = o]
<1>6. t \in Tokens /\ \A x \in AllOps : t[x] = IF x = o THEN o ELSE task[x]
  BY DEF Tokens
<1> HIDE DEF t
<1>7. \A x \in AllOps : Carries(x)' <=> Carries(x)
  BY <1>3 DEF Carries
<1>8. ASSUME NEW x \in AllOps, Carries(x)'
      PROVE  count'[x] = Cardinality(CreditedTo(t, x))
  <2>0. count[x] = Cardinality(CreditedTo(task, x))
    BY <1>1, <1>7, <1>8 DEF Credits
  <2>1. CASE x = o
    <3>1. CreditedTo(t, o) = CreditedTo(task, o) \cup {o} /\ o \notin CreditedTo(task, o)
      BY <1>5, <1>6, Facts DEF CreditedTo
    <3>2. IsFiniteSet(CreditedTo(task, o))
      BY LabelCount
    <3>3. Cardinality(CreditedTo(task, o) \cup {o}) = Cardinality(CreditedTo(task, o)) + 1
      BY <3>1, <3>2, FS_AddElement
    <3> QED
      BY <1>3, <2>0, <2>1, <3>1, <3>3
  <2>2. CASE x # o
    <3>1. CreditedTo(t, x) = CreditedTo(task, x)
      BY <1>5, <1>6, <2>2, Facts DEF CreditedTo
    <3> QED
      BY <1>3, <2>0, <2>2, <3>1
  <2> QED
    BY <2>1, <2>2
<1>9. \A x \in AllOps : t[x] # Nobody => slot[x] = 0 /\ Carries(t[x])'
  <2>1. Carries(o)'
    BY <1>3 DEF Carries
  <2>2. \A x \in AllOps : task[x] # Nobody => task[x] \in AllOps
    BY DEF Tokens
  <2> QED
    BY <1>1, <1>5, <1>6, <1>7, <2>1, <2>2 DEF Credits
<1>10. Credits(t, slot, h)'
  BY <1>1, <1>3, <1>4, <1>6, <1>8, <1>9 DEF Credits
<1> QED
  BY <1>6, <1>10 DEF Credited, Tokens, Slots

LEMMA CreditedGoOn ==
    ASSUME ExecInv, Credited, NEW o \in AllOps, GoOn(o)
    PROVE  Credited'
<1>1. PICK task \in Tokens, slot \in Slots, h \in Nat : Credits(task, slot, h)
  BY DEF Credited, Tokens, Slots
<1>2. /\ Types /\ phase \in [AllOps -> Phases] /\ count \in [AllOps -> Int] /\ FastInv
      /\ phase[o] = "notifying"
  BY DEF ExecInv, Types, GoOn, ThreadedInv, ThreadedPhases
<1>3. PICK n \in AllOps : n = next[o] /\ n # o /\ phase[n] = "pending"
  BY <1>2, InGraph DEF FastInv, NextInv, GoOn
<1>4. /\ UNCHANGED <<completeQ, numComplete>>
      /\ \A x \in AllOps : phase'[x] = IF x = o THEN "over" ELSE IF x = n THEN "running" ELSE phase[x]
      /\ \A x \in AllOps : count'[x] = IF x = n THEN count[o] ELSE count[x]
  BY <1>2, <1>3 DEF GoOn
<1>5. \A x \in AllOps : OpEnded(x)' <=> OpEnded(x)
  BY <1>2, OpStates DEF PoolStep, ThreadedOpEnds, FastOpEnds
<1> DEFINE t == Relabel(task, o, n)
<1>6. CreditedTo(task, n) = {}
  BY <1>1, <1>3, Facts DEF Credits, CreditedTo, Carries
<1>7. /\ t \in Tokens /\ \A x \in AllOps : t[x] = IF task[x] = o THEN n ELSE task[x]
      /\ \A y : y # o /\ y # n => CreditedTo(t, y) = CreditedTo(task, y)
      /\ CreditedTo(t, n) = CreditedTo(task, o)
  BY <1>3, <1>6, RelabelIs
<1> HIDE DEF t
<1>8. /\ Carries(o) /\ ~Carries(o)' /\ Carries(n)'
      /\ \A x \in AllOps : x # o /\ x # n => (Carries(x)' <=> Carries(x))
  BY <1>2, <1>3, <1>4 DEF Carries
<1>9. \A x \in AllOps : Carries(x)' => count'[x] = Cardinality(CreditedTo(t, x))
  BY <1>1, <1>4, <1>7, <1>8 DEF Credits
<1>10. \A x \in AllOps : t[x] # Nobody => slot[x] = 0 /\ Carries(t[x])'
  <2>1. \A x \in AllOps : task[x] # Nobody => task[x] \in AllOps /\ task[x] # n
    BY <1>6 DEF Tokens, CreditedTo
  <2> QED
    BY <1>1, <1>7, <1>8, <2>1, Facts DEF Credits
<1>11. \A x \in AllOps : phase'[x] = "notifying" => t[x] = x
  BY <1>1, <1>4, <1>7 DEF Credits
<1>12. Credits(t, slot, h)'
  BY <1>1, <1>4, <1>5, <1>7, <1>9, <1>10, <1>11, Facts DEF Credits
<1> QED
  BY <1>7, <1>12 DEF Credited, Tokens, Slots

\* What a task that raised had counted is lost.
LEMMA CreditedRaise ==
    ASSUME ExecInv, kind = "fast", Credited, NEW o \in AllOps, OpRaisesSome(o)
    PROVE  Credited'
<1>1. PICK task \in Tokens, slot \in Slots, h \in Nat : Credits(task, slot, h)
  BY DEF Credited, Tokens, Slots
<1>2. phase \in [AllOps -> Phases] /\ count \in [AllOps -> Int]
  BY DEF ExecInv, Types
<1>3. /\ phase[o] = "running" /\ UNCHANGED <<completeQ, numComplete>>
      /\ \A x \in AllOps : phase'[x] = IF x = o THEN "ending" ELSE phase[x]
      /\ \A x \in AllOps : count'[x] = IF x = o THEN -1 ELSE count[x]
  BY <1>2 DEF OpRaisesSome, ThreadedOpRaises, FastOpRaises, OpRaises
<1>4. \A x \in AllOps : OpEnded(x)' <=> OpEnded(x)
  BY <1>3, RaiseStates DEF OpEnded
<1> DEFINE t == Relabel(task, o, Nobody)
<1>5. /\ t \in Tokens /\ \A x \in AllOps : t[x] = IF task[x] = o THEN Nobody ELSE task[x]
      /\ \A y \in AllOps : y # o => CreditedTo(t, y) = CreditedTo(task, y)
  BY Facts, RelabelIs
<1> HIDE DEF t
<1>6. ~Carries(o)' /\ \A x \in AllOps : x # o => (Carries(x)' <=> Carries(x))
  BY <1>3 DEF Carries
<1>7. \A x \in AllOps : Carries(x)' => count'[x] = Cardinality(CreditedTo(t, x))
  BY <1>1, <1>3, <1>5, <1>6 DEF Credits
<1>8. \A x \in AllOps : t[x] # Nobody => slot[x] = 0 /\ Carries(t[x])'
  <2>1. \A x \in AllOps : t[x] # Nobody => t[x] = task[x] /\ task[x] \in AllOps /\ task[x] # o
    BY <1>5 DEF Tokens
  <2> QED
    BY <1>1, <1>6, <2>1 DEF Credits
<1>9. \A x \in AllOps : phase'[x] = "notifying" => t[x] = x
  BY <1>1, <1>3, <1>5 DEF Credits
<1>10. Credits(t, slot, h)'
  BY <1>1, <1>3, <1>4, <1>5, <1>7, <1>8, <1>9 DEF Credits
<1> QED
  BY <1>5, <1>10 DEF Credited, Tokens, Slots

\* What a task counted becomes the last entry of completeQ.
LEMMA CreditedPush ==
    ASSUME ExecInv, Credited, NEW o \in AllOps, PushComplete(o), pc # "idle"
    PROVE  Credited'
<1>1. PICK task \in Tokens, slot \in Slots, h \in Nat : Credits(task, slot, h)
  BY DEF Credited, Tokens, Slots
<1>2. phase \in [AllOps -> Phases] /\ count \in [AllOps -> Int] /\ completeQ \in Seq(Int)
  BY DEF ExecInv, Types
<1>3. /\ phase[o] = "pushing" /\ UNCHANGED <<count, numComplete>>
      /\ completeQ' = Append(completeQ, count[o])
      /\ \A x \in AllOps : x # o => phase'[x] = phase[x]
      /\ phase'[o] \in {"failed", "over"}
  BY <1>2 DEF PushComplete
<1>4. \A x \in AllOps : OpEnded(x)' <=> OpEnded(x)
  BY <1>3, OpStates DEF PoolStep, ThreadedOpEnds, FastOpEnds
<1>0. h + Len(completeQ) + 1 \in Nat
  BY <1>2
<1> PICK k \in Nat : k = h + Len(completeQ) + 1
  BY <1>0
<1> DEFINE t == Relabel(task, o, Nobody)
<1>5. /\ t \in Tokens /\ \A x \in AllOps : t[x] = IF task[x] = o THEN Nobody ELSE task[x]
      /\ \A y \in AllOps : y # o => CreditedTo(t, y) = CreditedTo(task, y)
  BY Facts, RelabelIs
<1>6. k \in Nat /\ k = h + Len(completeQ') /\ Len(completeQ') = Len(completeQ) + 1
      /\ k > h + Len(completeQ) /\ k > h
  BY <1>2, <1>3
<1> HIDE DEF t
<1> DEFINE s == [x \in AllOps |-> IF task[x] = o THEN k ELSE slot[x]]
<1>7. s \in Slots /\ \A x \in AllOps : s[x] = IF task[x] = o THEN k ELSE slot[x]
  BY <1>6 DEF Slots
<1> HIDE DEF s
<1>8. ~Carries(o)' /\ \A x \in AllOps : x # o => (Carries(x)' <=> Carries(x))
  BY <1>3 DEF Carries
<1>9. \A x \in AllOps : Carries(x)' => count'[x] = Cardinality(CreditedTo(t, x))
  BY <1>1, <1>3, <1>5, <1>8 DEF Credits
<1>10. \A x \in AllOps : t[x] # Nobody => s[x] = 0 /\ Carries(t[x])'
  <2>1. \A x \in AllOps : t[x] # Nobody => t[x] = task[x] /\ task[x] \in AllOps /\ task[x] # o
    BY <1>5 DEF Tokens
  <2> QED
    BY <1>1, <1>7, <1>8, <2>1 DEF Credits
<1>11. \A x \in AllOps : phase'[x] = "notifying" => t[x] = x
  BY <1>1, <1>3, <1>5 DEF Credits
<1>12. \A x \in AllOps : t[x] # Nobody \/ s[x] # 0 => OpEnded(x)'
  <2>1. \A x \in AllOps : t[x] # Nobody \/ s[x] # 0 => task[x] # Nobody \/ slot[x] # 0
    BY <1>5, <1>7, Facts
  <2> QED
    BY <1>1, <1>4, <2>1 DEF Credits
<1>13. \A x \in AllOps : slot[x] \in Nat /\ slot[x] <= h + Len(completeQ)
                         /\ (task[x] = o => slot[x] = 0)
  BY <1>1, Facts DEF Credits, Slots
<1>14. \A x \in AllOps : s[x] <= h + Len(completeQ')
  BY <1>2, <1>6, <1>7, <1>13
<1>15. Popped(s, h) = Popped(slot, h)
  BY <1>6, <1>7, <1>13 DEF Popped
<1>16. ASSUME NEW i \in DOMAIN completeQ'
       PROVE  completeQ'[i] \in {-1, Cardinality(Reported(s, h + i))}
  <2>1. i \in 1..Len(completeQ) + 1
    BY <1>2, <1>3
  <2>2. CASE i \in 1..Len(completeQ)
    <3>1. completeQ'[i] = completeQ[i] /\ i \in DOMAIN completeQ
      BY <1>2, <1>3, <2>2
    <3>2. h + i # k /\ h + i # 0
      BY <1>2, <1>6, <2>2
    <3>3. Reported(s, h + i) = Reported(slot, h + i)
      BY <1>7, <1>13, <3>2 DEF Reported
    <3> QED
      BY <1>1, <3>1, <3>3 DEF Credits
  <2>3. CASE i = Len(completeQ) + 1
    <3>1. completeQ'[i] = count[o] /\ h + i = k
      BY <1>2, <1>3, <1>6, <2>3
    <3>2. \A x \in AllOps : slot[x] # k
      BY <1>2, <1>6, <1>13
    <3>3. Reported(s, k) = CreditedTo(task, o)
      BY <1>7, <3>2 DEF Reported, CreditedTo
    <3>4. count[o] # -1 => count[o] = Cardinality(CreditedTo(task, o))
      BY <1>1, <1>3 DEF Credits, Carries
    <3> QED
      BY <3>1, <3>3, <3>4
  <2> QED
    BY <1>2, <2>1, <2>2, <2>3
<1>17. Credits(t, s, h)'
  <2>1. numComplete' <= Cardinality(Popped(s, h))
    BY <1>1, <1>3, <1>15 DEF Credits
  <2> QED
    BY <1>9, <1>10, <1>11, <1>12, <1>14, <1>16, <2>1 DEF Credits
<1> QED
  BY <1>5, <1>7, <1>17 DEF Credited, Tokens, Slots

\* The main thread takes the first entry of completeQ.
LEMMA CreditedPop ==
    ASSUME ExecInv, Credited, PopComplete \/ DrainPop
    PROVE  Credited' /\ (Head(completeQ) # -1 => Head(completeQ) \in Nat)
<1>1. PICK task \in Tokens, slot \in Slots, h \in Nat : Credits(task, slot, h)
  BY DEF Credited, Tokens, Slots
<1>2. completeQ \in Seq(Int) /\ completeQ # << >> /\ completeQ' = Tail(completeQ)
      /\ UNCHANGED <<phase, count>> /\ numComplete \in Int
  BY DEF ExecInv, Types, PopComplete, DrainPop
<1>3. /\ Len(completeQ') = Len(completeQ) - 1 /\ 1 \in DOMAIN completeQ
      /\ Head(completeQ) = completeQ[1]
      /\ \A i \in DOMAIN completeQ' : i \in Nat /\ i + 1 \in DOMAIN completeQ /\ completeQ'[i] = completeQ[i + 1]
  BY <1>2
<1>4. \A x \in AllOps : (OpEnded(x)' <=> OpEnded(x)) /\ (Carries(x)' <=> Carries(x))
  BY <1>2 DEF OpEnded, OpFailed, Carries
<1> DEFINE P == Popped(slot, h)
           R == Reported(slot, h + 1)
<1>5. Popped(slot, h + 1) = P \cup R /\ P \cap R = {}
  BY DEF Popped, Reported, Slots
<1>6. /\ IsFiniteSet(P) /\ IsFiniteSet(R) /\ Cardinality(P) \in Nat /\ Cardinality(R) \in Nat
  BY LabelCount
<1>7. Head(completeQ) \in {-1, Cardinality(R)}
  BY <1>1, <1>3 DEF Credits
<1>8. Cardinality(P \cup R) = Cardinality(P) + Cardinality(R)
  <2>1. Cardinality(P \cap R) = 0
    BY <1>5, FS_EmptySet
  <2>2. Cardinality(P \cup R) = Cardinality(P) + Cardinality(R) - Cardinality(P \cap R)
    BY <1>6, FS_Union
  <2> QED
    BY <1>6, <2>1, <2>2
<1>9. numComplete <= Cardinality(P)
  BY <1>1 DEF Credits
<1> HIDE DEF P, R
<1>10. \/ numComplete' = numComplete
       \/ Head(completeQ) # -1 /\ numComplete' = numComplete + Head(completeQ)
  BY DEF PopComplete, DrainPop
<1>11. numComplete' <= Cardinality(Popped(slot, h + 1))
  <2>1. Cardinality(Popped(slot, h + 1)) = Cardinality(P) + Cardinality(R)
    BY <1>5, <1>8
  <2> QED
    BY <1>2, <1>6, <1>7, <1>9, <1>10, <2>1
<1>12. \A x \in AllOps : slot[x] <= h + 1 + Len(completeQ')
  BY <1>1, <1>2, <1>3 DEF Credits, Slots
<1>13. \A i \in DOMAIN completeQ' : completeQ'[i] \in {-1, Cardinality(Reported(slot, h + 1 + i))}
  <2>1. ASSUME NEW i \in DOMAIN completeQ'
        PROVE  completeQ'[i] \in {-1, Cardinality(Reported(slot, h + 1 + i))}
    <3>1. h + (i + 1) = h + 1 + i
      BY <1>3
    <3> QED
      BY <1>1, <1>3, <3>1 DEF Credits
  <2> QED
    BY <2>1
<1>14. \A x \in AllOps : task[x] # Nobody => task[x] \in AllOps
  BY DEF Tokens
<1>15. Credits(task, slot, h + 1)'
  BY <1>1, <1>2, <1>4, <1>11, <1>12, <1>13, <1>14 DEF Credits
<1>16. h + 1 \in Nat
  OBVIOUS
<1>17. Credited'
  BY <1>15, <1>16 DEF Credited, Tokens, Slots
<1> QED
  BY <1>6, <1>7, <1>17

LEMMA CreditedPool ==
    ASSUME ExecInv, kind = "fast", pc # "idle", NEW o \in AllOps, PoolStep(o) \/ OpRaisesSome(o)
    PROVE  Credited'
<1>1. /\ Types /\ FastInv /\ Credited /\ phase \in [AllOps -> Phases]
      /\ phase[o] # "posting"
  BY DEF ExecInv, Types, FastInv, FastShape, FastPhases
<1>2. CASE StartOp(o) \/ EndTask(o) \/ Notify(o)
  <2>1. UNCHANGED <<completeQ, numComplete, count>>
    BY <1>2 DEF StartOp, EndTask, Notify, fastVars
  <2>2. \A x \in AllOps : OpEnded(x)' <=> OpEnded(x)
    BY <1>2, OpStates DEF PoolStep, ThreadedOpEnds, FastOpEnds, StartOp, EndTask, Notify
  <2>3. \A x \in AllOps :
           \/ phase'[x] = phase[x]
           \/ phase[x] = "queued" /\ phase'[x] = "running" /\ count[x] = 0
           \/ phase[x] = "ending" /\ phase'[x] = "pushing" /\ count[x] = -1
           \/ phase[x] = "notifying" /\ phase'[x] = "pushing" /\ count[x] >= 0
           \/ phase[x] = "pending" /\ phase'[x] = "queued"
    <3>1. CASE StartOp(o)
      BY <1>1, <3>1 DEF StartOp, FastInv, CountInv
    <3>2. CASE EndTask(o)
      BY <1>1, <3>2 DEF EndTask, FastInv, CountInv
    <3>3. CASE Notify(o)
      <4>1. PICK v \in Vars, op \in Live : Delivers(o, v, op)
        BY <3>3, NotifyIs
      <4>2. deps[op] = 1 => phase[op] = "pending" /\ op \in AllOps
        BY <1>1, <4>1, InGraph DEF FastInv, DepsInv
      <4> QED
        BY <1>1, <4>1, <4>2 DEF Delivers
    <3> QED
      BY <1>2, <3>1, <3>2, <3>3
  <2>4. \A x \in AllOps :
          /\ Carries(x) => Carries(x)' /\ count'[x] = count[x]
          /\ Carries(x)' /\ ~Carries(x) => count'[x] = 0
          /\ phase'[x] = "notifying" => phase[x] = "notifying"
    BY <2>1, <2>3 DEF Carries
  <2> QED
    BY <1>1, <2>1, <2>2, <2>4, CreditedFrame
<1> QED
  BY <1>1, <1>2, CreditedEnds, CreditedGoOn, CreditedRaise, CreditedPush
     DEF PoolStep, ThreadedOpEnds, PostOutputs

LEMMA CreditedMain ==
    ASSUME ExecInv, kind = "fast", MainWithin
    PROVE  Credited' /\ QueueInv'
<1>1. Types /\ FastInv /\ QueueInv /\ pc # "idle" /\ Credited
  BY MainMoves DEF ExecInv
<1>2. CASE CheckRemaining
  <2>1. UNCHANGED <<phase, count, completeQ, numComplete>> /\ toPop' = remaining /\ remaining # 0
    BY <1>2 DEF CheckRemaining
  <2>2. Credited'
    <3>1. \A x \in AllOps : (OpEnded(x)' <=> OpEnded(x)) /\ (Carries(x)' <=> Carries(x))
      BY <2>1 DEF OpEnded, OpFailed, Carries
    <3> QED
      BY <1>1, <2>1, <3>1, CreditedFrame
  <2>3. remaining \in 0..Cardinality(AllOps)
    <3>1. Tasks \subseteq AllOps
      BY DEF Tasks, At
    <3> QED
      BY <1>1, <3>1, OpCount DEF FastInv, FastShape
  <2> QED
    BY <1>1, <2>1, <2>2, <2>3 DEF QueueInv
<1>3. CASE PopComplete \/ DrainPop
  <2>1. Credited' /\ (Head(completeQ) # -1 => Head(completeQ) \in Nat)
    BY <1>1, <1>3, CreditedPop
  <2>2. completeQ' \in Seq(-1..Cardinality(AllOps))
    BY <1>1, <1>3 DEF PopComplete, DrainPop, QueueInv
  <2>3. numComplete' \in Nat
    <3>1. numComplete \in Nat
      BY <1>1, Facts DEF QueueInv
    <3> QED
      BY <1>3, <2>1, <3>1 DEF PopComplete, DrainPop
  <2>4. numComplete' <= Cardinality(AllOps)
    <3>1. PICK task \in Tokens, slot \in Slots, h \in Nat : Credits(task, slot, h)'
      BY <2>1 DEF Credited, Tokens, Slots
    <3>2. numComplete' <= Cardinality(Popped(slot, h))
      BY <3>1 DEF Credits
    <3>3. Cardinality(Popped(slot, h)) \in 0..Cardinality(AllOps)
      BY LabelCount
    <3> QED
      BY <2>3, <3>2, <3>3, Facts
  <2>5. toPop' \in 0..Cardinality(AllOps) /\ (pc' = "drain" => toPop' >= 1)
    BY <1>1, <1>3, Facts DEF PopComplete, DrainPop, QueueInv
  <2> QED
    BY <2>1, <2>2, <2>3, <2>4, <2>5, Facts DEF QueueInv
<1> QED
  BY <1>2, <1>3 DEF MainWithin, RunAllOps, PopAll, PopTimeout

LEMMA QueueEnd ==
    ASSUME ExecInv, kind = "fast", ThreadedReturn \/ ThreadedThrow \/ FastReturn \/ FastThrow
    PROVE  QueueInv'
<1>1. QueueInv
  BY DEF ExecInv
<1>2. pc' = "idle" /\ UNCHANGED <<toPop, numComplete, completeQ>>
  BY DEF ThreadedReturn, ThreadedThrow, FastReturn, FastThrow, EndRun, fastVars
<1> QED
  BY <1>1, <1>2 DEF QueueInv

LEMMA QueuePool ==
    ASSUME ExecInv, kind = "fast", NEW o \in AllOps, PoolStep(o) \/ OpRaisesSome(o)
    PROVE  QueueInv'
<1>1. QueueInv /\ pc' = pc /\ count[o] \in Int
  BY PoolMoves DEF ExecInv, Types
<1>2. CASE UNCHANGED <<toPop, numComplete, completeQ>>
  BY <1>1, <1>2 DEF QueueInv
<1>3. CASE PushComplete(o) /\ pc # "idle"
  <2>1. Credited
    BY <1>3 DEF ExecInv
  <2>2. PICK task \in Tokens, slot \in Slots, h \in Nat : Credits(task, slot, h)
    BY <2>1 DEF Credited, Tokens, Slots
  <2>3. count[o] = -1 \/ count[o] = Cardinality(CreditedTo(task, o))
    BY <1>3, <2>2 DEF Credits, Carries, PushComplete
  <2>4. count[o] \in -1..Cardinality(AllOps)
    <3>1. Cardinality(CreditedTo(task, o)) \in 0..Cardinality(AllOps)
      BY LabelCount
    <3> QED
      BY <2>3, <3>1, Facts
  <2> QED
    BY <1>1, <1>3, <2>4 DEF PushComplete, QueueInv
<1> QED
  BY <1>2, <1>3 DEF PoolStep, OpRaisesSome, StartOp, ThreadedOpEnds, PostOutputs, FastOpEnds, Notify, GoOn,
         EndTask, PushComplete, ThreadedOpRaises, FastOpRaises, OpRaises, fastVars

-----------------------------------------------------------------------------
(* The invariant is inductive. *)

EndStep == ThreadedReturn \/ ThreadedThrow \/ FastReturn \/ FastThrow

LEMMA MainSplit == MainStep => MainWithin \/ EndStep
BY DEF MainStep, MainWithin, EndStep

LEMMA ExecInvInit == ExecInit => ExecInv
<1> SUFFICES ASSUME ExecInit PROVE ExecInv
  OBVIOUS
<1>1. pc = "idle"
  BY DEF ExecInit
<1> QED
  BY <1>1, TypesInit, WrappedInit, CaughtInit, ThreadedInit, FastInit DEF ExecInv

LEMMA ExecInvNext == ExecInv /\ [ExecNext]_execVars => ExecInv'
<1> SUFFICES ASSUME ExecInv, [ExecNext]_execVars PROVE ExecInv'
  OBVIOUS
<1>1. Types'
  BY TypesNext DEF ExecInv
<1>2. CASE RunBegins
  <2>1. kind' = kind
    BY <1>2 DEF RunBegins, ThreadedBegin, FastBegin, BeginRun, graph
  <2>2. Wrapped' /\ Caught'
    BY <1>2, WrappedBegin, CaughtBegin DEF ExecInv
  <2>3. kind = "threaded" => ThreadedInv' /\ RunningCounted'
    BY <1>2, ThreadedInvBegin, CountedBegin
  <2>4. kind = "fast" => FastInv' /\ QueueInv' /\ Credited'
    BY <1>2, FastInvBegin, CreditedBegin
  <2> QED
    BY <1>1, <2>1, <2>2, <2>3, <2>4 DEF ExecInv
<1>3. CASE MainWithin
  <2>1. kind' = kind
    BY <1>3, MainMoves
  <2>2. Wrapped' /\ Caught'
    BY <1>3, WrappedMain, CaughtMain
  <2>3. kind = "threaded" => ThreadedInv' /\ RunningCounted'
    BY <1>3, ThreadedInvMain, CountedStep
  <2>4. kind = "fast" => FastInv' /\ QueueInv' /\ Credited'
    BY <1>3, FastInvMain, CreditedMain
  <2> QED
    BY <1>1, <2>1, <2>2, <2>3, <2>4 DEF ExecInv
<1>4. CASE EndStep
  <2>1. kind' = kind /\ pc' = "idle"
    BY <1>4 DEF EndStep, ThreadedReturn, ThreadedThrow, FastReturn, FastThrow, EndRun, graph
  <2>2. Wrapped' /\ Caught'
    BY <1>4, WrappedEnd, CaughtEnd DEF EndStep
  <2>3. kind = "threaded" => ThreadedInv' /\ RunningCounted'
    BY <1>4, ThreadedInvEnd DEF EndStep
  <2>4. kind = "fast" => FastInv' /\ QueueInv'
    BY <1>4, FastInvMain, QueueEnd DEF EndStep
  <2> QED
    BY <1>1, <2>1, <2>2, <2>3, <2>4 DEF ExecInv
<1>5. CASE \E o \in AllOps : PoolStep(o) \/ OpRaisesSome(o)
  <2>1. PICK o \in AllOps : PoolStep(o) \/ OpRaisesSome(o)
    BY <1>5
  <2>2. kind' = kind /\ pc' = pc
    BY <2>1, PoolMoves
  <2>3. Wrapped' /\ Caught'
    BY <2>1, WrappedPool, CaughtPool, CaughtRaise
  <2>4. kind = "threaded" => ThreadedInv' /\ RunningCounted'
    BY <2>1, ThreadedInvPool, CountedStep
  <2>5. kind = "fast" => FastInv' /\ QueueInv'
    BY <2>1, FastInvPool, QueuePool
  <2>6. kind = "fast" /\ pc # "idle" => Credited'
    BY <2>1, CreditedPool
  <2> QED
    BY <1>1, <2>2, <2>3, <2>4, <2>5, <2>6 DEF ExecInv
<1>6. CASE UNCHANGED execVars
  <2>1. /\ UNCHANGED <<kind, allowDelay, in, pc, phase, deps, pendingVars, readyVars, runningOps>>
        /\ UNCHANGED <<count, todo, next, remaining, completeQ, numComplete, toPop, exception>>
        /\ UNCHANGED <<fetched, raised, outcome, threwBefore, runs, failures, dropCounter, scopes>>
    BY <1>6 DEF execVars, graph, threadedVars, fastVars, runVars
  <2>2. /\ \A x : Inputs(x)' = Inputs(x)
        /\ Live' = Live /\ RunVars' = RunVars /\ Tasks' = Tasks /\ Counted' = Counted
    BY <2>1 DEF Inputs, Live, RunVars, Tasks, Counted, At
  <2>3. \A x \in AllOps : (OpEnded(x)' <=> OpEnded(x)) /\ (OpFailed(x)' <=> OpFailed(x))
                          /\ (Carries(x)' <=> Carries(x))
    BY <2>1 DEF OpEnded, OpFailed, Carries
  <2>4. Wrapped'
    BY <2>1, <2>2 DEF ExecInv, Wrapped, At
  <2>5. Caught'
    BY <2>1, <2>3 DEF ExecInv, Caught, HonestThrow
  <2>6. kind = "threaded" => ThreadedInv' /\ RunningCounted'
    <3>1. ASSUME ThreadedInv PROVE ThreadedInv'
      BY <2>1, <3>1, ThreadedFrame DEF ThreadedInv
    <3> QED
      BY <2>1, <2>2, <3>1 DEF ExecInv, RunningCounted
  <2>7. kind = "fast" => FastInv' /\ QueueInv'
    <3>1. (\A x : Missing(x)' = Missing(x)) /\ (\A x : Handed(x)' = Handed(x))
      BY <2>1, <2>3, SameMissing
    <3> QED
      BY <2>1, <2>2, <3>1 DEF ExecInv, FastInv, TodoInv, DepsInv, CountInv, NextInv, FastShape, QueueInv
  <2>8. Credited => Credited'
    BY <2>1, <2>3, CreditedFrame
  <2> QED
    BY <1>1, <2>1, <2>4, <2>5, <2>6, <2>7, <2>8 DEF ExecInv
<1> QED
  BY <1>2, <1>3, <1>4, <1>5, <1>6, MainSplit DEF ExecNext

LEMMA ExecInvariant == ExecSpec => []ExecInv
BY ExecInvInit, ExecInvNext, PTL DEF ExecSpec

-----------------------------------------------------------------------------
(* What follows. *)

LEMMA DepsBounded ==
    ASSUME ExecInv
    PROVE  deps \in [AllOps -> 0..Cardinality(Vars)]
<1>1. Types
  BY DEF ExecInv
<1>2. \A o \in AllOps : Inputs(o) \cap pendingVars \subseteq Vars /\ Missing(o) \subseteq Vars
  BY <1>1, InGraph DEF Missing
<1>3. \A o \in AllOps : /\ Cardinality(Inputs(o) \cap pendingVars) \in 0..Cardinality(Vars)
                        /\ Cardinality(Missing(o)) \in 0..Cardinality(Vars)
  BY <1>2, InputCount
<1>4. 0 \in 0..Cardinality(Vars)
  BY Facts
<1>5. \A o \in AllOps : deps[o] \in 0..Cardinality(Vars)
  <2>1. CASE kind = "threaded"
    BY <1>3, <2>1 DEF ExecInv, ThreadedInv
  <2>2. CASE kind = "fast"
    BY <1>3, <1>4, <2>2 DEF ExecInv, FastInv, DepsInv
  <2> QED
    BY <1>1, <2>1, <2>2 DEF Types
<1> QED
  BY <1>1, <1>5 DEF Types

LEMMA RunningBounded ==
    ASSUME ExecInv
    PROVE  runningOps \in 0..MaxRuns * Cardinality(AllOps)
<1> DEFINE N == Cardinality(AllOps)
           C == Cardinality(Counted)
<1>1. runs \in Nat /\ runs <= MaxRuns /\ MaxRuns \in Nat /\ runningOps \in Int
  BY Facts DEF ExecInv, Types
<1>2. N \in Nat /\ C \in 0..N
  <2>1. Counted \subseteq AllOps
    BY DEF Counted, At
  <2> QED
    BY <2>1, OpCount, Facts
<1>3. /\ kind = "fast" => runningOps = 0
      /\ kind = "threaded" =>
            /\ runningOps >= C
            /\ runs = 0 => runningOps = 0
            /\ runs > 0 => runningOps <= (runs - 1) * N + C
      /\ kind \in {"threaded", "fast"}
  BY DEF ExecInv, Types, FastInv, FastShape, RunningCounted
<1> HIDE DEF N, C
<1>4. MaxRuns * N \in Nat
  BY <1>1, <1>2
<1>5. runs > 0 => (runs - 1) * N + N <= MaxRuns * N
  <2>1. MaxRuns * N = (MaxRuns - runs) * N + ((runs - 1) * N + N)
    BY <1>1, <1>2
  <2>2. (MaxRuns - runs) * N >= 0 /\ (MaxRuns - runs) * N \in Int
    BY <1>1, <1>2
  <2>3. (runs - 1) * N + N \in Int
    BY <1>1, <1>2
  <2> QED
    BY <1>4, <2>1, <2>2, <2>3
<1>6. (runs - 1) * N \in Int
  BY <1>1, <1>2
<1>7. 0 <= runningOps /\ runningOps <= MaxRuns * N
  BY <1>1, <1>2, <1>3, <1>4, <1>5, <1>6
<1> QED
  BY <1>1, <1>4, <1>7 DEF N

LEMMA ExecInvTypes == ExecInv => ExecTypeOK
<1> SUFFICES ASSUME ExecInv PROVE ExecTypeOK
  OBVIOUS
<1>1. Types
  BY DEF ExecInv
<1>2. deps \in [AllOps -> 0..Cardinality(Vars)] /\ runningOps \in 0..MaxRuns * Cardinality(AllOps)
  BY DepsBounded, RunningBounded
<1>3. /\ remaining \in 0..Cardinality(AllOps) /\ toPop \in 0..Cardinality(AllOps)
      /\ numComplete \in 0..Cardinality(AllOps) /\ completeQ \in Seq(-1..Cardinality(AllOps))
  <2>1. CASE kind = "threaded"
    BY <2>1, Facts DEF ExecInv, ThreadedInv
  <2>2. CASE kind = "fast"
    <3>1. Tasks \subseteq AllOps
      BY DEF Tasks, At
    <3>2. remaining \in 0..Cardinality(AllOps)
      BY <2>2, <3>1, OpCount DEF ExecInv, FastInv, FastShape
    <3> QED
      BY <2>2, <3>2 DEF ExecInv, QueueInv
  <2> QED
    BY <1>1, <2>1, <2>2 DEF Types
<1>4. dropCounter \in 0..DropEvery - 1
  BY <1>1 DEF Types
<1> QED
  BY <1>1, <1>2, <1>3, <1>4 DEF Types, Phases, AllVars, ExecTypeOK

\* The executors keep their types and bounds: no dependency count goes below
\* zero, the tasks left, what is popped and num_complete stay within the
\* operators, and running_ops_ within the operators of all runs.
THEOREM ExecTypeCorrect == ExecSpec => []ExecTypeOK
BY ExecInvariant, ExecInvTypes, PTL

\* No operator is queued or running once the local scopes are dropped, neither
\* in a run nor left behind in the pool by a run that threw.
THEOREM ScopesKept == ExecSpec => []ScopesOutliveOps
<1>1. ExecInv => ScopesOutliveOps
  BY DEF ExecInv, Wrapped, ScopesOutliveOps, At
<1> QED
  BY <1>1, ExecInvariant, PTL

\* A run that throws throws what its own operators raised, EnforceNotMet
\* before EOFException; the fast executor until it has thrown once.
THEOREM HonestException == ExecSpec => []HonestThrow
<1>1. ExecInv => HonestThrow
  BY DEF ExecInv, Caught
<1> QED
  BY <1>1, ExecInvariant, PTL

-----------------------------------------------------------------------------
(* Refinement. *)

Started(o) == phase[o] = "running" \/ OpEnded(o) \/ OpFailed(o)

\* The state of DagRun, as Dag maps it.
DagNeeds == IF runs = 0 THEN << >>
            ELSE [o \in Live |-> {p \in Ops : Out[p] \cap Inputs(o) # {}}]
DagStarted == {o \in AllOps : phase[o] = "running" \/ OpEnded(o) \/ OpFailed(o)}
DagEnded == {o \in AllOps : OpEnded(o)}
DagFailed == {o \in AllOps : OpFailed(o)}
DagMode == IF pc = "idle" THEN "idle" ELSE "running"

LEMMA NeedsSame ==
    ASSUME UNCHANGED <<in, fetched, runs>>
    PROVE  DagNeeds' = DagNeeds
BY DEF DagNeeds, Live, Inputs

LEMMA DagStutter ==
    ASSUME UNCHANGED <<in, fetched, runs, pc>> \/
             (UNCHANGED <<in, fetched, runs>> /\ pc # "idle" /\ pc' # "idle"),
           \A x \in AllOps : /\ OpEnded(x)' <=> OpEnded(x)
                             /\ OpFailed(x)' <=> OpFailed(x)
                             /\ Started(x)' <=> Started(x)
    PROVE  UNCHANGED Dag!dagVars
<1>1. DagNeeds' = DagNeeds
  BY NeedsSame
<1>2. DagStarted' = DagStarted /\ DagEnded' = DagEnded /\ DagFailed' = DagFailed
  BY DEF DagStarted, DagEnded, DagFailed, Started
<1>3. DagMode' = DagMode
  BY DEF DagMode
<1> QED
  BY <1>1, <1>2, <1>3 DEF Dag!dagVars, DagNeeds, DagStarted, DagEnded, DagFailed, DagMode

\* What an operator reads was generated before it starts.
LEMMA InputsReady ==
    ASSUME ExecInv, runs > 0, NEW o \in Live, NEW p \in Ops, Out[p] \cap Inputs(o) # {},
           kind = "threaded" => phase[o] # "pending",
           kind = "fast" => deps[o] = 0
    PROVE  OpEnded(p)
<1>1. Types /\ o \in AllOps
  BY InGraph DEF ExecInv
<1>2. PICK v \in Vars : v \in Out[p] /\ v \in Inputs(o)
  BY <1>1, InGraph
<1>3. v # FetchVar /\ v \in RunVars /\ v \in Generated
  BY <1>2, Facts DEF RunVars, AllVars, Generated
<1>4. CASE kind = "threaded"
  <2>1. Inputs(o) \cap pendingVars = {} /\ pendingVars \ readyVars = {w \in RunVars : ~Posted(w)}
    BY <1>4 DEF ExecInv, ThreadedInv
  <2>2. Posted(v)
    BY <1>2, <1>3, <2>1
  <2> QED
    BY <1>2, <1>3, <2>2 DEF Posted, OpEnded, OpFailed
<1>5. CASE kind = "fast"
  <2>1. Cardinality(Missing(o)) = 0
    BY <1>1, <1>5 DEF ExecInv, FastInv, DepsInv
  <2>2. Missing(o) = {}
    <3>1. Missing(o) \subseteq Vars
      BY Facts DEF Missing
    <3> QED
      BY <2>1, <3>1, InputCount
  <2>3. ~Undelivered(v, o)
    BY <1>2, <1>3, <2>2 DEF Missing
  <2>4. PICK q \in Ops : v \in Out[q] /\ OpEnded(q)
    BY <2>3 DEF Undelivered
  <2> QED
    BY <1>2, <2>4, Facts
<1> QED
  BY <1>1, <1>4, <1>5 DEF Types

LEMMA DagStart ==
    ASSUME ExecInv, NEW o \in Live, pc # "idle", ~Started(o),
           \A p \in Ops : Out[p] \cap Inputs(o) # {} => OpEnded(p),
           UNCHANGED <<in, fetched, runs, pc>>,
           \A x \in AllOps : /\ OpEnded(x)' <=> OpEnded(x)
                             /\ OpFailed(x)' <=> OpFailed(x)
                             /\ Started(x)' <=> Started(x) \/ x = o
    PROVE  Dag!DagNext
<1>1. o \in AllOps /\ Ops \subseteq AllOps /\ runs # 0
  BY Facts, InGraph DEF ExecInv, Wrapped
<1>2. DagNeeds' = DagNeeds /\ DagMode' = DagMode /\ DagMode = "running"
  BY NeedsSame DEF DagMode
<1>3. DagStarted' = DagStarted \cup {o} /\ DagEnded' = DagEnded /\ DagFailed' = DagFailed
      /\ o \notin DagStarted
  BY <1>1 DEF DagStarted, DagEnded, DagFailed, Started
<1>4. o \in DOMAIN DagNeeds /\ DagNeeds[o] \subseteq DagEnded
  BY <1>1 DEF DagNeeds, DagEnded
<1>5. Dag!Start(o)
  BY <1>2, <1>3, <1>4 DEF Dag!Start, DagNeeds, DagStarted, DagEnded, DagFailed, DagMode
<1> QED
  BY <1>1, <1>5 DEF Dag!DagNext

LEMMA DagFinish ==
    ASSUME NEW o \in AllOps, phase[o] = "running",
           UNCHANGED <<in, fetched, runs, pc>>,
           \A x \in AllOps : x # o => /\ OpEnded(x)' <=> OpEnded(x)
                                      /\ OpFailed(x)' <=> OpFailed(x)
                                      /\ phase'[x] = "running" <=> phase[x] = "running",
           (OpEnded(o)' /\ ~OpFailed(o)') \/ (OpFailed(o)' /\ ~OpEnded(o)')
    PROVE  Dag!DagNext
<1>1. ~OpEnded(o) /\ ~OpFailed(o)
  BY DEF OpEnded, OpFailed
<1>2. DagNeeds' = DagNeeds /\ DagMode' = DagMode
  BY NeedsSame DEF DagMode
<1>3. o \in DagStarted \ (DagEnded \cup DagFailed) /\ DagStarted' = DagStarted
  BY <1>1 DEF DagStarted, DagEnded, DagFailed
<1>4. \/ DagEnded' = DagEnded \cup {o} /\ DagFailed' = DagFailed
      \/ DagFailed' = DagFailed \cup {o} /\ DagEnded' = DagEnded
  BY <1>1 DEF DagEnded, DagFailed
<1>5. Dag!Finish(o)
  BY <1>2, <1>3, <1>4 DEF Dag!Finish, DagNeeds, DagStarted, DagEnded, DagFailed, DagMode
<1> QED
  BY <1>5 DEF Dag!DagNext

LEMMA DagBegin ==
    ASSUME ExecInv, RunBegins
    PROVE  Dag!DagNext
<1>1. PICK f \in {{}} \cup {{v} : v \in Fetchable} : ThreadedBegin(f) \/ FastBegin(f)
  BY DEF RunBegins
<1>2. pc = "idle" /\ pc' # "idle" /\ runs' # 0
  <2>1. runs' = runs + 1 /\ runs \in Nat /\ pc = "idle" /\ pc' # "idle"
    BY <1>1 DEF ThreadedBegin, FastBegin, BeginRun, ExecInv, Types
  <2> QED
    BY <2>1
<1>3. \A o \in AllOps : phase'[o] \in {"pending", "ready", "queued"}
  BY <1>1 DEF ThreadedBegin, FastBegin
<1>4. DagStarted' = {} /\ DagEnded' = {} /\ DagFailed' = {}
  BY <1>3 DEF DagStarted, DagEnded, DagFailed, OpEnded, OpFailed
<1>5. DagMode = "idle" /\ DagMode' = "running"
  BY <1>2 DEF DagMode
<1>6. Ops \subseteq Live' /\ Live' \in SUBSET AllOps
  BY Facts DEF Live
<1>7. DagNeeds' \in [Live' -> SUBSET Live']
  BY <1>2, <1>6 DEF DagNeeds
<1>8. \E live \in SUBSET AllOps : DagNeeds' \in [live -> SUBSET live]
  BY <1>6, <1>7
<1>9. Dag!Begin
  BY <1>4, <1>5, <1>8 DEF Dag!Begin, DagNeeds, DagStarted, DagEnded, DagFailed, DagMode
<1> QED
  BY <1>9 DEF Dag!DagNext

LEMMA DagEnd ==
    ASSUME ExecInv, EndStep
    PROVE  Dag!DagNext
<1>1. Types /\ Wrapped /\ Caught
  BY DEF ExecInv
<1>2. pc # "idle" /\ pc' = "idle" /\ UNCHANGED <<in, fetched, runs, phase, count>>
  BY DEF EndStep, ThreadedReturn, ThreadedThrow, FastReturn, FastThrow, EndRun, graph, fastVars
<1>3. DagNeeds' = DagNeeds
  BY <1>2, NeedsSame
<1>4. DagStarted' = DagStarted /\ DagEnded' = DagEnded /\ DagFailed' = DagFailed
  BY <1>2 DEF DagStarted, DagEnded, DagFailed, OpEnded, OpFailed
<1>5. DagMode = "running" /\ DagMode' = "idle" /\ runs # 0
  BY <1>1, <1>2 DEF DagMode, Wrapped
<1>6. CASE ThreadedReturn \/ FastReturn
  <2>1. DagEnded = Live
    <3>1. Live \subseteq AllOps
      BY <1>1, InGraph
    <3> QED
      BY <1>1, <1>6, <3>1, ReturnIsComplete, EndedIsLive DEF DagEnded
  <2>2. DOMAIN DagNeeds = Live
    BY <1>5 DEF DagNeeds
  <2>3. Dag!Return
    BY <1>3, <1>4, <1>5, <2>1, <2>2
       DEF Dag!Return, DagNeeds, DagStarted, DagEnded, DagFailed, DagMode
  <2> QED
    BY <2>3 DEF Dag!DagNext
<1>7. CASE ThreadedThrow \/ FastThrow
  <2>1. DagFailed # {}
    BY <1>1, <1>7 DEF Caught, ThreadedThrow, FastThrow, DagFailed
  <2>2. \A o \in AllOps : phase[o] # "running"
    BY <1>7, EndIsQuiet DEF At
  <2>3. DagStarted = DagEnded \cup DagFailed
    BY <2>2 DEF DagStarted, DagEnded, DagFailed
  <2>4. Dag!Throw
    BY <1>3, <1>4, <1>5, <2>1, <2>3
       DEF Dag!Throw, DagNeeds, DagStarted, DagEnded, DagFailed, DagMode
  <2> QED
    BY <2>4 DEF Dag!DagNext
<1> QED
  BY <1>6, <1>7 DEF EndStep

LEMMA DagPool ==
    ASSUME ExecInv, NEW o \in AllOps, PoolStep(o) \/ OpRaisesSome(o)
    PROVE  [Dag!DagNext]_(Dag!dagVars)
<1>1. Types /\ Wrapped /\ phase \in [AllOps -> Phases]
  BY DEF ExecInv, Types
<1>2. o \in Live /\ runs > 0 /\ UNCHANGED <<in, fetched, runs, pc>>
      /\ (pc = "idle" => phase[o] = "pushing")
  BY PoolMoves
<1>3. CASE StartOp(o)
  <2>1. phase[o] = "queued" /\ pc # "idle" /\ ~Started(o)
    BY <1>2, <1>3 DEF StartOp, Started, OpEnded, OpFailed
  <2>2. \A x \in AllOps : (OpEnded(x)' <=> OpEnded(x)) /\ (OpFailed(x)' <=> OpFailed(x))
    BY <1>3, <2>1, OpStates DEF PoolStep, ThreadedOpEnds, FastOpEnds
  <2>3. \A x \in AllOps : Started(x)' <=> Started(x) \/ x = o
    BY <1>1, <1>3, <2>2 DEF StartOp, Started
  <2>4. kind = "fast" => deps[o] = 0
    BY <2>1 DEF ExecInv, FastInv, DepsInv
  <2>5. \A p \in Ops : Out[p] \cap Inputs(o) # {} => OpEnded(p)
    BY <1>2, <2>1, <2>4, InputsReady
  <2> QED
    BY <1>2, <2>1, <2>2, <2>3, <2>5, DagStart
<1>4. CASE GoOn(o)
  <2>1. phase[o] = "notifying" /\ pc # "idle" /\ FastInv /\ kind = "fast"
    BY <1>1, <1>2, <1>4 DEF GoOn, ExecInv, ThreadedInv, ThreadedPhases, Types
  <2>2. PICK n \in Live : n = next[o] /\ n \in AllOps /\ n # o /\ phase[n] = "pending" /\ deps[n] = 0
    BY <1>1, <1>4, <2>1, InGraph DEF GoOn, FastInv, NextInv
  <2>3. ~Started(n)
    BY <2>2 DEF Started, OpEnded, OpFailed
  <2>4. \A x \in AllOps : (OpEnded(x)' <=> OpEnded(x)) /\ (OpFailed(x)' <=> OpFailed(x))
    BY <1>4, <2>1, OpStates DEF PoolStep, ThreadedOpEnds, FastOpEnds
  <2>5. \A x \in AllOps : phase'[x] = "running" <=> phase[x] = "running" \/ x = n
    BY <1>1, <1>4, <2>1, <2>2 DEF GoOn
  <2>6. \A x \in AllOps : Started(x)' <=> Started(x) \/ x = n
    BY <2>4, <2>5 DEF Started
  <2>7. \A p \in Ops : Out[p] \cap Inputs(n) # {} => OpEnded(p)
    BY <1>2, <2>1, <2>2, InputsReady
  <2> QED
    BY <1>2, <2>1, <2>3, <2>4, <2>6, <2>7, DagStart
<1>5. CASE ThreadedOpEnds(o) \/ FastOpEnds(o)
  <2>1. /\ phase[o] = "running" /\ OpEnded(o)' /\ \A x \in AllOps : OpFailed(x)' <=> OpFailed(x)
        /\ \A x \in AllOps : x # o => (OpEnded(x)' <=> OpEnded(x))
    BY <1>5, OpStates DEF PoolStep
  <2>2. ~OpFailed(o)'
    BY <2>1 DEF OpEnded
  <2>3. \A x \in AllOps : x # o => (phase'[x] = "running" <=> phase[x] = "running")
    BY <1>1, <1>5 DEF ThreadedOpEnds, FastOpEnds
  <2> QED
    BY <1>2, <2>1, <2>2, <2>3, DagFinish
<1>6. CASE OpRaisesSome(o)
  <2>1. /\ phase[o] = "running" /\ OpFailed(o)' /\ ~OpEnded(o)'
        /\ \A x \in AllOps : x # o => (OpFailed(x)' <=> OpFailed(x))
        /\ \A x \in AllOps : x # o => (OpEnded(x)' <=> OpEnded(x))
    BY <1>6, RaiseStates
  <2>2. \A x \in AllOps : x # o => (phase'[x] = "running" <=> phase[x] = "running")
    BY <1>1, <1>6 DEF OpRaisesSome, ThreadedOpRaises, FastOpRaises
  <2> QED
    BY <1>2, <2>1, <2>2, DagFinish
<1>7. CASE PostOutputs(o) \/ EndTask(o) \/ PushComplete(o) \/ Notify(o)
  <2>1. phase[o] # "running"
    BY <1>7 DEF PostOutputs, EndTask, PushComplete, Notify
  <2>2. \A x \in AllOps : (OpEnded(x)' <=> OpEnded(x)) /\ (OpFailed(x)' <=> OpFailed(x))
    BY <1>7, <2>1, OpStates DEF PoolStep, ThreadedOpEnds, FastOpEnds
  <2>3. \A x \in AllOps : phase'[x] = "running" <=> phase[x] = "running"
    <3>1. CASE Notify(o)
      <4>1. PICK v \in Vars, op \in Live : Delivers(o, v, op) /\ FastInv
        BY <3>1, NotifyIs
      <4>2. op \in AllOps /\ (deps[op] = 1 => phase[op] = "pending")
        BY <1>1, <4>1, InGraph DEF FastInv, DepsInv
      <4> QED
        BY <1>1, <4>1, <4>2 DEF Delivers
    <3>2. CASE ~Notify(o)
      BY <1>1, <1>7, <2>1, <3>2 DEF PostOutputs, EndTask, PushComplete
    <3> QED
      BY <3>1, <3>2
  <2>4. \A x \in AllOps : Started(x)' <=> Started(x)
    BY <2>2, <2>3 DEF Started
  <2> QED
    BY <1>2, <2>2, <2>4, DagStutter
<1> QED
  BY <1>3, <1>4, <1>5, <1>6, <1>7 DEF PoolStep

LEMMA DagMain ==
    ASSUME ExecInv, MainWithin
    PROVE  UNCHANGED Dag!dagVars
<1>1. UNCHANGED <<in, fetched, runs>> /\ pc # "idle" /\ pc' # "idle"
  BY MainMoves
<1>2. \A x \in AllOps : /\ OpEnded(x)' <=> OpEnded(x)
                        /\ OpFailed(x)' <=> OpFailed(x)
                        /\ Started(x)' <=> Started(x)
  BY MainStates DEF Started
<1> QED
  BY <1>1, <1>2, DagStutter

\* Both executors implement DagRun, whatever the graph and the scheduling: in
\* every run each operator runs at most once and after the operators whose
\* outputs it reads, Run returns only when all have ended, and throws only
\* when one failed and none is running.
THEOREM ExecutorsImplementDagRun == ExecSpec => ImplementsDagRun
<1>1. ExecInit => Dag!DagInit
  BY DEF ExecInit, Dag!DagInit, OpEnded, OpFailed
<1>2. ExecInv /\ [ExecNext]_execVars => [Dag!DagNext]_(Dag!dagVars)
  <2> SUFFICES ASSUME ExecInv, [ExecNext]_execVars
               PROVE  [Dag!DagNext]_(Dag!dagVars)
    OBVIOUS
  <2>1. CASE UNCHANGED execVars
    <3>1. UNCHANGED <<in, fetched, runs, pc, phase, count>>
      BY <2>1 DEF execVars, graph, fastVars, runVars
    <3>2. \A x \in AllOps : /\ OpEnded(x)' <=> OpEnded(x)
                            /\ OpFailed(x)' <=> OpFailed(x)
                            /\ Started(x)' <=> Started(x)
      BY <3>1 DEF OpEnded, OpFailed, Started
    <3> QED
      BY <3>1, <3>2, DagStutter
  <2>2. CASE RunBegins
    BY <2>2, DagBegin
  <2>3. CASE MainStep
    BY <2>3, MainSplit, DagMain, DagEnd
  <2>4. CASE \E o \in AllOps : PoolStep(o) \/ OpRaisesSome(o)
    BY <2>4, DagPool
  <2> QED
    BY <2>1, <2>2, <2>3, <2>4 DEF ExecNext
<1> QED
  BY <1>1, <1>2, ExecInvariant, PTL DEF ExecSpec, ImplementsDagRun, Dag!DagSpec
=============================================================================
