----------------------------- MODULE GraphExecutor -----------------------------
(***************************************************************************)
(* The executors of ParallelExecutor: ThreadedSSAGraphExecutor (kDefault)  *)
(* and FastThreadedSSAGraphExecutor (kExperimental), one of which is       *)
(* chosen when the ParallelExecutor is made, behind                        *)
(* ScopeBufferedSSAGraphExecutor.  The caller runs the graph again and     *)
(* again, also after a run that threw, as a training loop does at the end  *)
(* of an epoch.                                                            *)
(*                                                                         *)
(* An operator's phase is where its OpHandleBase is: the threaded executor *)
(* keeps sets of ready and delayed operators and hands them to the pool,   *)
(* in the fast one a pool task runs an operator, counts its dependents     *)
(* down and goes on with the first that is ready.  An operator either runs *)
(* to its end or raises EOFException or EnforceNotMet; any other exception *)
(* aborts the process.                                                     *)
(***************************************************************************)
EXTENDS Integers, Sequences, FiniteSets

CONSTANTS Ops,          \* the operators of the graph
          Vars,         \* the variables of the graph
          Out,          \* the variables each operator generates
          Delayed,      \* operators with IsMultiDeviceTransfer
          Graphs,       \* the inputs the operators may have, an acyclic choice each
          Fetchable,    \* the variables a run may be asked for; asking for one that
                        \* is not in the graph throws before anything is started
          Fetch,        \* the fetch operator of a run
          FetchVar,     \* its dummy output
          Nobody,
          NumThreads,   \* num_threads_
          DropEvery,    \* num_iteration_per_drop_scope_
          MaxRuns, MaxFailures   \* bounds

ASSUME GraphAssumption ==
    /\ IsFiniteSet(Ops) /\ IsFiniteSet(Vars)
    /\ Out \in [Ops -> (SUBSET Vars) \ {{}}]
    /\ \A o, p \in Ops : o # p => Out[o] \cap Out[p] = {}
    /\ Graphs \subseteq [Ops -> SUBSET Vars]
    /\ Fetchable \subseteq Vars
    /\ Fetch \notin Ops /\ FetchVar \notin Vars /\ Nobody \notin Ops \cup {Fetch}
    /\ NumThreads \in Nat \ {0} /\ DropEvery \in Nat \ {0}
    /\ MaxRuns \in Nat /\ MaxFailures \in Nat

AllOps == Ops \cup {Fetch}

VARIABLES
    kind,        \* "threaded" or "fast"
    allowDelay,  \* allow_op_delay_
    in,          \* the graph
    fetched,     \* the variables the run is asked for
    pc,          \* where Run is
    phase,       \* where each operator is
    deps,        \* pending_ops, op_deps
    pendingVars, readyVars, runningOps,            \* the threaded executor
    count, todo, next, remaining, completeQ, numComplete, toPop, \* the fast one
    exception,   \* exception_holder_, exception_
    raised,      \* history: what the operators of this run raised
    outcome,     \* history: how the last run ended
    threwBefore, \* history: an earlier run threw
    runs, failures,
    dropCounter, scopes    \* drop_scope_counter_, the local scopes exist

graph == <<kind, allowDelay, in>>
threadedVars == <<pendingVars, readyVars, runningOps>>
fastVars == <<count, todo, next, remaining, completeQ, numComplete, toPop>>
runVars == <<fetched, raised, outcome, threwBefore, runs, failures, dropCounter, scopes>>
execVars == <<graph, pc, phase, deps, threadedVars, fastVars, exception, runVars>>

-----------------------------------------------------------------------------
(* The graph with the fetch operator of the run *)

Generated == UNION {Out[o] : o \in Ops}
Live == IF fetched = {} THEN Ops ELSE AllOps
Inputs(o) == IF o = Fetch THEN fetched ELSE in[o]
Outputs(o) == IF o = Fetch THEN {FetchVar} ELSE Out[o]
PendingOps(v) == {o \in Live : v \in Inputs(o)}
At(S) == {o \in AllOps : phase[o] \in S}

\* Operators that hold a thread of the pool.
Busy == At({"running", "posting", "notifying", "ending", "pushing"})

-----------------------------------------------------------------------------
(* ExceptionHolder: an EOF does not cover up an EnforceNotMet *)

(* Faulty variant: a later exception replaces the first. *)
Catch_Last(e) == exception' = e

Catch(e) == exception' = IF e = "eof" /\ exception # "none" THEN exception ELSE e

-----------------------------------------------------------------------------
(* ScopeBufferedSSAGraphExecutor::Run around a run of the executor *)

(* Faulty variant: the counter of runs is not reset. *)
DropScopes_NoReset ==
    /\ dropCounter' = dropCounter + 1
    /\ scopes' = (dropCounter + 1 # DropEvery)

DropScopes ==
    /\ dropCounter' = (dropCounter + 1) % DropEvery
    /\ scopes' = (dropCounter + 1 # DropEvery)

BeginRun(f) ==
    /\ pc = "idle" /\ runs < MaxRuns
    /\ runs' = runs + 1
    /\ fetched' = f
    /\ raised' = {} /\ outcome' = "none"
    /\ threwBefore' = (threwBefore \/ outcome \in {"eof", "enforce"})
    /\ scopes' = (scopes \/ dropCounter = 0)
    /\ UNCHANGED <<graph, failures, dropCounter>>

EndRun(result) ==
    /\ pc' = "idle"
    /\ outcome' = result
    /\ DropScopes
    /\ UNCHANGED <<graph, deps, fetched, raised, threwBefore, runs, failures>>

-----------------------------------------------------------------------------
(* The pool and the operators *)

StartOp(o) ==
    /\ phase[o] = "queued"
    /\ Cardinality(Busy) < NumThreads
    /\ phase' = [phase EXCEPT ![o] = "running"]
    /\ UNCHANGED <<graph, pc, deps, threadedVars, fastVars, exception, runVars>>

OpRaises(o, e) ==
    /\ phase[o] = "running" /\ failures < MaxFailures
    /\ failures' = failures + 1
    /\ raised' = raised \cup {e}
    /\ Catch(e)
    /\ UNCHANGED <<graph, pc, deps, threadedVars, remaining, completeQ, numComplete, toPop,
                   todo, next, fetched, outcome, threwBefore, runs, dropCounter, scopes>>

-----------------------------------------------------------------------------
(* ThreadedSSAGraphExecutor *)

ThreadedBegin(f) ==
    /\ kind = "threaded"
    /\ BeginRun(f)
    /\ pc' = "run"
    /\ deps' = [o \in AllOps |-> IF o = Fetch THEN Cardinality(f) ELSE Cardinality(in[o])]
    /\ phase' = [o \in AllOps |-> IF o \in Ops /\ in[o] = {} THEN "ready" ELSE "pending"]
    /\ pendingVars' = IF f = {} THEN Vars ELSE Vars \cup {FetchVar}
    /\ readyVars' = Vars \ Generated
    /\ exception' = "none"
    /\ UNCHANGED <<runningOps, fastVars>>

ToRun ==
    IF At({"ready"}) = {} /\ allowDelay /\ runningOps = 0 THEN At({"delayed"}) ELSE At({"ready"})

RunAllOps ==
    /\ kind = "threaded" /\ pc = "run" /\ pendingVars # {}
    /\ phase' = [o \in AllOps |-> IF o \in ToRun THEN "queued" ELSE phase[o]]
    /\ runningOps' = runningOps + Cardinality(ToRun)
    /\ pc' = "pop"
    /\ UNCHANGED <<graph, deps, pendingVars, readyVars, fastVars, exception, runVars>>

DepsLeft == [o \in AllOps |-> deps[o] - Cardinality(readyVars \cap Inputs(o))]

Released(o) == o \in Live /\ readyVars \cap Inputs(o) # {} /\ DepsLeft[o] = 0

PopAll ==
    /\ kind = "threaded" /\ pc = "pop" /\ readyVars # {}
    /\ pendingVars' = pendingVars \ readyVars
    /\ readyVars' = {}
    /\ deps' = DepsLeft
    /\ phase' = [o \in AllOps |->
                    IF ~Released(o) THEN phase[o]
                    ELSE IF o \in Delayed /\ allowDelay THEN "delayed" ELSE "ready"]
    /\ pc' = "run"
    /\ UNCHANGED <<graph, runningOps, fastVars, exception, runVars>>

PopTimeout ==
    /\ kind = "threaded" /\ pc = "pop" /\ readyVars = {}
    /\ pc' = IF exception = "none" THEN "run" ELSE "drain"
    /\ UNCHANGED <<graph, phase, deps, threadedVars, fastVars, exception, runVars>>

(* Faulty variant: only running operators are waited for. *)
FuturesDone_NotQueued == Busy = {}

FuturesDone == Busy = {} /\ At({"queued"}) = {}

ThreadedThrow ==
    /\ kind = "threaded" /\ pc = "drain"
    /\ FuturesDone
    /\ EndRun(exception)
    /\ UNCHANGED <<phase, threadedVars, fastVars, exception>>

ThreadedReturn ==
    /\ kind = "threaded" /\ pc = "run" /\ pendingVars = {}
    /\ EndRun("returned")
    /\ UNCHANGED <<phase, threadedVars, fastVars, exception>>

\* Run is over, running_ops_ is counted down; the outputs are not posted yet.
ThreadedOpEnds(o) ==
    /\ kind = "threaded" /\ phase[o] = "running"
    /\ phase' = [phase EXCEPT ![o] = "posting"]
    /\ runningOps' = runningOps - 1
    /\ UNCHANGED <<graph, pc, deps, pendingVars, readyVars, fastVars, exception, runVars>>

PostOutputs(o) ==
    /\ phase[o] = "posting"
    /\ phase' = [phase EXCEPT ![o] = "over"]
    /\ readyVars' = readyVars \cup Outputs(o)
    /\ UNCHANGED <<graph, pc, deps, pendingVars, runningOps, fastVars, exception, runVars>>

\* running_ops_ keeps counting an operator that raised.
ThreadedOpRaises(o, e) ==
    /\ kind = "threaded"
    /\ OpRaises(o, e)
    /\ phase' = [phase EXCEPT ![o] = "failed"]
    /\ UNCHANGED count

-----------------------------------------------------------------------------
(* FastThreadedSSAGraphExecutor *)

(* Faulty variant: inputs that are generated already are counted. *)
NotReadyInputs_All(S) == Cardinality(S)

NotReadyInputs(S) == Cardinality(S \cap Generated)

Bootstrap == {o \in Ops : NotReadyInputs(in[o]) = 0}

\* A task of the run before may still have to push: to a queue nobody reads.
FastBegin(f) ==
    /\ kind = "fast"
    /\ BeginRun(f)
    /\ pc' = "pop"
    /\ deps' = [o \in AllOps |-> NotReadyInputs(IF o = Fetch THEN f ELSE in[o])]
    /\ phase' = [o \in AllOps |-> IF o \in Bootstrap THEN "queued" ELSE "pending"]
    /\ count' = [o \in AllOps |-> 0]
    /\ todo' = [o \in AllOps |-> {}]
    /\ next' = [o \in AllOps |-> Nobody]
    /\ remaining' = Cardinality(Bootstrap)
    /\ completeQ' = << >> /\ numComplete' = 0 /\ toPop' = 0
    /\ UNCHANGED <<threadedVars, exception>>

FastOpEnds(o) ==
    /\ kind = "fast" /\ phase[o] = "running"
    /\ phase' = [phase EXCEPT ![o] = "notifying"]
    /\ count' = [count EXCEPT ![o] = @ + 1]
    /\ todo' = [todo EXCEPT ![o] = {p \in Outputs(o) \X Live : p[1] \in Inputs(p[2])}]
    /\ next' = [next EXCEPT ![o] = Nobody]
    /\ UNCHANGED <<graph, pc, deps, threadedVars, remaining, completeQ, numComplete, toPop,
                   exception, runVars>>

\* fetch_sub(1) == 1
IsLast(d) == d = 1

Notify(o) ==
    /\ phase[o] = "notifying"
    /\ \E p \in todo[o] :
        LET op == p[2]
            ready == IsLast(deps[op])
            async == ready /\ next[o] # Nobody
        IN  /\ todo' = [todo EXCEPT ![o] = @ \ {p}]
            /\ deps' = [deps EXCEPT ![op] = @ - 1]
            /\ next' = IF ready /\ ~async THEN [next EXCEPT ![o] = op] ELSE next
            /\ phase' = IF async THEN [phase EXCEPT ![op] = "queued"] ELSE phase
            /\ remaining' = IF async THEN remaining + 1 ELSE remaining
    /\ UNCHANGED <<graph, pc, threadedVars, count, completeQ, numComplete, toPop,
                   exception, runVars>>

\* The task goes on with the operator it found ready.
GoOn(o) ==
    /\ phase[o] = "notifying" /\ todo[o] = {} /\ next[o] # Nobody
    /\ phase' = [phase EXCEPT ![o] = "over", ![next[o]] = "running"]
    /\ count' = [count EXCEPT ![next[o]] = count[o]]
    /\ UNCHANGED <<graph, pc, deps, threadedVars, todo, next, remaining, completeQ,
                   numComplete, toPop, exception, runVars>>

FastOpRaises(o, e) ==
    /\ kind = "fast"
    /\ OpRaises(o, e)
    /\ phase' = [phase EXCEPT ![o] = "ending"]
    /\ count' = [count EXCEPT ![o] = -1]

EndTask(o) ==
    /\ \/ phase[o] = "ending"
       \/ phase[o] = "notifying" /\ todo[o] = {} /\ next[o] = Nobody
    /\ phase' = [phase EXCEPT ![o] = "pushing"]
    /\ remaining' = remaining - 1
    /\ UNCHANGED <<graph, pc, deps, threadedVars, count, todo, next, completeQ, numComplete,
                   toPop, exception, runVars>>

PushComplete(o) ==
    /\ phase[o] = "pushing"
    /\ phase' = [phase EXCEPT ![o] = IF count[o] = -1 THEN "failed" ELSE "over"]
    /\ completeQ' = IF pc = "idle" THEN completeQ ELSE Append(completeQ, count[o])
    /\ UNCHANGED <<graph, pc, deps, threadedVars, count, todo, next, remaining, numComplete,
                   toPop, exception, runVars>>

PopComplete ==
    /\ kind = "fast" /\ pc = "pop" /\ numComplete # Cardinality(Live)
    /\ completeQ # << >>
    /\ completeQ' = Tail(completeQ)
    /\ IF Head(completeQ) = -1
       THEN pc' = "check" /\ UNCHANGED numComplete
       ELSE numComplete' = numComplete + Head(completeQ) /\ UNCHANGED pc
    /\ UNCHANGED <<graph, phase, deps, threadedVars, count, todo, next, remaining, toPop,
                   exception, runVars>>

CheckRemaining ==
    /\ pc = "check" /\ remaining # 0
    /\ toPop' = remaining
    /\ pc' = "drain"
    /\ UNCHANGED <<graph, phase, deps, threadedVars, count, todo, next, remaining, completeQ,
                   numComplete, exception, runVars>>

DrainPop ==
    /\ kind = "fast" /\ pc = "drain" /\ completeQ # << >>
    /\ completeQ' = Tail(completeQ)
    /\ toPop' = toPop - 1
    /\ pc' = IF toPop = 1 THEN "check" ELSE "drain"
    /\ UNCHANGED <<graph, phase, deps, threadedVars, count, todo, next, remaining, numComplete,
                   exception, runVars>>

\* ReThrow leaves the exception in the holder, and Run does not clear it.
FastThrow ==
    /\ pc = "check" /\ remaining = 0
    /\ EndRun(exception)
    /\ UNCHANGED <<phase, threadedVars, fastVars, exception>>

FastReturn ==
    /\ kind = "fast" /\ pc = "pop" /\ numComplete = Cardinality(Live)
    /\ EndRun("returned")
    /\ UNCHANGED <<phase, threadedVars, fastVars, exception>>

-----------------------------------------------------------------------------
ExecInit ==
    /\ kind \in {"threaded", "fast"}
    /\ allowDelay \in (IF kind = "threaded" THEN BOOLEAN ELSE {FALSE})
    /\ in \in Graphs
    /\ fetched = {} /\ pc = "idle"
    /\ phase = [o \in AllOps |-> "pending"]
    /\ deps = [o \in AllOps |-> 0]
    /\ pendingVars = {} /\ readyVars = {} /\ runningOps = 0
    /\ count = [o \in AllOps |-> 0]
    /\ todo = [o \in AllOps |-> {}]
    /\ next = [o \in AllOps |-> Nobody]
    /\ remaining = 0 /\ completeQ = << >> /\ numComplete = 0 /\ toPop = 0
    /\ exception = "none" /\ raised = {} /\ outcome = "none" /\ threwBefore = FALSE
    /\ runs = 0 /\ failures = 0
    /\ dropCounter = 0 /\ scopes = FALSE

RunBegins ==
    \E f \in {{}} \cup {{v} : v \in Fetchable} : ThreadedBegin(f) \/ FastBegin(f)

MainStep ==
    \/ RunAllOps \/ PopAll \/ PopTimeout \/ ThreadedThrow \/ ThreadedReturn
    \/ PopComplete \/ CheckRemaining \/ DrainPop \/ FastThrow \/ FastReturn

OpRaisesSome(o) == \E e \in {"eof", "enforce"} : ThreadedOpRaises(o, e) \/ FastOpRaises(o, e)

PoolStep(o) ==
    \/ StartOp(o) \/ ThreadedOpEnds(o) \/ PostOutputs(o)
    \/ FastOpEnds(o) \/ Notify(o) \/ GoOn(o) \/ EndTask(o) \/ PushComplete(o)

ExecNext ==
    \/ RunBegins \/ MainStep
    \/ \E o \in AllOps : PoolStep(o) \/ OpRaisesSome(o)

\* The calling thread and the threads of the pool make progress.
ExecSpec ==
    /\ ExecInit /\ [][ExecNext]_execVars
    /\ WF_execVars(MainStep)
    /\ \A o \in AllOps : WF_execVars(PoolStep(o))

-----------------------------------------------------------------------------
(* Properties *)

\* Types; also: a dependency count is never below zero, the tasks left of the
\* fast executor stay within the operators, and the count of runs since the
\* scopes were dropped below num_iteration_per_drop_scope_.
ExecTypeOK ==
    /\ in \in Graphs /\ fetched \in SUBSET Vars
    /\ pc \in {"idle", "run", "pop", "drain", "check"}
    /\ phase \in [AllOps -> {"pending", "ready", "delayed", "queued", "running", "posting",
                             "notifying", "ending", "pushing", "over", "failed"}]
    /\ deps \in [AllOps -> 0..Cardinality(Vars)]
    /\ pendingVars \subseteq Vars \cup {FetchVar} /\ readyVars \subseteq Vars \cup {FetchVar}
    /\ runningOps \in 0..MaxRuns * Cardinality(AllOps)
    /\ remaining \in 0..Cardinality(AllOps) /\ toPop \in 0..Cardinality(AllOps)
    /\ numComplete \in 0..Cardinality(AllOps)
    /\ completeQ \in Seq(-1..Cardinality(AllOps))
    /\ exception \in {"none", "eof", "enforce"}
    /\ dropCounter \in 0..DropEvery - 1

OpFailed(o) == phase[o] = "failed" \/ (phase[o] \in {"ending", "pushing"} /\ count[o] = -1)
OpEnded(o) == phase[o] \in {"posting", "notifying", "pushing", "over"} /\ ~OpFailed(o)

Dag == INSTANCE DagRun WITH
    Ops <- AllOps,
    needs <- IF runs = 0 THEN << >>
             ELSE [o \in Live |-> {p \in Ops : Out[p] \cap Inputs(o) # {}}],
    started <- {o \in AllOps : phase[o] = "running" \/ OpEnded(o) \/ OpFailed(o)},
    ended <- {o \in AllOps : OpEnded(o)},
    failed <- {o \in AllOps : OpFailed(o)},
    mode <- IF pc = "idle" THEN "idle" ELSE "running"

\* Both executors implement DagRun: each operator runs once and after what it
\* depends on, Run returns only when all are done, and neither returns nor
\* throws while an operator is running (the scopes go away after it).
ImplementsDagRun == Dag!DagSpec

\* No operator is queued or running on local scopes that were dropped:
\* ScopeBufferedSSAGraphExecutor drops them after a run, also after one that
\* threw, so Run must leave no operator behind in the pool, and the next run
\* must make new scopes.
ScopesOutliveOps == At({"queued", "running"}) # {} => scopes

\* Run throws what its own operators raised, EnforceNotMet before EOFException.
\* The fast executor promises it only until it has thrown once, for it never
\* clears exception_.
HonestThrow ==
    outcome \in {"eof", "enforce"} /\ (kind = "threaded" \/ ~threwBefore) =>
        outcome = IF "enforce" \in raised THEN "enforce" ELSE "eof"

\* The fast executor never starts the fetch of a variable that no operator
\* generates; in the threaded one running_ops_ does not come back to zero
\* after an exception, and delayed operators then wait for ever.
Stalls ==
    \/ kind = "fast" /\ ~(fetched \subseteq Generated)
    \/ kind = "threaded" /\ allowDelay /\ threwBefore

\* Every run ends, apart from the two cases above.
RunEnds == (pc # "idle" /\ ~Stalls) ~> (pc = "idle")

\* "Returns: List: The fetched result list." (ParallelExecutor.run): every run
\* ends.
RunReturns == (pc # "idle") ~> (pc = "idle")
=============================================================================
