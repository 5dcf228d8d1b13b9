-------------------------------- MODULE DagRun --------------------------------
(***************************************************************************)
(* What SSAGraphExecutor::Run promises, whatever the scheduling: in every  *)
(* run an operator starts at most once and only after the operators that   *)
(* generate its inputs have ended; a run returns when all of them have,    *)
(* and throws only for an operator that failed and when none is running.   *)
(***************************************************************************)
CONSTANT Ops

VARIABLES
    needs,      \* the operators of the run and what each of them waits for
    started, ended, failed,
    mode        \* "idle" or "running"

dagVars == <<needs, started, ended, failed, mode>>

DagInit ==
    /\ mode = "idle"
    /\ started = {} /\ ended = {} /\ failed = {}
    /\ needs = << >>

Begin ==
    /\ mode = "idle" /\ mode' = "running"
    /\ \E live \in SUBSET Ops : needs' \in [live -> SUBSET live]
    /\ started' = {} /\ ended' = {} /\ failed' = {}

Start(o) ==
    /\ mode = "running"
    /\ o \in DOMAIN needs \ started
    /\ needs[o] \subseteq ended
    /\ started' = started \cup {o}
    /\ UNCHANGED <<needs, ended, failed, mode>>

Finish(o) ==
    /\ o \in started \ (ended \cup failed)
    /\ \/ ended' = ended \cup {o} /\ failed' = failed
       \/ failed' = failed \cup {o} /\ ended' = ended
    /\ UNCHANGED <<needs, started, mode>>

Return ==
    /\ mode = "running" /\ mode' = "idle"
    /\ ended = DOMAIN needs
    /\ UNCHANGED <<needs, started, ended, failed>>

Throw ==
    /\ mode = "running" /\ mode' = "idle"
    /\ failed # {}
    /\ started = ended \cup failed
    /\ UNCHANGED <<needs, started, ended, failed>>

DagNext == Begin \/ Return \/ Throw \/ \E o \in Ops : Start(o) \/ Finish(o)

DagSpec == DagInit /\ [][DagNext]_dagVars
===============================================================================
