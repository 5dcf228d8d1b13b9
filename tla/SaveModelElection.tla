------------------------- MODULE SaveModelElection -------------------------
(***************************************************************************)
(* Who saves the model (RequestSaveModel of go/master/service.go).  The    *)
(* master approves one trainer and blocks the others for the duration the  *)
(* trainer asked for; a timer made by time.AfterFunc ends the block.       *)
(*                                                                         *)
(* Time is counted in ticks.  A timer fires at its tick or later: the      *)
(* goroutine that runs it still has to get Service.mu.                     *)
(***************************************************************************)
EXTENDS Integers, FiniteSets

CONSTANTS
    Trainers,    \* IDs of the trainers, none of them empty
    Durations,   \* values of SaveModelRequest.BlockDur, in ticks
    MaxTimers,   \* bound: timers alive at a time
    Nobody       \* the empty trainer ID

ASSUME ElectionAssumption ==
    /\ Nobody \notin Trainers
    /\ Durations \subseteq Nat
    /\ MaxTimers \in Nat

VARIABLES
    savingTrainer,  \* Service.savingTrainer
    timers,         \* timers[i]: ticks until timer i may fire, -1 when unused
    promise,        \* history: promise[t]: ticks the others are to be blocked
    again           \* history: a trainer asked again while it was saving

electionVars == <<savingTrainer, timers, promise, again>>

Slots == 1..MaxTimers

Unused(i) == timers[i] = -1

\* Faulty variant: the trainer that saves is not looked at.
Needs_Anyone(t) == savingTrainer \in Trainers \cup {Nobody}

\* The answer *need of RequestSaveModel.
Needs(t) == savingTrainer = Nobody \/ savingTrainer = t

\* time.AfterFunc(req.BlockDur, ...): the timers are interchangeable, the
\* first unused slot is taken.
AfterFunc(d) ==
    \E i \in Slots :
        /\ Unused(i) /\ \A j \in 1..(i - 1) : ~ Unused(j)
        /\ timers' = [timers EXCEPT ![i] = d]

RequestSaveModel(t, d) ==
    /\ Needs(t)
    /\ savingTrainer' = t
    /\ AfterFunc(d)
    /\ promise' = [promise EXCEPT ![t] = d]
    /\ again' = (again \/ savingTrainer = t)

\* Faulty variant: the closure only runs out, savingTrainer stays.
ClearSaving_KeepsTrainer(i) ==
    /\ timers[i] = 0
    /\ timers' = [timers EXCEPT ![i] = -1]
    /\ UNCHANGED <<savingTrainer, promise, again>>

\* The closure clears savingTrainer whoever it is by now.
ClearSaving(i) ==
    /\ timers[i] = 0
    /\ timers' = [timers EXCEPT ![i] = -1]
    /\ savingTrainer' = Nobody
    /\ UNCHANGED <<promise, again>>

Countdown(n) == IF n > 0 THEN n - 1 ELSE n

Tick ==
    /\ \/ \E i \in Slots : timers[i] > 0
       \/ \E t \in Trainers : promise[t] > 0
    /\ timers' = [i \in Slots |-> Countdown(timers[i])]
    /\ promise' = [t \in Trainers |-> Countdown(promise[t])]
    /\ UNCHANGED <<savingTrainer, again>>

ElectionInit ==
    /\ savingTrainer = Nobody
    /\ timers = [i \in Slots |-> -1]
    /\ promise = [t \in Trainers |-> 0]
    /\ again = FALSE

ElectionNext ==
    \/ \E t \in Trainers, d \in Durations : RequestSaveModel(t, d)
    \/ \E i \in Slots : ClearSaving(i)
    \/ Tick

ElectionSpec ==
    /\ ElectionInit
    /\ [][ElectionNext]_electionVars
    /\ WF_electionVars(Tick)
    /\ \A i \in Slots : WF_electionVars(ClearSaving(i))

----------------------------------------------------------------------------
(* Properties.                                                             *)

\* Types of the saving trainer, the timers and the histories.
ElectionTypeOK ==
    /\ savingTrainer \in Trainers \cup {Nobody}
    /\ timers \in [Slots -> Nat \cup {-1}]
    /\ promise \in [Trainers -> Nat]
    /\ again \in BOOLEAN

\* Two trainers never save the model at the same time: once RequestSaveModel
\* approves a request the others are refused for its BlockDur.
OneSaver ==
    \A t, u \in Trainers : promise[t] > 0 /\ promise[u] > 0 => t = u

\* OneSaver holds as long as no trainer asks again while it is saving.
OneSaverAskedOnce == ~ again => OneSaver

\* The approval of a trainer that died does not block the others for ever:
\* the closure of time.AfterFunc clears savingTrainer.
BlockEnds == []<>(savingTrainer = Nobody)
=============================================================================
