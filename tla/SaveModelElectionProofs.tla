----------------------- MODULE SaveModelElectionProofs -----------------------
(***************************************************************************)
(* Proofs about SaveModelElection for any number of trainers, durations    *)
(* and timers.  Until a trainer asks again, the only timer in use belongs  *)
(* to the trainer that saves and outlasts what it was promised.            *)
(***************************************************************************)
EXTENDS SaveModelElection, TLAPS

\* Nobody saves: every closure has run and no promise is open.
AtRest ==
    /\ \A i \in Slots : Unused(i)
    /\ \A t \in Trainers : promise[t] = 0

\* savingTrainer is guarded by one timer, which outlasts the promise made to
\* it; nobody else has one.
Guarded ==
    /\ \E i \in Slots :
        /\ ~ Unused(i) /\ \A j \in Slots \ {i} : Unused(j)
        /\ promise[savingTrainer] <= timers[i]
    /\ \A t \in Trainers \ {savingTrainer} : promise[t] = 0

\* The inductive invariant.
ElectionInv ==
    /\ ElectionTypeOK
    /\ ~ again => IF savingTrainer = Nobody THEN AtRest ELSE Guarded

\* The types hold initially and every step of RequestSaveModel, of its
\* closures and of time keeps them.
LEMMA ElectionTypes ==
    /\ ElectionInit => ElectionTypeOK
    /\ ElectionTypeOK /\ [ElectionNext]_electionVars => ElectionTypeOK'
<1> USE ElectionAssumption DEF Slots
<1>1. ASSUME ElectionInit
      PROVE  ElectionTypeOK
  <2>1. timers \in [Slots -> Nat \cup {-1}]
      BY <1>1 DEF ElectionInit
  <2>2. promise \in [Trainers -> Nat] /\ savingTrainer = Nobody
      BY <1>1 DEF ElectionInit
  <2>3. again \in BOOLEAN
      BY <1>1 DEF ElectionInit
  <2> QED
      BY <2>1, <2>2, <2>3 DEF ElectionTypeOK
<1>2. ASSUME ElectionTypeOK, [ElectionNext]_electionVars
      PROVE  ElectionTypeOK'
  <2>1. ASSUME NEW t \in Trainers, NEW d \in Durations, RequestSaveModel(t, d)
        PROVE  ElectionTypeOK'
      BY <1>2, <2>1 DEF ElectionTypeOK, RequestSaveModel, AfterFunc
  <2>2. ASSUME NEW i \in Slots, ClearSaving(i)
        PROVE  ElectionTypeOK'
      BY <1>2, <2>2 DEF ElectionTypeOK, ClearSaving
  <2>3. CASE Tick
      BY <1>2, <2>3 DEF ElectionTypeOK, Tick, Countdown
  <2>4. CASE UNCHANGED electionVars
      BY <1>2, <2>4 DEF ElectionTypeOK, electionVars
  <2> QED
      BY <1>2, <2>1, <2>2, <2>3, <2>4 DEF ElectionNext
<1> QED
    BY <1>1, <1>2

\* The first request after a rest takes a timer that covers its promise.
LEMMA RequestKeepsGuard ==
    ASSUME ElectionInv, NEW t \in Trainers, NEW d \in Durations,
           RequestSaveModel(t, d), ~ again'
    PROVE  savingTrainer' # Nobody /\ Guarded'
<1> USE ElectionAssumption DEF Slots
<1>1. savingTrainer = Nobody /\ AtRest /\ ElectionTypeOK /\ savingTrainer' = t
    BY DEF ElectionInv, RequestSaveModel, Needs, ElectionTypeOK
<1>2. PICK i \in Slots : timers' = [timers EXCEPT ![i] = d]
    BY DEF RequestSaveModel, AfterFunc
<1>3. timers'[i] = d /\ \A j \in Slots \ {i} : timers'[j] = -1
    BY <1>1, <1>2 DEF AtRest, Unused, ElectionTypeOK
<1>4. promise'[t] = d /\ \A u \in Trainers \ {t} : promise'[u] = 0
    BY <1>1 DEF AtRest, RequestSaveModel, ElectionTypeOK
<1>5. d \in Nat /\ d # -1
    OBVIOUS
<1> QED
    BY <1>1, <1>3, <1>4, <1>5 DEF Guarded, Unused

\* The closure that runs is the one of the trainer that saves, and by then
\* its promise has been kept.
LEMMA ClosureKeepsRest ==
    ASSUME ElectionInv, NEW i \in Slots, ClearSaving(i), ~ again'
    PROVE  savingTrainer' = Nobody /\ AtRest'
<1> USE ElectionAssumption DEF Slots
<1>1. ElectionTypeOK /\ ~ again /\ timers[i] = 0 /\ ~ Unused(i)
    BY DEF ElectionInv, ClearSaving, Unused
<1>2. savingTrainer # Nobody /\ Guarded
    BY <1>1 DEF ElectionInv, AtRest
<1>3. /\ \A j \in Slots \ {i} : Unused(j)
      /\ promise[savingTrainer] <= timers[i]
      /\ \A t \in Trainers \ {savingTrainer} : promise[t] = 0
    BY <1>1, <1>2 DEF Guarded
<1>4. \A t \in Trainers : promise[t] = 0
    BY <1>1, <1>2, <1>3 DEF ElectionTypeOK
<1> QED
    BY <1>1, <1>3, <1>4 DEF ClearSaving, AtRest, Unused, ElectionTypeOK

\* Time counts the timer and the promise down together.
LEMMA TickKeepsGuard ==
    ASSUME ElectionInv, Tick, ~ again'
    PROVE  IF savingTrainer' = Nobody THEN AtRest' ELSE Guarded'
<1> USE ElectionAssumption DEF Slots
<1>1. ElectionTypeOK /\ ~ again /\ savingTrainer' = savingTrainer
    BY DEF ElectionInv, Tick
<1>2. /\ \A i \in Slots : timers'[i] = Countdown(timers[i])
      /\ \A t \in Trainers : promise'[t] = Countdown(promise[t])
    BY DEF Tick
<1>3. Countdown(0) = 0 /\ Countdown(-1) = -1 /\ \A n \in Nat : Countdown(n) \in Nat
    BY DEF Countdown
<1>4. CASE savingTrainer = Nobody
    BY <1>1, <1>2, <1>3, <1>4 DEF ElectionInv, AtRest, Unused
<1>5. CASE savingTrainer # Nobody
  <2>1. PICK i \in Slots : /\ timers[i] \in Nat /\ \A j \in Slots \ {i} : timers[j] = -1
                           /\ promise[savingTrainer] <= timers[i]
      BY <1>1, <1>5 DEF ElectionInv, Guarded, Unused, ElectionTypeOK
  <2>2. savingTrainer \in Trainers /\ promise[savingTrainer] \in Nat
      BY <1>1, <1>5 DEF ElectionTypeOK
  <2>3. Countdown(promise[savingTrainer]) <= Countdown(timers[i])
      BY <2>1, <2>2 DEF Countdown
  <2>4. \A t \in Trainers \ {savingTrainer} : promise'[t] = 0
      BY <1>1, <1>2, <1>3, <1>5 DEF ElectionInv, Guarded
  <2>5. timers'[i] \in Nat /\ timers'[i] # -1 /\ \A j \in Slots \ {i} : timers'[j] = -1
      BY <1>2, <1>3, <2>1
  <2> QED
      BY <1>1, <1>2, <1>5, <2>2, <2>3, <2>4, <2>5 DEF Guarded, Unused
<1> QED
    BY <1>4, <1>5

\* The types of the election: what RequestSaveModel and its timers store.
THEOREM ElectionTypeCorrect == ElectionSpec => []ElectionTypeOK
<1> QED
    BY ElectionTypes, PTL DEF ElectionSpec

\* If no trainer asks again while it saves, two are never promised the model
\* at the same time, whatever the durations and however late the closures of
\* time.AfterFunc run.
THEOREM OneSaverAtATime == ElectionSpec => []OneSaverAskedOnce
<1>1. ElectionInit => ElectionInv
    BY ElectionTypes DEF ElectionInit, ElectionInv, AtRest, Unused
<1>2. ElectionInv /\ [ElectionNext]_electionVars => ElectionInv'
  <2> SUFFICES ASSUME ElectionInv, [ElectionNext]_electionVars, ~ again'
               PROVE  IF savingTrainer' = Nobody THEN AtRest' ELSE Guarded'
      BY ElectionTypes DEF ElectionInv
  <2>1. ASSUME NEW t \in Trainers, NEW d \in Durations, RequestSaveModel(t, d)
        PROVE  IF savingTrainer' = Nobody THEN AtRest' ELSE Guarded'
      BY <2>1, RequestKeepsGuard
  <2>2. ASSUME NEW i \in Slots, ClearSaving(i)
        PROVE  IF savingTrainer' = Nobody THEN AtRest' ELSE Guarded'
      BY <2>2, ClosureKeepsRest
  <2>3. CASE Tick
      BY <2>3, TickKeepsGuard
  <2>4. CASE UNCHANGED electionVars
      BY <2>4 DEF ElectionInv, electionVars, AtRest, Guarded, Unused
  <2> QED
      BY <2>1, <2>2, <2>3, <2>4 DEF ElectionNext
<1>3. ElectionInv => OneSaverAskedOnce
    BY DEF ElectionInv, OneSaverAskedOnce, OneSaver, AtRest, Guarded
<1> QED
    BY <1>1, <1>2, <1>3, PTL DEF ElectionSpec
=============================================================================
