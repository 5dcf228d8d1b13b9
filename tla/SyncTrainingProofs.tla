-------------------------- MODULE SyncTrainingProofs --------------------------
(***************************************************************************)
(* Proofs about SyncTraining for any number of trainers, gradients, rounds  *)
(* and send threads, whoever leaves when: the server and the trainers run   *)
(* in lock step, and the optimize blocks merge exactly the gradients of     *)
(* their round.                                                             *)
(*                                                                          *)
(* The theorems assume that there is a dense gradient.  A trainer that has  *)
(* nothing to send (NeedSend drops a sparse gradient without rows) passes   *)
(* send_barrier_op at once, in the middle of the get phase, and LockStep    *)
(* does not hold without that assumption.                                   *)
(***************************************************************************)
EXTENDS SyncTraining, TLAPS, FiniteSetTheorems

N == Cardinality(Trainers)
Gone == {t \in Trainers : at[t] = "closed"}
Arrived == {t \in Trainers : at[t] = "get"}
Passed == {t \in Trainers : Fetched(t)}

\* The types, without the bounds that need the rest of the invariant.
Types ==
    /\ loop \in {"openGet", "waitGet", "reset", "openSend", "waitSend", "optimize", "clear"}
    /\ cond = (IF loop \in {"waitGet", "reset", "openSend"} THEN "Get" ELSE "Send")
    /\ counter \in [{"Send", "Get"} -> Int]
    /\ needReset \in BOOLEAN
    /\ recv \in [Grads -> [Trainers -> Rounds]]
    /\ version \in Nat
    /\ at \in [Trainers -> {"get", "reading", "fetched", "forward", "prefetching",
                            "saving", "saved", "backward", "send", "closed"}]
    /\ round \in [Trainers -> Rounds]
    /\ flying \in [Trainers -> SUBSET Grads]
    /\ gated \in [Trainers -> SUBSET Grads]
    /\ got \in [Trainers -> Rounds]
    /\ departure \in [Trainers -> {"none", "waitGet", "reset", "openSend", "waitSend"}]

\* Where the trainers can be in each phase of the server.
Places ==
    \A t \in Active :
        /\ loop \in {"optimize", "clear", "openGet"} => at[t] = "get"
        /\ loop \in {"reset", "openSend"} => Fetched(t)
        /\ loop = "waitSend" => at[t] = "get" \/ Fetched(t)

\* client_num_ is right; the get barrier never counts more trainers than have
\* fetched, nor loses more than have left; the send barrier is exact.
Counters ==
    /\ clientNum = Cardinality(Active)
    /\ 0 - Cardinality(Gone) <= counter["Get"]
    /\ IF loop \in {"waitGet", "reset"} THEN counter["Get"] <= Cardinality(Passed)
       ELSE counter["Get"] <= 0
    /\ counter["Send"] \in 0..N
    /\ loop = "openSend" => counter["Send"] = 0
    /\ loop = "waitSend" => counter["Send"] = Cardinality(Arrived)

\* A trainer is one round ahead of the parameters from its send on.
Ahead(t) == at[t] = "send" \/ (at[t] = "get" /\ loop \in {"waitSend", "optimize"})

RoundOf ==
    \A t \in Active :
        /\ round[t] = (IF Ahead(t) THEN version + 1 ELSE version)
        /\ at[t] \in {"prefetching", "backward"} => round[t] < MaxRounds
        /\ at[t] \in {"fetched", "forward", "saving", "saved", "prefetching", "backward"}
              => got[t] = round[t]

\* While nobody has left after the barrier, the parameters are of a round.
VersionOf == version \in Rounds /\ (loop = "optimize" => Active # {})

\* Gradients are on the way only for a trainer that waits for their answers;
\* while reads are served none of its dense ones is answered.
Unanswered ==
    \A t \in Trainers :
        /\ at[t] # "send" => flying[t] = {} /\ gated[t] = {}
        /\ at[t] = "send" /\ cond = "Get" => Dense \subseteq flying[t] \cup gated[t]

\* What lies in the receive scope.
HasSent(t) == at[t] = "send" \/ (at[t] = "get" /\ loop \in {"waitSend", "optimize", "clear"})

Received ==
    \A t \in Trainers :
        /\ \A g \in Sparse : recv[g][t] = 0 \/ (HasSent(t) /\ recv[g][t] = round[t])
        /\ HasSent(t) => \A g \in Dense \ flying[t] : recv[g][t] = round[t]

\* What is left of a trainer that left after the get barrier was reset.
Departed ==
    \A t \in Gone : departure[t] \notin {"waitGet", "reset"} =>
        \/ \A g \in Dense : recv[g][t] = 0
        \/ /\ needReset
           /\ \/ loop \in {"openSend", "waitSend", "optimize"} /\ round[t] = version
              \/ loop = "clear"

\* The inductive invariant.
SyncInv ==
    Types /\ Places /\ Counters /\ RoundOf /\ VersionOf /\ Unanswered /\ Received /\ Departed

-----------------------------------------------------------------------------
(* The sets of trainers and their sizes *)

FetchedPlaces == {"forward", "saving", "saved", "prefetching", "backward", "send"}
PlaceNames == {"get", "reading", "fetched", "forward", "prefetching",
               "saving", "saved", "backward", "send", "closed"}

LEMMA Sizes ==
    /\ IsFiniteSet(Active) /\ Cardinality(Active) \in Nat /\ Cardinality(Active) <= N
    /\ IsFiniteSet(Gone) /\ Cardinality(Gone) \in Nat /\ Cardinality(Gone) <= N
    /\ IsFiniteSet(Arrived) /\ Cardinality(Arrived) \in Nat /\ Cardinality(Arrived) <= N
    /\ IsFiniteSet(Passed) /\ Cardinality(Passed) \in Nat /\ Cardinality(Passed) <= N
    /\ N \in Nat
<1>1. /\ Active \in SUBSET Trainers /\ Gone \in SUBSET Trainers
      /\ Arrived \in SUBSET Trainers /\ Passed \in SUBSET Trainers
  BY DEF Active, Gone, Arrived, Passed
<1>2. IsFiniteSet(Trainers)
  BY SyncAssumption
<1>3. \A S \in SUBSET Trainers : IsFiniteSet(S) /\ Cardinality(S) \in Nat /\ Cardinality(S) <= N
  BY <1>2, FS_Subset, FS_CardinalityType DEF N
<1>4. Cardinality(Active) \in Nat /\ IsFiniteSet(Active) /\ Cardinality(Active) <= N
  BY <1>1, <1>3
<1>5. Cardinality(Gone) \in Nat /\ IsFiniteSet(Gone) /\ Cardinality(Gone) <= N
  BY <1>1, <1>3
<1>6. Cardinality(Arrived) \in Nat /\ IsFiniteSet(Arrived) /\ Cardinality(Arrived) <= N
  BY <1>1, <1>3
<1>7. Cardinality(Passed) \in Nat /\ IsFiniteSet(Passed) /\ Cardinality(Passed) <= N
  BY <1>1, <1>3
<1>8. N \in Nat
  BY <1>2, FS_CardinalityType DEF N
<1> QED
  BY <1>4, <1>5, <1>6, <1>7, <1>8

\* The sets of trainers when one of them moves on.
LEMMA Moved ==
    ASSUME Types, NEW t \in Trainers, NEW to \in PlaceNames, at' = [at EXCEPT ![t] = to]
    PROVE  /\ at' \in [Trainers -> PlaceNames] /\ at'[t] = to
           /\ \A u \in Trainers \ {t} : at'[u] = at[u]
           /\ Active' = IF to # "closed" THEN Active \cup {t} ELSE Active \ {t}
           /\ Gone' = IF to = "closed" THEN Gone \cup {t} ELSE Gone \ {t}
           /\ Arrived' = IF to = "get" THEN Arrived \cup {t} ELSE Arrived \ {t}
           /\ Passed' = IF to \in FetchedPlaces THEN Passed \cup {t} ELSE Passed \ {t}
<1>1. at \in [Trainers -> PlaceNames]
  BY DEF Types, PlaceNames
<1>2. at' \in [Trainers -> PlaceNames] /\ at'[t] = to /\ \A u \in Trainers \ {t} : at'[u] = at[u]
  BY <1>1
<1>3. Active' = IF to # "closed" THEN Active \cup {t} ELSE Active \ {t}
  BY <1>2 DEF Active
<1>4. Gone' = IF to = "closed" THEN Gone \cup {t} ELSE Gone \ {t}
  BY <1>2 DEF Gone
<1>5. Arrived' = IF to = "get" THEN Arrived \cup {t} ELSE Arrived \ {t}
  BY <1>2 DEF Arrived
<1>6. Passed' = IF to \in FetchedPlaces THEN Passed \cup {t} ELSE Passed \ {t}
  BY <1>2 DEF Passed, Fetched, FetchedPlaces
<1> QED
  BY <1>2, <1>3, <1>4, <1>5, <1>6

\* A move between two places of which neither is the gate or the end, and that
\* does not pass the fetch barrier.
LEMMA QuietMove ==
    ASSUME Types, NEW t \in Trainers, NEW to \in PlaceNames \ {"get", "closed"},
           at[t] \notin {"get", "closed"}, at[t] \in FetchedPlaces <=> to \in FetchedPlaces,
           at' = [at EXCEPT ![t] = to]
    PROVE  Active' = Active /\ Gone' = Gone /\ Arrived' = Arrived /\ Passed' = Passed
<1>1. /\ t \in Active /\ t \notin Gone /\ t \notin Arrived
      /\ t \in Passed <=> to \in FetchedPlaces
  BY DEF Active, Gone, Arrived, Passed, Fetched, FetchedPlaces
<1>2. /\ Active' = Active \cup {t} /\ Gone' = Gone \ {t} /\ Arrived' = Arrived \ {t}
      /\ Passed' = IF to \in FetchedPlaces THEN Passed \cup {t} ELSE Passed \ {t}
  BY Moved
<1> QED
  BY <1>1, <1>2

\* A barrier is passed only when every trainer that has not left is there.
LEMMA AllPassed ==
    ASSUME SyncInv, loop = "waitGet", WaitBarrier("Get")
    PROVE  Passed = Active
<1>1. Passed \in SUBSET Active
  BY DEF Passed, Active, Fetched
<1>2. Cardinality(Active) <= Cardinality(Passed)
  BY DEF SyncInv, Counters, WaitBarrier
<1>3. Cardinality(Active) = Cardinality(Passed)
  BY <1>1, <1>2, Sizes, FS_Subset
<1> QED
  BY <1>1, <1>3, Sizes, FS_Subset

LEMMA AllArrived ==
    ASSUME SyncInv, loop = "waitSend", WaitBarrier("Send")
    PROVE  Arrived = Active /\ Active # {}
<1>1. Arrived \in SUBSET Active
  BY DEF Arrived, Active
<1>2. Cardinality(Active) = Cardinality(Arrived) /\ Cardinality(Active) # 0
  BY DEF SyncInv, Counters, WaitBarrier
<1> QED
  BY <1>1, <1>2, Sizes, FS_Subset, FS_EmptySet

-----------------------------------------------------------------------------
(* The server's loop *)

LEMMA SameTrainers ==
    ASSUME UNCHANGED trainer
    PROVE  /\ Active' = Active /\ Gone' = Gone /\ Arrived' = Arrived /\ Passed' = Passed
           /\ \A t \in Trainers : Fetched(t)' <=> Fetched(t)
           /\ at' = at /\ round' = round /\ flying' = flying /\ gated' = gated /\ got' = got
           /\ departure' = departure
BY DEF trainer, Active, Gone, Arrived, Passed, Fetched

LEMMA OpenGetKeeps == ASSUME SyncInv, OpenGet PROVE SyncInv'
<1> USE DEF OpenGet, StepTo, SetCond
<1>1. /\ Active' = Active /\ Gone' = Gone /\ Arrived' = Arrived /\ Passed' = Passed
      /\ at' = at /\ round' = round /\ flying' = flying /\ gated' = gated /\ got' = got
      /\ departure' = departure
  BY SameTrainers
<1>2. /\ loop = "openGet" /\ loop' = "waitGet" /\ cond' = "Get"
      /\ counter' = counter /\ clientNum' = clientNum /\ needReset' = needReset
      /\ recv' = recv /\ version' = version
  OBVIOUS
<1>3. Types'
  BY <1>1, <1>2 DEF SyncInv, Types
<1>4. Places'
  BY <1>2 DEF Places
<1>5. Counters'
  BY <1>1, <1>2, Sizes DEF SyncInv, Counters, Types
<1>6. \A t \in Active : at[t] = "get"
  BY <1>2 DEF SyncInv, Places
<1>7. RoundOf'
  BY <1>1, <1>2, <1>6 DEF SyncInv, RoundOf, Ahead
<1>8. VersionOf'
  BY <1>1, <1>2 DEF SyncInv, VersionOf
<1>9. Unanswered'
  <2>1. \A t \in Trainers : at[t] # "send"
    BY <1>6 DEF Active
  <2> QED
    BY <2>1, <1>1, <1>2 DEF SyncInv, Unanswered
<1>10. Received'
  BY <1>1, <1>2 DEF SyncInv, Received, HasSent
<1>11. Departed'
  BY <1>1, <1>2 DEF SyncInv, Departed
<1> QED
  BY <1>3, <1>4, <1>5, <1>7, <1>8, <1>9, <1>10, <1>11 DEF SyncInv

LEMMA PassGetKeeps == ASSUME SyncInv, PassGet PROVE SyncInv'
<1> USE DEF PassGet, StepTo
<1>1. /\ Active' = Active /\ Gone' = Gone /\ Arrived' = Arrived /\ Passed' = Passed
      /\ at' = at /\ round' = round /\ flying' = flying /\ gated' = gated /\ got' = got
      /\ departure' = departure
  BY SameTrainers
<1>2. /\ loop = "waitGet" /\ loop' = "reset" /\ cond' = cond
      /\ counter' = counter /\ clientNum' = clientNum /\ needReset' = needReset
      /\ recv' = recv /\ version' = version
  OBVIOUS
<1>3. Types'
  BY <1>1, <1>2 DEF SyncInv, Types
<1>4. Places'
  <2>1. \A t \in Active : Fetched(t)
    BY AllPassed DEF Passed
  <2> QED
    BY <2>1, <1>1, <1>2 DEF Places, Fetched
<1>5. Counters'
  BY <1>1, <1>2, Sizes DEF SyncInv, Counters, Types
<1>6. RoundOf'
  BY <1>1, <1>2 DEF SyncInv, RoundOf, Ahead
<1>7. VersionOf'
  BY <1>1, <1>2 DEF SyncInv, VersionOf
<1>8. Unanswered'
  BY <1>1, <1>2 DEF SyncInv, Unanswered
<1>9. Received'
  BY <1>1, <1>2 DEF SyncInv, Received, HasSent
<1>10. Departed'
  BY <1>1, <1>2 DEF SyncInv, Departed
<1> QED
  BY <1>3, <1>4, <1>5, <1>6, <1>7, <1>8, <1>9, <1>10 DEF SyncInv

LEMMA ResetKeeps == ASSUME SyncInv, Reset PROVE SyncInv'
<1> USE DEF Reset, StepTo, ResetBarrierCounter
<1>1. /\ Active' = Active /\ Gone' = Gone /\ Arrived' = Arrived /\ Passed' = Passed
      /\ at' = at /\ round' = round /\ flying' = flying /\ gated' = gated /\ got' = got
      /\ departure' = departure
  BY SameTrainers
<1>2. /\ loop = "reset" /\ loop' = "openSend" /\ cond' = cond
      /\ counter' = [rpc \in {"Send", "Get"} |-> 0] /\ clientNum' = clientNum /\ needReset' = FALSE
      /\ recv' = recv /\ version' = version
  OBVIOUS
<1>3. Types'
  <2>1. counter' \in [{"Send", "Get"} -> Int]
    BY <1>2
  <2> QED
    BY <2>1, <1>1, <1>2 DEF SyncInv, Types
<1>4. Places'
  BY <1>1, <1>2 DEF SyncInv, Places, Fetched
<1>5. Counters'
  BY <1>1, <1>2, Sizes DEF SyncInv, Counters, Types
<1>6. RoundOf'
  BY <1>1, <1>2 DEF SyncInv, RoundOf, Ahead
<1>7. VersionOf'
  BY <1>1, <1>2 DEF SyncInv, VersionOf
<1>8. Unanswered'
  BY <1>1, <1>2 DEF SyncInv, Unanswered
<1>9. Received'
  BY <1>1, <1>2 DEF SyncInv, Received, HasSent
<1>10. Departed'
  BY <1>1, <1>2 DEF SyncInv, Departed
<1> QED
  BY <1>3, <1>4, <1>5, <1>6, <1>7, <1>8, <1>9, <1>10 DEF SyncInv

LEMMA OpenSendKeeps == ASSUME SyncInv, OpenSend PROVE SyncInv'
<1> USE DEF OpenSend, StepTo, SetCond
<1>1. /\ Active' = Active /\ Gone' = Gone /\ Arrived' = Arrived /\ Passed' = Passed
      /\ at' = at /\ round' = round /\ flying' = flying /\ gated' = gated /\ got' = got
      /\ departure' = departure
  BY SameTrainers
<1>2. /\ loop = "openSend" /\ loop' = "waitSend" /\ cond' = "Send"
      /\ counter' = counter /\ clientNum' = clientNum /\ needReset' = needReset
      /\ recv' = recv /\ version' = version
  OBVIOUS
<1>3. \A t \in Trainers : at[t] # "get"
  BY <1>2 DEF SyncInv, Places, Active, Fetched
<1>4. Types'
  BY <1>1, <1>2 DEF SyncInv, Types
<1>5. Places'
  BY <1>1, <1>2 DEF SyncInv, Places, Fetched
<1>6. Counters'
  <2>1. Arrived = {}
    BY <1>3 DEF Arrived
  <2> QED
    BY <2>1, <1>1, <1>2, Sizes, FS_EmptySet DEF SyncInv, Counters, Types
<1>7. RoundOf'
  BY <1>1, <1>2, <1>3 DEF SyncInv, RoundOf, Ahead, Active
<1>8. VersionOf'
  BY <1>1, <1>2 DEF SyncInv, VersionOf
<1>9. Unanswered'
  BY <1>1, <1>2 DEF SyncInv, Unanswered
<1>10. Received'
  BY <1>1, <1>2, <1>3 DEF SyncInv, Received, HasSent
<1>11. Departed'
  BY <1>1, <1>2 DEF SyncInv, Departed
<1> QED
  BY <1>4, <1>5, <1>6, <1>7, <1>8, <1>9, <1>10, <1>11 DEF SyncInv

LEMMA PassSendKeeps == ASSUME SyncInv, PassSend PROVE SyncInv'
<1> USE DEF PassSend, StepTo
<1>1. /\ Active' = Active /\ Gone' = Gone /\ Arrived' = Arrived /\ Passed' = Passed
      /\ at' = at /\ round' = round /\ flying' = flying /\ gated' = gated /\ got' = got
      /\ departure' = departure
  BY SameTrainers
<1>2. /\ loop = "waitSend" /\ loop' = "optimize" /\ cond' = cond
      /\ counter' = counter /\ clientNum' = clientNum /\ needReset' = needReset
      /\ recv' = recv /\ version' = version
  OBVIOUS
<1>3. Active # {} /\ \A t \in Active : at[t] = "get"
  BY AllArrived DEF Arrived
<1>4. Types'
  BY <1>1, <1>2 DEF SyncInv, Types
<1>5. Places'
  BY <1>1, <1>2, <1>3 DEF Places
<1>6. Counters'
  BY <1>1, <1>2, Sizes DEF SyncInv, Counters, Types
<1>7. RoundOf'
  BY <1>1, <1>2 DEF SyncInv, RoundOf, Ahead
<1>8. VersionOf'
  BY <1>1, <1>2, <1>3 DEF SyncInv, VersionOf
<1>9. Unanswered'
  BY <1>1, <1>2 DEF SyncInv, Unanswered
<1>10. Received'
  BY <1>1, <1>2 DEF SyncInv, Received, HasSent
<1>11. Departed'
  BY <1>1, <1>2 DEF SyncInv, Departed
<1> QED
  BY <1>4, <1>5, <1>6, <1>7, <1>8, <1>9, <1>10, <1>11 DEF SyncInv

LEMMA OptimizeKeeps == ASSUME SyncInv, Optimize PROVE SyncInv'
<1> USE DEF Optimize, StepTo
<1>1. /\ Active' = Active /\ Gone' = Gone /\ Arrived' = Arrived /\ Passed' = Passed
      /\ at' = at /\ round' = round /\ flying' = flying /\ gated' = gated /\ got' = got
      /\ departure' = departure
  BY SameTrainers
<1>2. /\ loop = "optimize" /\ loop' = "clear" /\ cond' = cond
      /\ counter' = counter /\ clientNum' = clientNum /\ needReset' = needReset
      /\ recv' = recv /\ version' = version + 1
  OBVIOUS
<1>3. \A t \in Active : at[t] = "get"
  BY <1>2 DEF SyncInv, Places
<1>4. Types'
  BY <1>1, <1>2 DEF SyncInv, Types
<1>5. Places'
  BY <1>1, <1>2 DEF SyncInv, Places, Fetched
<1>6. Counters'
  BY <1>1, <1>2, Sizes DEF SyncInv, Counters, Types
<1>7. RoundOf'
  BY <1>1, <1>2, <1>3 DEF SyncInv, RoundOf, Ahead, Types
<1>8. VersionOf'
  <2>1. PICK t \in Active : TRUE
    BY <1>2 DEF SyncInv, VersionOf
  <2>2. round[t] = version + 1 /\ round[t] \in Rounds
    BY <2>1, <1>2, <1>3 DEF SyncInv, RoundOf, Ahead, Types, Active
  <2> QED
    BY <2>2, <1>1, <1>2 DEF VersionOf
<1>9. Unanswered'
  BY <1>1, <1>2 DEF SyncInv, Unanswered
<1>10. Received'
  BY <1>1, <1>2 DEF SyncInv, Received, HasSent
<1>11. Departed'
  BY <1>1, <1>2 DEF SyncInv, Departed
<1> QED
  BY <1>4, <1>5, <1>6, <1>7, <1>8, <1>9, <1>10, <1>11 DEF SyncInv

LEMMA ResetReceivedKeeps == ASSUME SyncInv, ResetReceivedVars PROVE SyncInv'
<1> USE DEF ResetReceivedVars, StepTo
<1>1. /\ Active' = Active /\ Gone' = Gone /\ Arrived' = Arrived /\ Passed' = Passed
      /\ at' = at /\ round' = round /\ flying' = flying /\ gated' = gated /\ got' = got
      /\ departure' = departure
  BY SameTrainers
<1>2. /\ loop = "clear" /\ loop' = "openGet" /\ cond' = cond
      /\ counter' = counter /\ clientNum' = clientNum /\ needReset' = needReset
      /\ recv' = Cleared /\ version' = version
  OBVIOUS
<1>3. /\ recv' \in [Grads -> [Trainers -> Rounds]]
      /\ \A g \in Grads, t \in Trainers :
            recv'[g][t] = IF g \in Sparse \/ needReset THEN 0 ELSE recv[g][t]
  <2>1. 0 \in Rounds /\ recv \in [Grads -> [Trainers -> Rounds]]
    BY SyncAssumption DEF SyncInv, Types, Rounds
  <2>2. Zeros \in [Trainers -> Rounds] /\ \A t \in Trainers : Zeros[t] = 0
    BY <2>1 DEF Zeros
  <2> QED
    BY <1>2, <2>1, <2>2 DEF Cleared
<1>4. Types'
  BY <1>1, <1>2, <1>3 DEF SyncInv, Types
<1>5. Places'
  BY <1>1, <1>2 DEF SyncInv, Places, Fetched
<1>6. Counters'
  BY <1>1, <1>2, Sizes DEF SyncInv, Counters, Types
<1>7. RoundOf'
  BY <1>1, <1>2 DEF SyncInv, RoundOf, Ahead
<1>8. VersionOf'
  BY <1>1, <1>2 DEF SyncInv, VersionOf
<1>9. Unanswered'
  BY <1>1, <1>2 DEF SyncInv, Unanswered
<1>10. Received'
  <2>1. \A t \in Trainers : at[t] # "send"
    BY <1>2 DEF SyncInv, Places, Active
  <2> QED
    BY <2>1, <1>1, <1>2, <1>3 DEF Received, HasSent, Grads
<1>11. Departed'
  <2> SUFFICES ASSUME NEW t \in Gone, departure[t] \notin {"waitGet", "reset"}
               PROVE  \A g \in Dense : recv'[g][t] = 0
    BY <1>1 DEF Departed
  <2>1. t \in Trainers
    BY DEF Gone
  <2>2. needReset \/ \A g \in Dense : recv[g][t] = 0
    BY <1>2 DEF SyncInv, Departed
  <2> QED
    BY <2>1, <2>2, <1>3 DEF Grads
<1> QED
  BY <1>4, <1>5, <1>6, <1>7, <1>8, <1>9, <1>10, <1>11 DEF SyncInv

-----------------------------------------------------------------------------
(* The handlers of the send queue *)

LEMMA ReceiveGradKeeps ==
    ASSUME SyncInv, NEW t \in Trainers, NEW g \in Grads, ReceiveGrad(t, g)
    PROVE  SyncInv'
<1> USE DEF ReceiveGrad
<1>1. /\ loop' = loop /\ cond' = cond /\ counter' = counter /\ clientNum' = clientNum
      /\ needReset' = needReset /\ version' = version
      /\ at' = at /\ round' = round /\ got' = got /\ departure' = departure
  OBVIOUS
<1>2. Active' = Active /\ Gone' = Gone /\ Arrived' = Arrived /\ Passed' = Passed
  BY <1>1 DEF Active, Gone, Arrived, Passed, Fetched
<1>3. at[t] = "send" /\ t \notin Gone
  BY DEF SyncInv, Unanswered, Gone
<1>4. /\ flying' \in [Trainers -> SUBSET Grads] /\ gated' \in [Trainers -> SUBSET Grads]
      /\ flying'[t] = flying[t] \ {g} /\ gated'[t] = gated[t] \cup {g}
      /\ \A u \in Trainers \ {t} : flying'[u] = flying[u] /\ gated'[u] = gated[u]
  BY DEF SyncInv, Types
<1>5. /\ recv' \in [Grads -> [Trainers -> Rounds]]
      /\ recv'[g][t] = round[t]
      /\ \A h \in Grads, u \in Trainers : h # g \/ u # t => recv'[h][u] = recv[h][u]
  <2>1. round[t] \in Rounds /\ recv \in [Grads -> [Trainers -> Rounds]]
    BY DEF SyncInv, Types
  <2>2. recv' = [recv EXCEPT ![g][t] = round[t]]
    OBVIOUS
  <2>3. recv' \in [Grads -> [Trainers -> Rounds]]
    BY <2>1, <2>2
  <2> QED
    BY <2>1, <2>2, <2>3
<1> HIDE DEF ReceiveGrad
<1>6. Types'
  BY <1>1, <1>4, <1>5 DEF SyncInv, Types
<1>7. Places'
  BY <1>1, <1>2 DEF SyncInv, Places, Fetched
<1>8. Counters'
  BY <1>1, <1>2 DEF SyncInv, Counters
<1>9. RoundOf'
  BY <1>1, <1>2 DEF SyncInv, RoundOf, Ahead
<1>10. VersionOf'
  BY <1>1, <1>2 DEF SyncInv, VersionOf
<1>11. Unanswered'
  <2> SUFFICES ASSUME NEW u \in Trainers
               PROVE  /\ at[u] # "send" => flying'[u] = {} /\ gated'[u] = {}
                      /\ at[u] = "send" /\ cond = "Get" => Dense \subseteq flying'[u] \cup gated'[u]
    BY <1>1 DEF Unanswered
  <2>1. CASE u = t
    BY <2>1, <1>3, <1>4 DEF SyncInv, Unanswered
  <2>2. CASE u # t
    BY <2>2, <1>4 DEF SyncInv, Unanswered
  <2> QED
    BY <2>1, <2>2
<1>12. Received'
  <2>1. \A u \in Trainers : HasSent(u)' <=> HasSent(u)
    BY <1>1 DEF HasSent
  <2> SUFFICES ASSUME NEW u \in Trainers
               PROVE  /\ \A h \in Sparse : recv'[h][u] = 0 \/ (HasSent(u) /\ recv'[h][u] = round[u])
                      /\ HasSent(u) => \A h \in Dense \ flying'[u] : recv'[h][u] = round[u]
    BY <1>1, <2>1 DEF Received
  <2>2. HasSent(t)
    BY <1>3 DEF HasSent
  <2>3. CASE u = t
    BY <2>2, <2>3, <1>4, <1>5 DEF SyncInv, Received, Grads
  <2>4. CASE u # t
    BY <2>4, <1>4, <1>5 DEF SyncInv, Received, Grads
  <2> QED
    BY <2>3, <2>4
<1>13. Departed'
  <2> SUFFICES ASSUME NEW u \in Gone, departure[u] \notin {"waitGet", "reset"}
               PROVE  \/ \A h \in Dense : recv'[h][u] = 0
                      \/ /\ needReset
                         /\ \/ loop \in {"openSend", "waitSend", "optimize"} /\ round[u] = version
                            \/ loop = "clear"
    BY <1>1, <1>2 DEF Departed
  <2>1. u \in Trainers /\ u # t
    BY <1>3 DEF Gone
  <2> QED
    BY <2>1, <1>5 DEF SyncInv, Departed, Grads
<1> QED
  BY <1>6, <1>7, <1>8, <1>9, <1>10, <1>11, <1>12, <1>13 DEF SyncInv

LEMMA AnswerGradKeeps ==
    ASSUME SyncInv, NEW t \in Trainers, NEW g \in Grads, AnswerGrad(t, g)
    PROVE  SyncInv'
<1> USE DEF AnswerGrad, WaitCond, server
<1>1. /\ loop' = loop /\ cond' = cond /\ counter' = counter /\ clientNum' = clientNum
      /\ needReset' = needReset /\ recv' = recv /\ version' = version
      /\ at' = at /\ round' = round /\ flying' = flying /\ got' = got /\ departure' = departure
  OBVIOUS
<1>2. Active' = Active /\ Gone' = Gone /\ Arrived' = Arrived /\ Passed' = Passed
  BY <1>1 DEF Active, Gone, Arrived, Passed, Fetched
<1>3. cond = "Send"
  OBVIOUS
<1>4. /\ gated' \in [Trainers -> SUBSET Grads] /\ gated'[t] = gated[t] \ {g}
      /\ \A u \in Trainers \ {t} : gated'[u] = gated[u]
  BY DEF SyncInv, Types
<1> HIDE DEF AnswerGrad
<1>5. Types'
  BY <1>1, <1>4 DEF SyncInv, Types
<1>6. Places'
  BY <1>1, <1>2 DEF SyncInv, Places, Fetched
<1>7. Counters'
  BY <1>1, <1>2 DEF SyncInv, Counters
<1>8. RoundOf'
  BY <1>1, <1>2 DEF SyncInv, RoundOf, Ahead
<1>9. VersionOf'
  BY <1>1, <1>2 DEF SyncInv, VersionOf
<1>10. Unanswered'
  BY <1>1, <1>3, <1>4 DEF SyncInv, Unanswered
<1>11. Received'
  BY <1>1 DEF SyncInv, Received, HasSent
<1>12. Departed'
  BY <1>1, <1>2 DEF SyncInv, Departed
<1> QED
  BY <1>5, <1>6, <1>7, <1>8, <1>9, <1>10, <1>11, <1>12 DEF SyncInv

-----------------------------------------------------------------------------
(* The trainers *)

Busy == {"waitGet", "reset", "openSend", "waitSend"}

\* A trainer that is neither at the gate nor gone is seen only while the server
\* waits for it or is between its two barriers; before its fetch barrier, only
\* in the get phase.
LEMMA WhenBusy ==
    ASSUME SyncInv, NEW t \in Trainers, at[t] \notin {"get", "closed"}
    PROVE  loop \in Busy /\ (at[t] \in {"reading", "fetched"} => loop = "waitGet")
<1>1. t \in Active
  BY DEF Active
<1> QED
  BY <1>1 DEF SyncInv, Places, Types, Busy, Fetched

\* A step in which a trainer only reads and the server does not change.
LEMMA QuietKeeps ==
    ASSUME SyncInv, NEW t \in Trainers,
           NEW to \in {"reading", "fetched", "saving", "saved", "prefetching", "backward"},
           at' = [at EXCEPT ![t] = to],
           at[t] \notin {"closed", "send"}, at[t] = "get" => to = "reading" /\ loop = "waitGet",
           at[t] \in FetchedPlaces <=> to \in FetchedPlaces,
           UNCHANGED <<server, round, flying, gated, departure>>,
           got' \in [Trainers -> Rounds], \A u \in Trainers \ {t} : got'[u] = got[u],
           to # "reading" => got'[t] = round[t],
           to \in {"prefetching", "backward"} => round[t] < MaxRounds
    PROVE  SyncInv'
<1>1. /\ loop' = loop /\ cond' = cond /\ counter' = counter /\ clientNum' = clientNum
      /\ needReset' = needReset /\ recv' = recv /\ version' = version
      /\ round' = round /\ flying' = flying /\ gated' = gated /\ departure' = departure
  BY DEF server
<1>2. to \in PlaceNames /\ Types
  BY DEF SyncInv, PlaceNames
<1>3. /\ at' \in [Trainers -> PlaceNames] /\ at'[t] = to
      /\ \A u \in Trainers \ {t} : at'[u] = at[u]
  BY <1>2, Moved
<1>4. /\ Active' = Active /\ Gone' = Gone /\ Passed' = Passed
      /\ loop = "waitSend" => Arrived' = Arrived
  <2>1. CASE at[t] = "get"
    <3>1. t \in Active /\ t \notin Gone /\ t \notin Passed
      BY <2>1 DEF Active, Gone, Passed, Fetched
    <3>2. /\ Active' = Active \cup {t} /\ Gone' = Gone \ {t} /\ Passed' = Passed \ {t}
      BY <2>1, <1>2, Moved DEF FetchedPlaces
    <3> QED
      BY <3>1, <3>2, <2>1
  <2>2. CASE at[t] # "get"
    <3>1. to \in PlaceNames \ {"get", "closed"}
      BY <1>2
    <3>2. Active' = Active /\ Gone' = Gone /\ Arrived' = Arrived /\ Passed' = Passed
      BY <2>2, <3>1, <1>2, QuietMove
    <3> QED
      BY <3>2
  <2> QED
    BY <2>1, <2>2
<1>5. loop \in Busy /\ (at[t] \in {"reading", "fetched"} => loop = "waitGet")
  BY WhenBusy DEF Busy
<1>6. t \in Active /\ flying[t] = {} /\ gated[t] = {} /\ ~ HasSent(t)
  BY DEF SyncInv, Active, Unanswered, HasSent
<1>7. Types'
  BY <1>1, <1>3 DEF SyncInv, Types, PlaceNames
<1>8. Places'
  <2> SUFFICES ASSUME NEW u \in Active
               PROVE  /\ loop \in {"optimize", "clear", "openGet"} => at'[u] = "get"
                      /\ loop \in {"reset", "openSend"} => at'[u] \in FetchedPlaces
                      /\ loop = "waitSend" => at'[u] = "get" \/ at'[u] \in FetchedPlaces
    BY <1>1, <1>4 DEF Places, Fetched, FetchedPlaces
  <2>1. u \in Trainers
    BY DEF Active
  <2>2. CASE u = t
    BY <2>2, <1>3, <1>5 DEF SyncInv, Places, Fetched, FetchedPlaces, Busy
  <2>3. CASE u # t
    BY <2>1, <2>3, <1>3 DEF SyncInv, Places, Fetched, FetchedPlaces
  <2> QED
    BY <2>2, <2>3
<1>9. Counters'
  BY <1>1, <1>4 DEF SyncInv, Counters
<1>10. RoundOf'
  <2>1. \A u \in Active \ {t} :
            /\ u \in Trainers /\ at'[u] = at[u] /\ got'[u] = got[u]
            /\ Ahead(u)' <=> Ahead(u)
    BY <1>1, <1>3 DEF Ahead, Active
  <2>2. ~ Ahead(t) /\ ~ Ahead(t)'
    BY <1>1, <1>3 DEF Ahead
  <2>3. round[t] = version
    BY <1>6, <2>2 DEF SyncInv, RoundOf
  <2> SUFFICES ASSUME NEW u \in Active
               PROVE  /\ round[u] = (IF Ahead(u)' THEN version + 1 ELSE version)
                      /\ at'[u] \in {"prefetching", "backward"} => round[u] < MaxRounds
                      /\ at'[u] \in {"fetched", "forward", "saving", "saved",
                                     "prefetching", "backward"} => got'[u] = round[u]
    BY <1>1, <1>4 DEF RoundOf
  <2>4. CASE u = t
    BY <2>2, <2>3, <2>4, <1>3
  <2>5. CASE u # t
    BY <2>1, <2>5 DEF SyncInv, RoundOf
  <2> QED
    BY <2>4, <2>5
<1>11. VersionOf'
  BY <1>1, <1>4 DEF SyncInv, VersionOf
<1>12. Unanswered'
  BY <1>1, <1>3, <1>6 DEF SyncInv, Unanswered
<1>13. Received'
  <2>1. ~ HasSent(t)'
    BY <1>3 DEF HasSent
  <2>2. \A u \in Trainers \ {t} : HasSent(u)' <=> HasSent(u)
    BY <1>1, <1>3 DEF HasSent
  <2> QED
    BY <1>1, <1>6, <2>1, <2>2 DEF SyncInv, Received
<1>14. Departed'
  BY <1>1, <1>4 DEF SyncInv, Departed
<1> QED
  BY <1>7, <1>8, <1>9, <1>10, <1>11, <1>12, <1>13, <1>14 DEF SyncInv

LEMMA ReadingKeeps ==
    ASSUME SyncInv, NEW t \in Trainers,
           \/ GetStart(t) \/ GetEnd(t) \/ CheckpointStart(t) \/ CheckpointEnd(t)
           \/ PrefetchStart(t) \/ PrefetchEnd(t)
    PROVE  SyncInv'
<1> USE DEF Goto
<1>1. /\ got \in [Trainers -> Rounds] /\ version \in Rounds
      /\ at[t] # "closed" => t \in Active
  BY DEF SyncInv, Types, VersionOf, Active
<1>2. CASE GetStart(t)
  <2>1. loop = "waitGet"
    BY <1>1, <1>2 DEF GetStart, WaitCond, SyncInv, Types, Places, Fetched
  <2> QED
    BY <2>1, <1>1, <1>2, QuietKeeps DEF GetStart, FetchedPlaces
<1>3. CASE GetEnd(t)
  <2>1. round[t] = version
    BY <1>1, <1>3 DEF GetEnd, SyncInv, RoundOf, Ahead
  <2>2. got' \in [Trainers -> Rounds] /\ got'[t] = version /\ \A u \in Trainers \ {t} : got'[u] = got[u]
    BY <1>1, <1>3 DEF GetEnd
  <2>3. at[t] = "reading" /\ at' = [at EXCEPT ![t] = "fetched"]
        /\ UNCHANGED <<server, round, flying, gated, departure>>
    BY <1>3 DEF GetEnd
  <2> QED
    BY <2>1, <2>2, <2>3, QuietKeeps DEF FetchedPlaces
<1>4. CASE CheckpointStart(t)
  <2>1. got[t] = round[t]
    BY <1>1, <1>4 DEF CheckpointStart, SyncInv, RoundOf
  <2> QED
    BY <2>1, <1>1, <1>4, QuietKeeps DEF CheckpointStart, FetchedPlaces
<1>5. CASE CheckpointEnd(t)
  <2>1. got[t] = round[t]
    BY <1>1, <1>5 DEF CheckpointEnd, SyncInv, RoundOf
  <2> QED
    BY <2>1, <1>1, <1>5, QuietKeeps DEF CheckpointEnd, FetchedPlaces
<1>6. CASE PrefetchStart(t)
  <2>1. got[t] = round[t]
    BY <1>1, <1>6 DEF PrefetchStart, SyncInv, RoundOf
  <2> QED
    BY <2>1, <1>1, <1>6, QuietKeeps DEF PrefetchStart, FetchedPlaces
<1>7. CASE PrefetchEnd(t)
  <2>1. got[t] = round[t] /\ round[t] < MaxRounds
    BY <1>1, <1>7 DEF PrefetchEnd, SyncInv, RoundOf
  <2> QED
    BY <2>1, <1>1, <1>7, QuietKeeps DEF PrefetchEnd, FetchedPlaces
<1> QED
  BY <1>2, <1>3, <1>4, <1>5, <1>6, <1>7

LEMMA FetchBarrierKeeps == ASSUME SyncInv, NEW t \in Trainers, FetchBarrier(t) PROVE SyncInv'
<1> USE DEF FetchBarrier, Goto, IncreaseBatchBarrier
<1>1. /\ loop' = loop /\ cond' = cond /\ clientNum' = clientNum
      /\ needReset' = needReset /\ recv' = recv /\ version' = version
      /\ round' = round /\ flying' = flying /\ gated' = gated /\ got' = got
      /\ departure' = departure
  OBVIOUS
<1>2. at[t] = "fetched" /\ at' = [at EXCEPT ![t] = "forward"] /\ "forward" \in PlaceNames /\ Types
  BY DEF SyncInv, PlaceNames
<1>3. loop = "waitGet" /\ t \in Active
  BY <1>2, WhenBusy DEF Active
<1>4. /\ at' \in [Trainers -> PlaceNames] /\ at'[t] = "forward"
      /\ \A u \in Trainers \ {t} : at'[u] = at[u]
  BY <1>2, Moved
<1>5. /\ Active' = Active /\ Gone' = Gone /\ Passed' = Passed \cup {t} /\ t \notin Passed
  <2>1. t \notin Gone /\ t \notin Passed
    BY <1>2 DEF Gone, Passed, Fetched
  <2>2. Active' = Active \cup {t} /\ Gone' = Gone \ {t} /\ Passed' = Passed \cup {t}
    BY <1>2, Moved DEF FetchedPlaces
  <2> QED
    BY <1>3, <2>1, <2>2
<1>6. /\ counter' \in [{"Send", "Get"} -> Int] /\ counter'["Send"] = counter["Send"]
      /\ counter["Get"] \in Int /\ counter'["Get"] = counter["Get"] + 1
  BY DEF SyncInv, Types
<1> HIDE DEF FetchBarrier, IncreaseBatchBarrier
<1>7. Types'
  BY <1>1, <1>4, <1>6 DEF SyncInv, Types, PlaceNames
<1>8. Places'
  BY <1>1, <1>3 DEF Places
<1>9. Counters'
  <2>1. Cardinality(Passed') = Cardinality(Passed) + 1
    BY <1>5, Sizes, FS_AddElement
  <2>2. /\ clientNum = Cardinality(Active) /\ 0 - Cardinality(Gone) <= counter["Get"]
        /\ counter["Get"] <= Cardinality(Passed) /\ counter["Send"] \in 0..N
    BY <1>3 DEF SyncInv, Counters
  <2>3. Cardinality(Passed)' = Cardinality(Passed')
    OBVIOUS
  <2> QED
    BY <2>1, <2>2, <2>3, <1>1, <1>3, <1>5, <1>6, Sizes DEF Counters, N
<1>10. RoundOf'
  <2>1. \A u \in Trainers : Ahead(u)' <=> Ahead(u)
    BY <1>1, <1>2, <1>4 DEF Ahead
  <2> SUFFICES ASSUME NEW u \in Active
               PROVE  /\ round[u] = (IF Ahead(u) THEN version + 1 ELSE version)
                      /\ at'[u] \in {"prefetching", "backward"} => round[u] < MaxRounds
                      /\ at'[u] \in {"fetched", "forward", "saving", "saved",
                                     "prefetching", "backward"} => got[u] = round[u]
    BY <1>1, <1>5, <2>1 DEF RoundOf, Active
  <2>2. CASE u = t
    BY <2>2, <1>2, <1>4 DEF SyncInv, RoundOf
  <2>3. CASE u # t
    BY <2>3, <1>4 DEF SyncInv, RoundOf, Active
  <2> QED
    BY <2>2, <2>3
<1>11. VersionOf'
  BY <1>1, <1>5 DEF SyncInv, VersionOf
<1>12. Unanswered'
  BY <1>1, <1>2, <1>4 DEF SyncInv, Unanswered
<1>13. Received'
  <2>1. \A u \in Trainers : HasSent(u)' <=> HasSent(u)
    BY <1>1, <1>2, <1>4 DEF HasSent
  <2> QED
    BY <1>1, <2>1 DEF SyncInv, Received
<1>14. Departed'
  BY <1>1, <1>5 DEF SyncInv, Departed
<1> QED
  BY <1>7, <1>8, <1>9, <1>10, <1>11, <1>12, <1>13, <1>14 DEF SyncInv

LEMMA SendGradsKeeps == ASSUME SyncInv, NEW t \in Trainers, SendGrads(t) PROVE SyncInv'
<1> USE DEF SendGrads, Goto, server
<1>1. /\ loop' = loop /\ cond' = cond /\ clientNum' = clientNum /\ counter' = counter
      /\ needReset' = needReset /\ recv' = recv /\ version' = version
      /\ gated' = gated /\ got' = got /\ departure' = departure
  OBVIOUS
<1>2. at[t] = "backward" /\ at' = [at EXCEPT ![t] = "send"] /\ "send" \in PlaceNames /\ Types
  BY DEF SyncInv, PlaceNames
<1>3. loop \in Busy /\ t \in Active /\ t \notin Gone
  BY <1>2, WhenBusy DEF Active, Gone
<1>4. /\ at' \in [Trainers -> PlaceNames] /\ at'[t] = "send"
      /\ \A u \in Trainers \ {t} : at'[u] = at[u]
  BY <1>2, Moved
<1>5. /\ Active' = Active /\ Gone' = Gone /\ Passed' = Passed /\ Arrived' = Arrived
  <2>1. "send" \in PlaceNames \ {"get", "closed"}
    BY DEF PlaceNames
  <2> QED
    BY <2>1, <1>2, QuietMove DEF FetchedPlaces
<1>6. round[t] = version /\ round[t] < MaxRounds
  BY <1>2, <1>3 DEF SyncInv, RoundOf, Ahead
<1>7. /\ round' \in [Trainers -> Rounds] /\ round'[t] = version + 1
      /\ \A u \in Trainers \ {t} : round'[u] = round[u]
  <2>1. round \in [Trainers -> Rounds] /\ version + 1 \in Rounds /\ round' = [round EXCEPT ![t] = @ + 1]
    BY <1>6, SyncAssumption DEF SyncInv, Types, Rounds
  <2> QED
    BY <2>1, <1>6
<1>8. /\ flying' \in [Trainers -> SUBSET Grads] /\ Dense \subseteq flying'[t]
      /\ \A u \in Trainers \ {t} : flying'[u] = flying[u]
  BY DEF SyncInv, Types, Grads
<1> HIDE DEF SendGrads
<1>9. Types'
  BY <1>1, <1>4, <1>7, <1>8 DEF SyncInv, Types, PlaceNames
<1>10. Places'
  <2> SUFFICES ASSUME NEW u \in Active
               PROVE  /\ loop \in {"optimize", "clear", "openGet"} => at'[u] = "get"
                      /\ loop \in {"reset", "openSend"} => at'[u] \in FetchedPlaces
                      /\ loop = "waitSend" => at'[u] = "get" \/ at'[u] \in FetchedPlaces
    BY <1>1, <1>5 DEF Places, Fetched, FetchedPlaces
  <2>1. CASE u = t
    BY <2>1, <1>3, <1>4 DEF FetchedPlaces, Busy
  <2>2. CASE u # t
    BY <2>2, <1>4 DEF SyncInv, Places, Fetched, FetchedPlaces, Active
  <2> QED
    BY <2>1, <2>2
<1>11. Counters'
  BY <1>1, <1>5 DEF SyncInv, Counters
<1>12. RoundOf'
  <2>1. \A u \in Active \ {t} :
            /\ u \in Trainers /\ at'[u] = at[u] /\ round'[u] = round[u]
            /\ Ahead(u)' <=> Ahead(u)
    BY <1>1, <1>4, <1>7 DEF Ahead, Active
  <2>2. Ahead(t)'
    BY <1>4 DEF Ahead
  <2> SUFFICES ASSUME NEW u \in Active
               PROVE  /\ round'[u] = (IF Ahead(u)' THEN version + 1 ELSE version)
                      /\ at'[u] \in {"prefetching", "backward"} => round'[u] < MaxRounds
                      /\ at'[u] \in {"fetched", "forward", "saving", "saved",
                                     "prefetching", "backward"} => got[u] = round'[u]
    BY <1>1, <1>5 DEF RoundOf
  <2>3. CASE u = t
    BY <2>2, <2>3, <1>4, <1>7
  <2>4. CASE u # t
    BY <2>1, <2>4 DEF SyncInv, RoundOf
  <2> QED
    BY <2>3, <2>4
<1>13. VersionOf'
  BY <1>1, <1>5 DEF SyncInv, VersionOf
<1>14. Unanswered'
  <2> SUFFICES ASSUME NEW u \in Trainers
               PROVE  /\ at'[u] # "send" => flying'[u] = {} /\ gated[u] = {}
                      /\ at'[u] = "send" /\ cond = "Get" => Dense \subseteq flying'[u] \cup gated[u]
    BY <1>1 DEF Unanswered
  <2>1. CASE u = t
    BY <2>1, <1>4, <1>8
  <2>2. CASE u # t
    BY <2>2, <1>4, <1>8 DEF SyncInv, Unanswered
  <2> QED
    BY <2>1, <2>2
<1>15. Received'
  <2>1. \A u \in Trainers \ {t} : HasSent(u)' <=> HasSent(u)
    BY <1>1, <1>4 DEF HasSent
  <2>2. ~ HasSent(t)
    BY <1>2 DEF HasSent
  <2> SUFFICES ASSUME NEW u \in Trainers
               PROVE  /\ \A h \in Sparse : recv[h][u] = 0 \/ (HasSent(u)' /\ recv[h][u] = round'[u])
                      /\ HasSent(u)' => \A h \in Dense \ flying'[u] : recv[h][u] = round'[u]
    BY <1>1 DEF Received
  <2>3. CASE u = t
    BY <2>2, <2>3, <1>8 DEF SyncInv, Received
  <2>4. CASE u # t
    BY <2>1, <2>4, <1>7, <1>8 DEF SyncInv, Received
  <2> QED
    BY <2>3, <2>4
<1>16. Departed'
  <2>1. \A u \in Gone : u \in Trainers \ {t} /\ round'[u] = round[u]
    BY <1>3, <1>7 DEF Gone
  <2> QED
    BY <1>1, <1>5, <2>1 DEF SyncInv, Departed
<1> QED
  BY <1>9, <1>10, <1>11, <1>12, <1>13, <1>14, <1>15, <1>16 DEF SyncInv

\* A trainer whose gradients are answered has them answered in the send phase.
LEMMA BatchBarrierKeeps ==
    ASSUME SyncInv, Dense # {}, NEW t \in Trainers, BatchBarrier(t)
    PROVE  SyncInv'
<1> USE DEF BatchBarrier, Goto, IncreaseBatchBarrier
<1>1. /\ loop' = loop /\ cond' = cond /\ clientNum' = clientNum
      /\ needReset' = needReset /\ recv' = recv /\ version' = version
      /\ round' = round /\ flying' = flying /\ gated' = gated /\ got' = got
      /\ departure' = departure
  OBVIOUS
<1>2. at[t] = "send" /\ at' = [at EXCEPT ![t] = "get"] /\ "get" \in PlaceNames /\ Types
  BY DEF SyncInv, PlaceNames
<1>3. t \in Active /\ loop = "waitSend"
  <2>1. flying[t] \cup gated[t] = {}
    BY DEF AllAnswered
  <2>2. cond # "Get"
    BY <1>2, <2>1 DEF SyncInv, Unanswered
  <2> QED
    BY <1>2, <2>2, WhenBusy DEF SyncInv, Types, Busy, Active
<1>4. /\ at' \in [Trainers -> PlaceNames] /\ at'[t] = "get"
      /\ \A u \in Trainers \ {t} : at'[u] = at[u]
  BY <1>2, Moved
<1>5. /\ Active' = Active /\ Gone' = Gone /\ Arrived' = Arrived \cup {t} /\ t \notin Arrived
  <2>1. t \notin Gone /\ t \notin Arrived
    BY <1>2 DEF Gone, Arrived
  <2>2. Active' = Active \cup {t} /\ Gone' = Gone \ {t} /\ Arrived' = Arrived \cup {t}
    BY <1>2, Moved
  <2> QED
    BY <1>3, <2>1, <2>2
<1>6. /\ counter' \in [{"Send", "Get"} -> Int] /\ counter'["Get"] = counter["Get"]
      /\ counter["Send"] \in Int /\ counter'["Send"] = counter["Send"] + 1
  BY DEF SyncInv, Types
<1>7. flying[t] = {} /\ gated[t] = {}
  BY DEF AllAnswered
<1> HIDE DEF BatchBarrier, IncreaseBatchBarrier
<1>8. Types'
  BY <1>1, <1>4, <1>6 DEF SyncInv, Types, PlaceNames
<1>9. Places'
  <2> SUFFICES ASSUME NEW u \in Active
               PROVE  at'[u] = "get" \/ at'[u] \in FetchedPlaces
    BY <1>1, <1>3, <1>5 DEF Places, Fetched, FetchedPlaces
  <2>1. CASE u = t
    BY <2>1, <1>4
  <2>2. CASE u # t
    BY <2>2, <1>3, <1>4 DEF SyncInv, Places, Fetched, FetchedPlaces, Active
  <2> QED
    BY <2>1, <2>2
<1>10. Counters'
  <2>1. Cardinality(Arrived)' = Cardinality(Arrived) + 1
    BY <1>5, Sizes, FS_AddElement
  <2>2. Cardinality(Arrived)' \in Nat /\ Cardinality(Arrived)' <= N
    <3>1. Arrived' \in SUBSET Trainers
      BY DEF Arrived
    <3> QED
      BY <3>1, SyncAssumption, FS_Subset, FS_CardinalityType DEF N
  <2>3. /\ clientNum = Cardinality(Active) /\ 0 - Cardinality(Gone) <= counter["Get"]
        /\ counter["Get"] <= 0 /\ counter["Send"] = Cardinality(Arrived)
    BY <1>3 DEF SyncInv, Counters
  <2> QED
    BY <2>1, <2>2, <2>3, <1>1, <1>3, <1>5, <1>6, Sizes DEF Counters, N
<1>11. RoundOf'
  <2>1. \A u \in Trainers : Ahead(u)' <=> Ahead(u)
    BY <1>1, <1>2, <1>3, <1>4 DEF Ahead
  <2> SUFFICES ASSUME NEW u \in Active
               PROVE  /\ round[u] = (IF Ahead(u) THEN version + 1 ELSE version)
                      /\ at'[u] \in {"prefetching", "backward"} => round[u] < MaxRounds
                      /\ at'[u] \in {"fetched", "forward", "saving", "saved",
                                     "prefetching", "backward"} => got[u] = round[u]
    BY <1>1, <1>5, <2>1 DEF RoundOf, Active
  <2>2. CASE u = t
    BY <2>2, <1>2, <1>4 DEF SyncInv, RoundOf
  <2>3. CASE u # t
    BY <2>3, <1>4 DEF SyncInv, RoundOf, Active
  <2> QED
    BY <2>2, <2>3
<1>12. VersionOf'
  BY <1>1, <1>5 DEF SyncInv, VersionOf
<1>13. Unanswered'
  BY <1>1, <1>4, <1>7 DEF SyncInv, Unanswered
<1>14. Received'
  <2>1. \A u \in Trainers : HasSent(u)' <=> HasSent(u)
    BY <1>1, <1>2, <1>3, <1>4 DEF HasSent
  <2> QED
    BY <1>1, <2>1 DEF SyncInv, Received
<1>15. Departed'
  BY <1>1, <1>5 DEF SyncInv, Departed
<1> QED
  BY <1>8, <1>9, <1>10, <1>11, <1>12, <1>13, <1>14, <1>15 DEF SyncInv

LEMMA CloseKeeps == ASSUME SyncInv, NEW t \in Trainers, Close(t) PROVE SyncInv'
<1> USE DEF Close, Goto, Complete
<1>1. /\ loop' = loop /\ cond' = cond /\ recv' = recv /\ version' = version
      /\ needReset' = TRUE /\ clientNum' = clientNum - 1
      /\ round' = round /\ flying' = flying /\ gated' = gated /\ got' = got
  OBVIOUS
<1>2. /\ at[t] \in {"forward", "saved"} /\ at' = [at EXCEPT ![t] = "closed"]
      /\ "closed" \in PlaceNames /\ Types
  BY DEF SyncInv, PlaceNames
<1>3. t \in Active /\ t \in Passed /\ t \notin Gone /\ t \notin Arrived /\ loop \in Busy
  BY <1>2, WhenBusy DEF Active, Passed, Fetched, Gone, Arrived
<1>4. /\ at' \in [Trainers -> PlaceNames] /\ at'[t] = "closed"
      /\ \A u \in Trainers \ {t} : at'[u] = at[u]
  BY <1>2, Moved
<1>5. /\ Active' = Active \ {t} /\ Gone' = Gone \cup {t}
      /\ Passed' = Passed \ {t} /\ Arrived' = Arrived
  <2>1. /\ Active' = Active \ {t} /\ Gone' = Gone \cup {t}
        /\ Passed' = Passed \ {t} /\ Arrived' = Arrived \ {t}
    BY <1>2, Moved DEF FetchedPlaces
  <2> QED
    BY <1>3, <2>1
<1>6. /\ departure' \in [Trainers -> {"none", "waitGet", "reset", "openSend", "waitSend"}]
      /\ departure'[t] = loop /\ \A u \in Trainers \ {t} : departure'[u] = departure[u]
  BY <1>3 DEF SyncInv, Types, Busy
<1>7. /\ counter' \in [{"Send", "Get"} -> Int] /\ counter'["Send"] = counter["Send"]
      /\ counter["Get"] \in Int
      /\ loop # "waitSend" => counter'["Get"] = counter["Get"] - 1
      /\ loop = "waitSend" => counter'["Get"] = counter["Get"]
  <2>1. counter \in [{"Send", "Get"} -> Int] /\ (cond = "Get" <=> loop # "waitSend")
    BY <1>3 DEF SyncInv, Types, Busy
  <2>2. counter' = IF cond = "Get" THEN [counter EXCEPT !["Get"] = @ - 1] ELSE counter
    BY DEF TakenBack
  <2> QED
    BY <2>1, <2>2
<1> HIDE DEF Close, Complete
<1>8. round[t] = version
  BY <1>2, <1>3 DEF SyncInv, RoundOf, Ahead
<1>9. Types'
  BY <1>1, <1>4, <1>6, <1>7 DEF SyncInv, Types, PlaceNames
<1>10. Places'
  <2>1. \A u \in Active' : u \in Active /\ at'[u] = at[u]
    BY <1>4, <1>5 DEF Active
  <2> QED
    BY <2>1, <1>1 DEF SyncInv, Places, Fetched
<1>11. Counters'
  <2>1. Cardinality(Active)' = Cardinality(Active) - 1
    BY <1>3, <1>5, Sizes, FS_RemoveElement
  <2>2. Cardinality(Passed)' = Cardinality(Passed) - 1
    BY <1>3, <1>5, Sizes, FS_RemoveElement
  <2>3. Cardinality(Gone)' = Cardinality(Gone) + 1
    BY <1>3, <1>5, Sizes, FS_AddElement
  <2>4. /\ clientNum = Cardinality(Active) /\ 0 - Cardinality(Gone) <= counter["Get"]
        /\ IF loop \in {"waitGet", "reset"} THEN counter["Get"] <= Cardinality(Passed)
           ELSE counter["Get"] <= 0
        /\ counter["Send"] \in 0..N
        /\ loop = "openSend" => counter["Send"] = 0
        /\ loop = "waitSend" => counter["Send"] = Cardinality(Arrived)
    BY DEF SyncInv, Counters
  <2>5. clientNum' = Cardinality(Active)'
    BY <2>1, <2>4, <1>1
  <2>6. 0 - Cardinality(Gone)' <= counter'["Get"]
    BY <2>3, <2>4, <1>7, Sizes
  <2>7. IF loop \in {"waitGet", "reset"} THEN counter'["Get"] <= Cardinality(Passed)'
        ELSE counter'["Get"] <= 0
    BY <2>2, <2>4, <1>7, Sizes
  <2> QED
    BY <2>4, <2>5, <2>6, <2>7, <1>1, <1>5, <1>7 DEF Counters, N
<1>12. RoundOf'
  <2>1. \A u \in Active' : u \in Active /\ at'[u] = at[u] /\ (Ahead(u)' <=> Ahead(u))
    BY <1>1, <1>4, <1>5 DEF Active, Ahead
  <2> SUFFICES ASSUME NEW u \in Active'
               PROVE  /\ round[u] = (IF Ahead(u)' THEN version + 1 ELSE version)
                      /\ at'[u] \in {"prefetching", "backward"} => round[u] < MaxRounds
                      /\ at'[u] \in {"fetched", "forward", "saving", "saved",
                                     "prefetching", "backward"} => got[u] = round[u]
    BY <1>1 DEF RoundOf
  <2> QED
    BY <2>1 DEF SyncInv, RoundOf
<1>13. VersionOf'
  BY <1>1, <1>3 DEF SyncInv, VersionOf, Busy
<1>14. Unanswered'
  BY <1>1, <1>2, <1>4 DEF SyncInv, Unanswered
<1>15. Received'
  <2>1. \A u \in Trainers : HasSent(u)' <=> HasSent(u)
    BY <1>1, <1>2, <1>4 DEF HasSent
  <2> QED
    BY <1>1, <2>1 DEF SyncInv, Received
<1>16. Departed'
  <2> SUFFICES ASSUME NEW u \in Gone \cup {t}, departure'[u] \notin {"waitGet", "reset"}
               PROVE  \/ \A g \in Dense : recv[g][u] = 0
                      \/ loop \in {"openSend", "waitSend", "optimize"} /\ round[u] = version
                      \/ loop = "clear"
    BY <1>1, <1>5 DEF Departed
  <2>1. CASE u = t
    BY <2>1, <1>3, <1>6, <1>8 DEF Busy
  <2>2. CASE u # t
    BY <2>2, <1>6 DEF SyncInv, Departed, Gone
  <2> QED
    BY <2>1, <2>2
<1> QED
  BY <1>9, <1>10, <1>11, <1>12, <1>13, <1>14, <1>15, <1>16 DEF SyncInv

-----------------------------------------------------------------------------
LEMMA SyncInitial == ASSUME SyncInit PROVE SyncInv
<1> USE DEF SyncInit
<1>1. 0 \in Rounds
  BY SyncAssumption DEF Rounds
<1>2. Active = Trainers /\ Gone = {} /\ Arrived = Trainers
  BY DEF Active, Gone, Arrived
<1>3. Types
  <2>1. counter \in [{"Send", "Get"} -> Int] /\ recv \in [Grads -> [Trainers -> Rounds]]
    BY <1>1
  <2> QED
    BY <1>1, <2>1 DEF Types
<1>4. Places
  BY DEF Places, Active
<1>5. Counters
  BY <1>2, Sizes, FS_EmptySet DEF Counters, N
<1>6. RoundOf
  BY DEF RoundOf, Active, Ahead
<1>7. VersionOf
  BY <1>1 DEF VersionOf
<1>8. Unanswered
  BY DEF Unanswered
<1>9. Received
  BY DEF Received, HasSent, Grads
<1>10. Departed
  BY <1>2 DEF Departed
<1> QED
  BY <1>3, <1>4, <1>5, <1>6, <1>7, <1>8, <1>9, <1>10 DEF SyncInv

LEMMA SyncStutter == ASSUME SyncInv, UNCHANGED syncVars PROVE SyncInv'
BY DEF syncVars, server, trainer, SyncInv, Types, Places, Counters, RoundOf, VersionOf,
       Unanswered, Received, Departed, Active, Gone, Arrived, Passed, Fetched, Ahead, HasSent

LEMMA SyncStep == ASSUME Dense # {}, SyncInv, [SyncNext]_syncVars PROVE SyncInv'
<1>1. CASE ServerStep
  BY <1>1, OpenGetKeeps, PassGetKeeps, ResetKeeps, OpenSendKeeps, PassSendKeeps,
     OptimizeKeeps, ResetReceivedKeeps DEF ServerStep
<1>2. ASSUME NEW t \in Trainers, HandlerStep(t) PROVE SyncInv'
  BY <1>2, ReceiveGradKeeps, AnswerGradKeeps DEF HandlerStep
<1>3. ASSUME NEW t \in Trainers, TrainerStep(t) PROVE SyncInv'
  BY <1>3, ReadingKeeps, FetchBarrierKeeps, SendGradsKeeps, BatchBarrierKeeps DEF TrainerStep
<1>4. ASSUME NEW t \in Trainers, Close(t) PROVE SyncInv'
  BY <1>4, CloseKeeps
<1>5. CASE UNCHANGED syncVars
  BY <1>5, SyncStutter
<1> QED
  BY <1>1, <1>2, <1>3, <1>4, <1>5 DEF SyncNext

LEMMA SyncInvHolds == ASSUME Dense # {} PROVE SyncSpec => []SyncInv
<1>1. SyncInit => SyncInv
  BY SyncInitial
<1>2. SyncInv /\ [SyncNext]_syncVars => SyncInv'
  BY SyncStep
<1> QED
  BY <1>1, <1>2, PTL DEF SyncSpec

-----------------------------------------------------------------------------
\* The types, and with them the bounds of the counters: a barrier counts at
\* most as many arrivals as there are trainers, whoever leaves in between, and
\* client_num_ (RPCServer::Complete) does not fall below zero.
THEOREM SyncTypeCorrect == ASSUME Dense # {} PROVE SyncSpec => []SyncTypeOK
<1>1. SyncInv => SyncTypeOK
  <2> SUFFICES ASSUME SyncInv PROVE SyncTypeOK
    OBVIOUS
  <2>1. counter["Get"] \in -N..N /\ counter["Send"] \in -N..N
    BY Sizes DEF SyncInv, Counters, Types
  <2>2. counter \in [{"Send", "Get"} -> -N..N]
    BY <2>1 DEF SyncInv, Types
  <2>3. clientNum \in 0..N
    BY Sizes DEF SyncInv, Counters
  <2> QED
    BY <2>2, <2>3 DEF SyncInv, Types, VersionOf, SyncTypeOK, N
<1> QED
  BY <1>1, SyncInvHolds, PTL

\* When RunSyncLoop runs the optimize blocks the receive scope holds, of every
\* trainer that has not left, exactly the gradients of this round.
THEOREM MergesTheRound == ASSUME Dense # {} PROVE SyncSpec => []FreshMerge
<1>1. SyncInv => FreshMerge
  <2> SUFFICES ASSUME SyncInv, loop = "optimize", NEW t \in Active
               PROVE  /\ \A g \in Dense : recv[g][t] = version + 1
                      /\ \A g \in Sparse : recv[g][t] \in {0, version + 1}
    BY DEF FreshMerge
  <2>1. at[t] = "get" /\ t \in Trainers
    BY DEF SyncInv, Places, Active
  <2>2. HasSent(t) /\ round[t] = version + 1 /\ flying[t] = {}
    BY <2>1 DEF HasSent, SyncInv, RoundOf, Ahead, Unanswered
  <2> QED
    BY <2>1, <2>2 DEF SyncInv, Received
<1> QED
  BY <1>1, SyncInvHolds, PTL

\* Reads of the parameters never overlap the optimize blocks, and a trainer
\* computes with the parameters of its own round (the gates of WaitCond).
THEOREM RunsInLockStep == ASSUME Dense # {} PROVE SyncSpec => []LockStep
<1>1. SyncInv => LockStep
  <2> SUFFICES ASSUME SyncInv PROVE LockStep
    OBVIOUS
  <2>1. ASSUME loop = "optimize", NEW t \in Trainers
        PROVE  at[t] \notin {"reading", "prefetching", "saving"}
    BY <2>1 DEF SyncInv, Places, Active
  <2>2. ASSUME NEW t \in Trainers,
               at[t] \in {"fetched", "forward", "saving", "saved", "prefetching", "backward"}
        PROVE  got[t] = round[t] /\ version = round[t]
    BY <2>2 DEF SyncInv, RoundOf, Ahead, Active
  <2> QED
    BY <2>1, <2>2 DEF LockStep
<1> QED
  BY <1>1, SyncInvHolds, PTL

\* A trainer that left while gradients were collected is merged at most once
\* more (ResetReceivedVars looks at need_reset_all_vars_ in the same round).
THEOREM DepartedAreForgotten == ASSUME Dense # {} PROVE SyncSpec => []DepartedForgotten
<1>1. SyncInv => DepartedForgotten
  <2> SUFFICES ASSUME SyncInv, loop = "optimize", NEW t \in Trainers \ Active
               PROVE  /\ \A g \in Sparse : recv[g][t] = 0
                      /\ \A g \in Dense : \/ recv[g][t] = 0
                                          \/ round[t] = version
                                          \/ departure[t] \in {"waitGet", "reset"}
    BY DEF DepartedForgotten
  <2>1. at[t] = "closed" /\ t \in Gone /\ ~ HasSent(t)
    BY DEF Active, Gone, HasSent
  <2>2. \A g \in Sparse : recv[g][t] = 0
    BY <2>1 DEF SyncInv, Received
  <2> QED
    BY <2>1, <2>2 DEF SyncInv, Departed
<1> QED
  BY <1>1, SyncInvHolds, PTL
=============================================================================
