------------------------- MODULE ParameterInitProofs -------------------------
(***************************************************************************)
(* Proofs about ParameterInit for any number of trainers, servers, deaths, *)
(* expired leases and etcd errors: the done key tells the truth about the  *)
(* servers that did not panic, and as long as no lease expires too early   *)
(* the handlers' test of the channel is never out of date.                 *)
(***************************************************************************)
EXTENDS ParameterInit, TLAPS

\* A server that serves has its parameters.
ServesStored == \A s \in Servers \ panicked : initialized[s] => updates[s] >= 0

\* How far a trainer has come in its loops over the servers.
LoopsDone ==
    \A t \in Trainers :
        /\ pc[t] \in {"select", "selected"} => at[t] = 1
        /\ pc[t] = "init" => \A s \in Servers \ panicked : s < at[t] => updates[s] >= 0
        /\ pc[t] \in {"finish", "done"} => \A s \in Servers \ panicked : updates[s] >= 0
        /\ pc[t] = "finish" => \A s \in Servers \ panicked : s < at[t] => initialized[s]
        /\ pc[t] = "done" => \A s \in Servers \ panicked : initialized[s]

\* A call of FinishInitParams whose trainer died comes after every InitParam.
OrphansStored ==
    \A o \in orphans : o.kind = "finish" => \A s \in Servers \ panicked : updates[s] >= 0

\* Only trainers that initialise call, and only panics lose calls.
CallsMade ==
    \A t \in Trainers :
        /\ call[t] # "new" => pc[t] \in {"init", "finish"}
        /\ call[t] = "lost" => at[t] \in panicked

\* Until a lease expires too early, whoever initialises holds the lock.
InitialiserHoldsLock ==
    expiries = 0 => \A t \in Trainers :
        pc[t] \in {"selected", "init", "finish", "done"} => lock = t

\* Until then the lock outlasts the calls of a dead trainer, and there is at
\* most one.
LockOutlastsOrphans ==
    expiries = 0 => \A o \in orphans : lock = Gone /\ orphans = {o}

\* Until then what a handler has seen of the channel is still true.
CheckIsCurrent ==
    expiries = 0 =>
        /\ \A t \in Trainers : call[t] = "open" => ~ initialized[at[t]]
        /\ \A o \in orphans : o.call = "open" => ~ initialized[o.server]

\* The inductive invariant.
InitInv ==
    /\ InitTypeOK
    /\ ServesStored
    /\ LoopsDone
    /\ OrphansStored
    /\ CallsMade
    /\ DoneIsTrue
    /\ InitialiserHoldsLock
    /\ LockOutlastsOrphans
    /\ CheckIsCurrent
    /\ NoDoubleClose

\* The steps of a trainer, and the calls of the dead.
Labels == {"select", "selected", "init", "finish", "done", "fetch", "train", "dead"}
Orphan == [id : 1..MaxDeaths, kind : {"init", "finish"}, server : Servers, call : {"new", "open"}]

\* A turn of a trainer's loop over the servers.
LEMMA AdvanceStep ==
    ASSUME InitTypeOK, NEW t \in Trainers, NEW label \in Labels, NEW then \in Labels,
           Advance(t, label, then)
    PROVE  /\ at' \in [Trainers -> Servers] /\ pc' \in [Trainers -> Labels]
           /\ at[t] \in 1..NumServers
           /\ IF at[t] = NumServers THEN at'[t] = 1 /\ pc'[t] = then
                                     ELSE at'[t] = at[t] + 1 /\ pc'[t] = label
           /\ \A u \in Trainers \ {t} : at'[u] = at[u] /\ pc'[u] = pc[u]
<1> USE InitAssumption DEF Servers
<1>1. at \in [Trainers -> Servers] /\ pc \in [Trainers -> Labels] /\ at[t] \in 1..NumServers
    BY DEF InitTypeOK, Labels
<1>2. CASE at[t] = NumServers
  <2>1. at' = [at EXCEPT ![t] = 1] /\ pc' = [pc EXCEPT ![t] = then] /\ 1 \in Servers
      BY <1>2 DEF Advance, Goto
  <2> QED
      BY <1>1, <1>2, <2>1
<1>3. CASE at[t] # NumServers
  <2>1. /\ at' = [at EXCEPT ![t] = at[t] + 1] /\ pc' = [pc EXCEPT ![t] = label]
        /\ at[t] + 1 \in Servers
      BY <1>1, <1>3 DEF Advance, Goto
  <2> QED
      BY <1>1, <1>3, <2>1
<1> QED
    BY <1>2, <1>3

LEMMA InitInitInv == InitInit => InitInv
<1> SUFFICES ASSUME InitInit PROVE InitInv
    OBVIOUS
<1> USE InitAssumption DEF InitInit, Servers
<1>1. InitTypeOK
  <2>1. initDone \in BOOLEAN /\ initialized \in [Servers -> BOOLEAN]
      OBVIOUS
  <2>2. updates \in [Servers -> -1..MaxUpdates] /\ at \in [Trainers -> Servers]
      OBVIOUS
  <2> QED
      BY <2>1, <2>2 DEF InitTypeOK
<1>2. ServesStored /\ LoopsDone /\ OrphansStored /\ CallsMade /\ DoneIsTrue
    BY DEF ServesStored, LoopsDone, OrphansStored, CallsMade, DoneIsTrue
<1>3. InitialiserHoldsLock /\ LockOutlastsOrphans /\ CheckIsCurrent /\ NoDoubleClose
    BY DEF InitialiserHoldsLock, LockOutlastsOrphans, CheckIsCurrent, NoDoubleClose
<1> QED
    BY <1>1, <1>2, <1>3 DEF InitInv

\* The lock of /init_ps/lock is taken by one trainer.
LEMMA SelectLockInv ==
    ASSUME InitInv, NEW t \in Trainers, SelectLock(t)
    PROVE  InitInv'
<1> USE InitAssumption DEF InitInv, SelectLock, Goto, electVars, callVars, serverVars, boundVars, Servers
<1>1. InitTypeOK'
    BY DEF InitTypeOK
<1>2. ServesStored' /\ LoopsDone' /\ OrphansStored'
    BY DEF InitTypeOK, ServesStored, LoopsDone, OrphansStored
<1>3. CallsMade'
    BY DEF InitTypeOK, CallsMade
<1>4. DoneIsTrue'
    BY DEF InitTypeOK, LoopsDone, DoneIsTrue
<1>5. InitialiserHoldsLock' /\ LockOutlastsOrphans'
    BY DEF InitTypeOK, InitialiserHoldsLock, LockOutlastsOrphans
<1>6. CheckIsCurrent'
    BY DEF InitTypeOK, InitialiserHoldsLock, LockOutlastsOrphans, CheckIsCurrent
<1>7. NoDoubleClose'
    BY DEF InitTypeOK, NoDoubleClose
<1> QED
    BY <1>1, <1>2, <1>3, <1>4, <1>5, <1>6, <1>7

\* Select gives the lock back, or the trainer initialises with it.
LEMMA SelectCheckInv ==
    ASSUME InitInv, NEW t \in Trainers, SelectCheck(t)
    PROVE  InitInv'
<1> USE InitAssumption DEF InitInv, SelectCheck, EtcdError, Goto, electVars, callVars, serverVars, boundVars, Servers
<1>1. InitTypeOK'
  <2>1. etcdErrors' \in 0..MaxEtcdErrors
      BY DEF InitTypeOK
  <2> QED
      BY <2>1 DEF InitTypeOK
<1>2. ServesStored' /\ LoopsDone' /\ OrphansStored'
    BY DEF InitTypeOK, ServesStored, LoopsDone, OrphansStored
<1>3. CallsMade'
    BY DEF InitTypeOK, CallsMade
<1>4. DoneIsTrue'
    BY DEF InitTypeOK, LoopsDone, DoneIsTrue
<1>5. InitialiserHoldsLock' /\ LockOutlastsOrphans'
    BY DEF InitTypeOK, InitialiserHoldsLock, LockOutlastsOrphans
<1>6. CheckIsCurrent'
    BY DEF InitTypeOK, InitialiserHoldsLock, LockOutlastsOrphans, CheckIsCurrent
<1>7. NoDoubleClose'
    BY DEF InitTypeOK, NoDoubleClose
<1> QED
    BY <1>1, <1>2, <1>3, <1>4, <1>5, <1>6, <1>7

\* Select returns an error.
LEMMA SelectFailsInv ==
    ASSUME InitInv, NEW t \in Trainers, SelectFails(t)
    PROVE  InitInv'
<1> USE InitAssumption DEF InitInv, SelectFails, EtcdError, Abandon, Goto, electVars, callVars, serverVars, boundVars, Servers
<1>1. InitTypeOK'
    BY DEF InitTypeOK
<1>2. ServesStored' /\ LoopsDone' /\ OrphansStored'
    BY DEF InitTypeOK, ServesStored, LoopsDone, OrphansStored
<1>3. CallsMade'
    BY DEF InitTypeOK, CallsMade
<1>4. DoneIsTrue'
    BY DEF InitTypeOK, LoopsDone, DoneIsTrue
<1>5. InitialiserHoldsLock' /\ LockOutlastsOrphans'
    BY DEF InitTypeOK, InitialiserHoldsLock, LockOutlastsOrphans
<1>6. CheckIsCurrent'
    BY DEF InitTypeOK, InitialiserHoldsLock, LockOutlastsOrphans, CheckIsCurrent
<1>7. NoDoubleClose'
    BY DEF InitTypeOK, NoDoubleClose
<1> QED
    BY <1>1, <1>2, <1>3, <1>4, <1>5, <1>6, <1>7

\* A handler finds the channel open.
LEMMA FindsOpenInv ==
    ASSUME InitInv, NEW t \in Trainers, FindsOpen(t)
    PROVE  InitInv'
<1> USE InitAssumption DEF InitInv, FindsOpen, Goto, electVars, callVars, serverVars, boundVars, Servers
<1>1. InitTypeOK'
    BY DEF InitTypeOK
<1>2. ServesStored' /\ LoopsDone' /\ OrphansStored'
    BY DEF InitTypeOK, ServesStored, LoopsDone, OrphansStored
<1>3. CallsMade'
    BY DEF InitTypeOK, CallsMade
<1>4. DoneIsTrue'
    BY DEF InitTypeOK, LoopsDone, DoneIsTrue
<1>5. InitialiserHoldsLock' /\ LockOutlastsOrphans'
    BY DEF InitTypeOK, InitialiserHoldsLock, LockOutlastsOrphans
<1>6. CheckIsCurrent'
    BY DEF InitTypeOK, InitialiserHoldsLock, LockOutlastsOrphans, CheckIsCurrent
<1>7. NoDoubleClose'
    BY DEF InitTypeOK, NoDoubleClose
<1> QED
    BY <1>1, <1>2, <1>3, <1>4, <1>5, <1>6, <1>7

\* InitParam to a server that serves goes on to the next one.
LEMMA InitParamRefusedInv ==
    ASSUME InitInv, NEW t \in Trainers, InitParamRefused(t)
    PROVE  InitInv'
<1> USE InitAssumption DEF InitInv, InitParamRefused, Answered, electVars, callVars, serverVars, boundVars, Servers
<1>a. Advance(t, "init", "finish")
    OBVIOUS
<1>b. ASSUME NEW u \in Trainers, u # t
      PROVE  pc'[u] = pc[u] /\ at'[u] = at[u] /\ call'[u] = call[u]
    BY <1>a, <1>b, AdvanceStep DEF Labels, InitTypeOK
<1>c. pc'[t] \in {"init", "finish"} /\ call'[t] = "new"
    BY <1>a, AdvanceStep DEF Labels, InitTypeOK
<1>d. \A s \in Servers : updates[s] >= 0 => updates'[s] >= 0
    BY DEF InitTypeOK
<1>e. at[t] \in panicked \/ updates'[at[t]] >= 0
    BY DEF InitTypeOK, ServesStored, CallsMade
<1>1. InitTypeOK'
  <2>1. at' \in [Trainers -> Servers] /\ pc' \in [Trainers -> Labels]
      BY <1>a, AdvanceStep DEF Labels, InitTypeOK
  <2>2. updates' \in [Servers -> -1..MaxUpdates] /\ call' \in [Trainers -> {"new", "open", "lost"}]
      BY DEF InitTypeOK
  <2> QED
      BY <2>1, <2>2 DEF InitTypeOK, Labels
<1>2. ServesStored' /\ OrphansStored'
    BY <1>d DEF InitTypeOK, ServesStored, OrphansStored
<1>3. LoopsDone'
  <2>1. CASE at[t] = NumServers
    <3>1. pc'[t] = "finish" /\ at'[t] = 1
        BY <1>a, <2>1, AdvanceStep DEF Labels, InitTypeOK
    <3>2. \A s \in Servers \ panicked : updates'[s] >= 0
        BY <1>d, <1>e, <2>1 DEF InitTypeOK, LoopsDone
    <3>3. \A s \in Servers : ~ (s < at'[t])
        BY <3>1
    <3> QED
        BY <1>b, <1>d, <3>1, <3>2, <3>3 DEF LoopsDone
  <2>2. CASE at[t] # NumServers
    <3>1. pc'[t] = "init" /\ at'[t] = at[t] + 1
        BY <1>a, <2>2, AdvanceStep DEF Labels, InitTypeOK
    <3>2. \A s \in Servers \ panicked : s < at'[t] => updates'[s] >= 0
        BY <1>d, <1>e, <3>1 DEF InitTypeOK, LoopsDone
    <3> QED
        BY <1>b, <1>d, <3>1, <3>2 DEF LoopsDone
  <2> QED
      BY <2>1, <2>2
<1>4. CallsMade'
    BY <1>b, <1>c DEF InitTypeOK, CallsMade
<1>5. DoneIsTrue'
    BY <1>d DEF InitTypeOK, DoneIsTrue
<1>6. InitialiserHoldsLock' /\ LockOutlastsOrphans'
    BY <1>b DEF InitialiserHoldsLock, LockOutlastsOrphans
<1>7. CheckIsCurrent'
    BY <1>b, <1>c DEF CheckIsCurrent
<1>8. NoDoubleClose'
    BY DEF NoDoubleClose
<1> QED
    BY <1>1, <1>2, <1>3, <1>4, <1>5, <1>6, <1>7, <1>8

\* InitParam stores, on what it saw of the channel before.
LEMMA InitParamStoreInv ==
    ASSUME InitInv, NEW t \in Trainers, InitParamStore(t)
    PROVE  InitInv'
<1> USE InitAssumption DEF InitInv, InitParamStore, Answered, electVars, callVars, serverVars, boundVars, Servers
<1>a. Advance(t, "init", "finish")
    OBVIOUS
<1>b. ASSUME NEW u \in Trainers, u # t
      PROVE  pc'[u] = pc[u] /\ at'[u] = at[u] /\ call'[u] = call[u]
    BY <1>a, <1>b, AdvanceStep DEF Labels, InitTypeOK
<1>c. pc'[t] \in {"init", "finish"} /\ call'[t] = "new"
    BY <1>a, AdvanceStep DEF Labels, InitTypeOK
<1>d. \A s \in Servers : updates[s] >= 0 => updates'[s] >= 0
    BY DEF InitTypeOK
<1>e. at[t] \in panicked \/ updates'[at[t]] >= 0
    BY DEF InitTypeOK, ServesStored, CallsMade
<1>1. InitTypeOK'
  <2>1. at' \in [Trainers -> Servers] /\ pc' \in [Trainers -> Labels]
      BY <1>a, AdvanceStep DEF Labels, InitTypeOK
  <2>2. updates' \in [Servers -> -1..MaxUpdates] /\ call' \in [Trainers -> {"new", "open", "lost"}]
      BY DEF InitTypeOK
  <2> QED
      BY <2>1, <2>2 DEF InitTypeOK, Labels
<1>2. ServesStored' /\ OrphansStored'
    BY <1>d DEF InitTypeOK, ServesStored, OrphansStored
<1>3. LoopsDone'
  <2>1. CASE at[t] = NumServers
    <3>1. pc'[t] = "finish" /\ at'[t] = 1
        BY <1>a, <2>1, AdvanceStep DEF Labels, InitTypeOK
    <3>2. \A s \in Servers \ panicked : updates'[s] >= 0
        BY <1>d, <1>e, <2>1 DEF InitTypeOK, LoopsDone
    <3>3. \A s \in Servers : ~ (s < at'[t])
        BY <3>1
    <3> QED
        BY <1>b, <1>d, <3>1, <3>2, <3>3 DEF LoopsDone
  <2>2. CASE at[t] # NumServers
    <3>1. pc'[t] = "init" /\ at'[t] = at[t] + 1
        BY <1>a, <2>2, AdvanceStep DEF Labels, InitTypeOK
    <3>2. \A s \in Servers \ panicked : s < at'[t] => updates'[s] >= 0
        BY <1>d, <1>e, <3>1 DEF InitTypeOK, LoopsDone
    <3> QED
        BY <1>b, <1>d, <3>1, <3>2 DEF LoopsDone
  <2> QED
      BY <2>1, <2>2
<1>4. CallsMade'
    BY <1>b, <1>c DEF InitTypeOK, CallsMade
<1>5. DoneIsTrue'
    BY <1>d DEF InitTypeOK, DoneIsTrue
<1>6. InitialiserHoldsLock' /\ LockOutlastsOrphans'
    BY <1>b DEF InitialiserHoldsLock, LockOutlastsOrphans
<1>7. CheckIsCurrent'
    BY <1>b, <1>c DEF CheckIsCurrent
<1>8. NoDoubleClose'
    BY DEF NoDoubleClose
<1> QED
    BY <1>1, <1>2, <1>3, <1>4, <1>5, <1>6, <1>7, <1>8

\* InitParam fails with the process of its server.
LEMMA InitParamLostInv ==
    ASSUME InitInv, NEW t \in Trainers, InitParamLost(t)
    PROVE  InitInv'
<1> USE InitAssumption DEF InitInv, InitParamLost, Answered, electVars, callVars, serverVars, boundVars, Servers
<1>a. Advance(t, "init", "finish")
    OBVIOUS
<1>b. ASSUME NEW u \in Trainers, u # t
      PROVE  pc'[u] = pc[u] /\ at'[u] = at[u] /\ call'[u] = call[u]
    BY <1>a, <1>b, AdvanceStep DEF Labels, InitTypeOK
<1>c. pc'[t] \in {"init", "finish"} /\ call'[t] = "new"
    BY <1>a, AdvanceStep DEF Labels, InitTypeOK
<1>d. \A s \in Servers : updates[s] >= 0 => updates'[s] >= 0
    BY DEF InitTypeOK
<1>e. at[t] \in panicked \/ updates'[at[t]] >= 0
    BY DEF CallFails, InitTypeOK, ServesStored, CallsMade
<1>1. InitTypeOK'
  <2>1. at' \in [Trainers -> Servers] /\ pc' \in [Trainers -> Labels]
      BY <1>a, AdvanceStep DEF Labels, InitTypeOK
  <2>2. updates' \in [Servers -> -1..MaxUpdates] /\ call' \in [Trainers -> {"new", "open", "lost"}]
      BY DEF InitTypeOK
  <2> QED
      BY <2>1, <2>2 DEF InitTypeOK, Labels
<1>2. ServesStored' /\ OrphansStored'
    BY <1>d DEF InitTypeOK, ServesStored, OrphansStored
<1>3. LoopsDone'
  <2>1. CASE at[t] = NumServers
    <3>1. pc'[t] = "finish" /\ at'[t] = 1
        BY <1>a, <2>1, AdvanceStep DEF Labels, InitTypeOK
    <3>2. \A s \in Servers \ panicked : updates'[s] >= 0
        BY <1>d, <1>e, <2>1 DEF InitTypeOK, LoopsDone
    <3>3. \A s \in Servers : ~ (s < at'[t])
        BY <3>1
    <3> QED
        BY <1>b, <1>d, <3>1, <3>2, <3>3 DEF LoopsDone
  <2>2. CASE at[t] # NumServers
    <3>1. pc'[t] = "init" /\ at'[t] = at[t] + 1
        BY <1>a, <2>2, AdvanceStep DEF Labels, InitTypeOK
    <3>2. \A s \in Servers \ panicked : s < at'[t] => updates'[s] >= 0
        BY <1>d, <1>e, <3>1 DEF InitTypeOK, LoopsDone
    <3> QED
        BY <1>b, <1>d, <3>1, <3>2 DEF LoopsDone
  <2> QED
      BY <2>1, <2>2
<1>4. CallsMade'
    BY <1>b, <1>c DEF InitTypeOK, CallsMade
<1>5. DoneIsTrue'
    BY <1>d DEF InitTypeOK, DoneIsTrue
<1>6. InitialiserHoldsLock' /\ LockOutlastsOrphans'
    BY <1>b DEF InitialiserHoldsLock, LockOutlastsOrphans
<1>7. CheckIsCurrent'
    BY <1>b, <1>c DEF CheckIsCurrent
<1>8. NoDoubleClose'
    BY DEF NoDoubleClose
<1> QED
    BY <1>1, <1>2, <1>3, <1>4, <1>5, <1>6, <1>7, <1>8

\* FinishInitParams is refused and ends the loop.
LEMMA FinishRefusedInv ==
    ASSUME InitInv, NEW t \in Trainers, FinishRefused(t)
    PROVE  InitInv'
<1> USE InitAssumption DEF InitInv, FinishRefused, Goto, electVars, callVars, serverVars, boundVars, Servers
<1>1. InitTypeOK'
    BY DEF InitTypeOK
<1>2. ServesStored' /\ LoopsDone' /\ OrphansStored'
    BY DEF InitTypeOK, ServesStored, LoopsDone, OrphansStored
<1>3. CallsMade'
    BY DEF InitTypeOK, CallsMade
<1>4. DoneIsTrue'
    BY DEF InitTypeOK, LoopsDone, DoneIsTrue
<1>5. InitialiserHoldsLock' /\ LockOutlastsOrphans'
    BY DEF InitTypeOK, InitialiserHoldsLock, LockOutlastsOrphans
<1>6. CheckIsCurrent'
    BY DEF InitTypeOK, InitialiserHoldsLock, LockOutlastsOrphans, CheckIsCurrent
<1>7. NoDoubleClose'
    BY DEF InitTypeOK, NoDoubleClose
<1> QED
    BY <1>1, <1>2, <1>3, <1>4, <1>5, <1>6, <1>7

\* FinishInitParams fails with the process of its server.
LEMMA FinishLostInv ==
    ASSUME InitInv, NEW t \in Trainers, FinishLost(t)
    PROVE  InitInv'
<1> USE InitAssumption DEF InitInv, FinishLost, Answered, Goto, electVars, callVars, serverVars, boundVars, Servers
<1>1. InitTypeOK'
    BY DEF InitTypeOK
<1>2. ServesStored' /\ LoopsDone' /\ OrphansStored'
    BY DEF InitTypeOK, ServesStored, LoopsDone, OrphansStored
<1>3. CallsMade'
    BY DEF InitTypeOK, CallsMade
<1>4. DoneIsTrue'
    BY DEF InitTypeOK, LoopsDone, DoneIsTrue
<1>5. InitialiserHoldsLock' /\ LockOutlastsOrphans'
    BY DEF InitTypeOK, InitialiserHoldsLock, LockOutlastsOrphans
<1>6. CheckIsCurrent'
    BY DEF InitTypeOK, InitialiserHoldsLock, LockOutlastsOrphans, CheckIsCurrent
<1>7. NoDoubleClose'
    BY DEF InitTypeOK, NoDoubleClose
<1> QED
    BY <1>1, <1>2, <1>3, <1>4, <1>5, <1>6, <1>7

\* FinishInitParams closes the channel, on what it saw before.
LEMMA FinishCloseInv ==
    ASSUME InitInv, NEW t \in Trainers, FinishClose(t)
    PROVE  InitInv'
<1> USE InitAssumption DEF InitInv, FinishClose, Answered, electVars, callVars, serverVars, boundVars, Servers
<1>a. Advance(t, "finish", "done")
    OBVIOUS
<1>b. ASSUME NEW u \in Trainers, u # t
      PROVE  pc'[u] = pc[u] /\ at'[u] = at[u] /\ call'[u] = call[u]
    BY <1>a, <1>b, AdvanceStep DEF Labels, InitTypeOK
<1>c. pc'[t] \in {"finish", "done"} /\ call'[t] = "new"
    BY <1>a, AdvanceStep DEF Labels, InitTypeOK
<1>d. at[t] \in Servers /\ initialized'[at[t]] = TRUE
      /\ \A s \in Servers : initialized[s] => initialized'[s]
    BY DEF InitTypeOK
<1>1. InitTypeOK'
  <2>1. at' \in [Trainers -> Servers] /\ pc' \in [Trainers -> Labels]
      BY <1>a, AdvanceStep DEF Labels, InitTypeOK
  <2>2. initialized' \in [Servers -> BOOLEAN] /\ call' \in [Trainers -> {"new", "open", "lost"}]
      BY DEF InitTypeOK
  <2> QED
      BY <2>1, <2>2 DEF InitTypeOK, Labels
<1>2. ServesStored' /\ OrphansStored' /\ DoneIsTrue'
    BY DEF InitTypeOK, ServesStored, OrphansStored, LoopsDone, DoneIsTrue
<1>3. LoopsDone'
  <2>1. CASE at[t] = NumServers
    <3>1. pc'[t] = "done" /\ \A s \in Servers \ panicked : initialized'[s]
        BY <1>a, <1>d, <2>1, AdvanceStep DEF Labels, InitTypeOK, LoopsDone
    <3> QED
        BY <1>b, <1>d, <3>1 DEF LoopsDone
  <2>2. CASE at[t] # NumServers
    <3>1. pc'[t] = "finish" /\ at'[t] = at[t] + 1
        BY <1>a, <2>2, AdvanceStep DEF Labels, InitTypeOK
    <3>2. \A s \in Servers \ panicked : s < at'[t] => initialized'[s]
        BY <1>d, <3>1 DEF InitTypeOK, LoopsDone
    <3> QED
        BY <1>b, <1>d, <3>1, <3>2 DEF LoopsDone
  <2> QED
      BY <2>1, <2>2
<1>4. CallsMade'
    BY <1>b, <1>c DEF InitTypeOK, CallsMade
<1>5. InitialiserHoldsLock' /\ LockOutlastsOrphans'
    BY <1>b DEF InitialiserHoldsLock, LockOutlastsOrphans
<1>6. CheckIsCurrent'
  <2> SUFFICES ASSUME expiries = 0
               PROVE  /\ \A u \in Trainers : call'[u] # "open"
                      /\ orphans = {}
      BY DEF CheckIsCurrent
  <2>1. lock = t
      BY DEF InitialiserHoldsLock
  <2>2. orphans = {}
      BY <2>1 DEF LockOutlastsOrphans
  <2>3. ASSUME NEW u \in Trainers, call'[u] = "open"
        PROVE  FALSE
    <3>1. u # t
        BY <1>c, <2>3
    <3>2. pc[u] \in {"init", "finish"}
        BY <1>b, <2>3, <3>1 DEF CallsMade
    <3> QED
        BY <2>1, <3>1, <3>2 DEF InitialiserHoldsLock
  <2> QED
      BY <2>2, <2>3
<1>7. NoDoubleClose'
    BY DEF NoDoubleClose
<1> QED
    BY <1>1, <1>2, <1>3, <1>4, <1>5, <1>6, <1>7

\* A server panics: only possible once a lease has expired too early.
LEMMA PanicInv ==
    ASSUME InitInv, NEW s \in Servers, Panic(s), expiries # 0
    PROVE  InitInv'
<1> USE InitAssumption DEF InitInv, Panic, electVars, callVars, serverVars, boundVars, Servers
<1>a. \A r \in Servers \ panicked' : r # s /\ r \in Servers \ panicked
    OBVIOUS
<1>b. \A r \in Servers \ panicked' : updates'[r] = updates[r] /\ initialized'[r] = initialized[r]
    BY <1>a DEF InitTypeOK
<1>1. InitTypeOK'
  <2>1. initialized' \in [Servers -> BOOLEAN]
      BY DEF InitTypeOK
  <2>2. updates' \in [Servers -> -1..MaxUpdates]
      BY DEF InitTypeOK
  <2>3. call' \in [Trainers -> {"new", "open", "lost"}] /\ panicked' \subseteq Servers
      BY DEF InitTypeOK
  <2>4. orphans' \subseteq Orphan
      BY DEF InitTypeOK, Orphan
  <2> QED
      BY <2>1, <2>2, <2>3, <2>4 DEF InitTypeOK, Orphan
<1>2. ServesStored' /\ OrphansStored' /\ DoneIsTrue'
    BY <1>a, <1>b DEF ServesStored, OrphansStored, DoneIsTrue
<1>3. LoopsDone'
    BY <1>a, <1>b DEF LoopsDone
<1>4. CallsMade'
    BY DEF InitTypeOK, CallsMade
<1>5. InitialiserHoldsLock' /\ LockOutlastsOrphans' /\ CheckIsCurrent' /\ NoDoubleClose'
    BY DEF InitialiserHoldsLock, LockOutlastsOrphans, CheckIsCurrent, NoDoubleClose
<1> QED
    BY <1>1, <1>2, <1>3, <1>4, <1>5

\* FinishInitParams closes the channel a second time.
LEMMA FinishPanicsInv ==
    ASSUME InitInv, NEW t \in Trainers, FinishPanics(t)
    PROVE  InitInv'
<1>1. at[t] \in Servers /\ expiries # 0
    BY DEF FinishPanics, Panic, InitInv, InitTypeOK, CheckIsCurrent
<1> QED
    BY <1>1, PanicInv DEF FinishPanics

\* The call of a dead trainer does.
LEMMA OrphanPanicsInv ==
    ASSUME InitInv, NEW o \in orphans, OrphanPanics(o)
    PROVE  InitInv'
<1>1. o.server \in Servers /\ expiries # 0
    BY DEF OrphanPanics, Panic, InitInv, InitTypeOK, CheckIsCurrent
<1> QED
    BY <1>1, PanicInv DEF OrphanPanics

\* Done sets the key under the lock, or fails.
LEMMA DoneInv ==
    ASSUME InitInv, NEW t \in Trainers, Done(t)
    PROVE  InitInv'
<1> USE InitAssumption DEF InitInv, Done, EtcdError, Goto, electVars, callVars, serverVars, boundVars, Servers
<1>1. InitTypeOK'
  <2>1. etcdErrors' \in 0..MaxEtcdErrors
      BY DEF InitTypeOK
  <2> QED
      BY <2>1 DEF InitTypeOK
<1>2. ServesStored' /\ LoopsDone' /\ OrphansStored'
    BY DEF InitTypeOK, ServesStored, LoopsDone, OrphansStored
<1>3. CallsMade'
    BY DEF InitTypeOK, CallsMade
<1>4. DoneIsTrue'
    BY DEF InitTypeOK, LoopsDone, DoneIsTrue
<1>5. InitialiserHoldsLock' /\ LockOutlastsOrphans'
    BY DEF InitTypeOK, InitialiserHoldsLock, LockOutlastsOrphans
<1>6. CheckIsCurrent'
    BY DEF InitTypeOK, InitialiserHoldsLock, LockOutlastsOrphans, CheckIsCurrent
<1>7. NoDoubleClose'
    BY DEF InitTypeOK, NoDoubleClose
<1> QED
    BY <1>1, <1>2, <1>3, <1>4, <1>5, <1>6, <1>7

\* GetParams.
LEMMA FetchInv ==
    ASSUME InitInv, NEW t \in Trainers, Fetch(t)
    PROVE  InitInv'
<1> USE InitAssumption DEF InitInv, Fetch, Goto, electVars, callVars, serverVars, boundVars, Servers
<1>1. InitTypeOK'
    BY DEF InitTypeOK
<1>2. ServesStored' /\ LoopsDone' /\ OrphansStored'
    BY DEF InitTypeOK, ServesStored, LoopsDone, OrphansStored
<1>3. CallsMade'
    BY DEF InitTypeOK, CallsMade
<1>4. DoneIsTrue'
    BY DEF InitTypeOK, LoopsDone, DoneIsTrue
<1>5. InitialiserHoldsLock' /\ LockOutlastsOrphans'
    BY DEF InitTypeOK, InitialiserHoldsLock, LockOutlastsOrphans
<1>6. CheckIsCurrent'
    BY DEF InitTypeOK, InitialiserHoldsLock, LockOutlastsOrphans, CheckIsCurrent
<1>7. NoDoubleClose'
    BY DEF InitTypeOK, NoDoubleClose
<1> QED
    BY <1>1, <1>2, <1>3, <1>4, <1>5, <1>6, <1>7

\* SendGrad counts up.
LEMMA SendGradInv ==
    ASSUME InitInv, NEW t \in Trainers, NEW r \in Servers, SendGrad(t, r)
    PROVE  InitInv'
<1> USE InitAssumption DEF InitInv, SendGrad, electVars, callVars, serverVars, boundVars, Servers
<1>1. InitTypeOK'
  <2>1. updates' \in [Servers -> -1..MaxUpdates]
      BY DEF InitTypeOK
  <2> QED
      BY <2>1 DEF InitTypeOK
<1>2. ServesStored' /\ LoopsDone' /\ OrphansStored'
    BY DEF InitTypeOK, ServesStored, LoopsDone, OrphansStored
<1>3. CallsMade'
    BY DEF InitTypeOK, CallsMade
<1>4. DoneIsTrue'
    BY DEF InitTypeOK, LoopsDone, DoneIsTrue
<1>5. InitialiserHoldsLock' /\ LockOutlastsOrphans'
    BY DEF InitTypeOK, InitialiserHoldsLock, LockOutlastsOrphans
<1>6. CheckIsCurrent'
    BY DEF InitTypeOK, InitialiserHoldsLock, LockOutlastsOrphans, CheckIsCurrent
<1>7. NoDoubleClose'
    BY DEF InitTypeOK, NoDoubleClose
<1> QED
    BY <1>1, <1>2, <1>3, <1>4, <1>5, <1>6, <1>7

\* A lease expires too early: from here on the lock says nothing.
LEMMA LoseLeaseInv ==
    ASSUME InitInv, LoseLease
    PROVE  InitInv'
<1> USE InitAssumption DEF InitInv, LoseLease, electVars, callVars, serverVars, boundVars, Servers
<1>1. InitTypeOK'
    BY DEF InitTypeOK
<1>2. ServesStored' /\ LoopsDone' /\ OrphansStored'
    BY DEF InitTypeOK, ServesStored, LoopsDone, OrphansStored
<1>3. CallsMade'
    BY DEF InitTypeOK, CallsMade
<1>4. DoneIsTrue'
    BY DEF InitTypeOK, LoopsDone, DoneIsTrue
<1>5. InitialiserHoldsLock' /\ LockOutlastsOrphans'
    BY DEF InitTypeOK, InitialiserHoldsLock, LockOutlastsOrphans
<1>6. CheckIsCurrent'
    BY DEF InitTypeOK, InitialiserHoldsLock, LockOutlastsOrphans, CheckIsCurrent
<1>7. NoDoubleClose'
    BY DEF InitTypeOK, NoDoubleClose
<1> QED
    BY <1>1, <1>2, <1>3, <1>4, <1>5, <1>6, <1>7

\* The lease of a dead trainer ends.
LEMMA LeaseEndsInv ==
    ASSUME InitInv, LeaseEnds
    PROVE  InitInv'
<1> USE InitAssumption DEF InitInv, LeaseEnds, electVars, callVars, serverVars, boundVars, Servers
<1>1. InitTypeOK'
    BY DEF InitTypeOK
<1>2. ServesStored' /\ LoopsDone' /\ OrphansStored'
    BY DEF InitTypeOK, ServesStored, LoopsDone, OrphansStored
<1>3. CallsMade'
    BY DEF InitTypeOK, CallsMade
<1>4. DoneIsTrue'
    BY DEF InitTypeOK, LoopsDone, DoneIsTrue
<1>5. InitialiserHoldsLock' /\ LockOutlastsOrphans'
    BY DEF InitTypeOK, InitialiserHoldsLock, LockOutlastsOrphans
<1>6. CheckIsCurrent'
    BY DEF InitTypeOK, InitialiserHoldsLock, LockOutlastsOrphans, CheckIsCurrent
<1>7. NoDoubleClose'
    BY DEF InitTypeOK, NoDoubleClose
<1> QED
    BY <1>1, <1>2, <1>3, <1>4, <1>5, <1>6, <1>7

\* A trainer dies, its call lives on.
LEMMA DieInv ==
    ASSUME InitInv, NEW t \in Trainers, Die(t)
    PROVE  InitInv'
<1> USE InitAssumption DEF InitInv, Die, Abandon, Answered, Goto, electVars, callVars, serverVars, boundVars, Servers
<1>1. InitTypeOK'
  <2>1. orphans' \subseteq Orphan
      BY DEF InitTypeOK, Orphan
  <2>2. deaths' \in 0..MaxDeaths /\ call' \in [Trainers -> {"new", "open", "lost"}]
      BY DEF InitTypeOK
  <2> QED
      BY <2>1, <2>2 DEF InitTypeOK, Orphan
<1>2. ServesStored' /\ LoopsDone' /\ OrphansStored'
    BY DEF InitTypeOK, ServesStored, LoopsDone, OrphansStored
<1>3. CallsMade'
    BY DEF InitTypeOK, CallsMade
<1>4. DoneIsTrue'
    BY DEF InitTypeOK, LoopsDone, DoneIsTrue
<1>5. InitialiserHoldsLock' /\ LockOutlastsOrphans'
    BY DEF InitTypeOK, InitialiserHoldsLock, LockOutlastsOrphans
<1>6. CheckIsCurrent'
    BY DEF InitTypeOK, InitialiserHoldsLock, LockOutlastsOrphans, CheckIsCurrent
<1>7. NoDoubleClose'
    BY DEF InitTypeOK, NoDoubleClose
<1> QED
    BY <1>1, <1>2, <1>3, <1>4, <1>5, <1>6, <1>7

\* A trainer starts again from Select.
LEMMA RestartInv ==
    ASSUME InitInv, NEW t \in Trainers, Restart(t)
    PROVE  InitInv'
<1> USE InitAssumption DEF InitInv, Restart, Goto, electVars, callVars, serverVars, boundVars, Servers
<1>1. InitTypeOK'
    BY DEF InitTypeOK
<1>2. ServesStored' /\ LoopsDone' /\ OrphansStored'
    BY DEF InitTypeOK, ServesStored, LoopsDone, OrphansStored
<1>3. CallsMade'
    BY DEF InitTypeOK, CallsMade
<1>4. DoneIsTrue'
    BY DEF InitTypeOK, LoopsDone, DoneIsTrue
<1>5. InitialiserHoldsLock' /\ LockOutlastsOrphans'
    BY DEF InitTypeOK, InitialiserHoldsLock, LockOutlastsOrphans
<1>6. CheckIsCurrent'
    BY DEF InitTypeOK, CallsMade, InitialiserHoldsLock, LockOutlastsOrphans, CheckIsCurrent
<1>7. NoDoubleClose'
    BY DEF InitTypeOK, NoDoubleClose
<1> QED
    BY <1>1, <1>2, <1>3, <1>4, <1>5, <1>6, <1>7

\* The handler of an orphaned call looks at the channel.
LEMMA OrphanCheckInv ==
    ASSUME InitInv, NEW o \in orphans, OrphanCheck(o)
    PROVE  InitInv'
<1> USE InitAssumption DEF InitInv, OrphanCheck, electVars, callVars, serverVars, boundVars, Servers
<1>1. InitTypeOK'
    BY DEF InitTypeOK
<1>2. ServesStored' /\ LoopsDone' /\ OrphansStored'
    BY DEF InitTypeOK, ServesStored, LoopsDone, OrphansStored
<1>3. CallsMade'
    BY DEF InitTypeOK, CallsMade
<1>4. DoneIsTrue'
    BY DEF InitTypeOK, LoopsDone, DoneIsTrue
<1>5. InitialiserHoldsLock' /\ LockOutlastsOrphans'
    BY DEF InitTypeOK, InitialiserHoldsLock, LockOutlastsOrphans
<1>6. CheckIsCurrent'
    BY DEF InitTypeOK, InitialiserHoldsLock, LockOutlastsOrphans, CheckIsCurrent
<1>7. NoDoubleClose'
    BY DEF InitTypeOK, NoDoubleClose
<1> QED
    BY <1>1, <1>2, <1>3, <1>4, <1>5, <1>6, <1>7

\* It stores or closes, on what it saw.
LEMMA OrphanActsInv ==
    ASSUME InitInv, NEW o \in orphans, OrphanActs(o)
    PROVE  InitInv'
<1> USE InitAssumption DEF InitInv, electVars, callVars, serverVars, boundVars, Servers
<1>a. /\ o \in Orphan /\ o.server \in Servers
      /\ o.call = "open"
      /\ orphans' = orphans \ {o}
      /\ UNCHANGED <<lock, initDone, pc, at, call, panicked, expiries, deaths, etcdErrors>>
    BY DEF OrphanActs, InitTypeOK, Orphan
<1>b. \/ /\ o.kind = "init" /\ initialized' = initialized
         /\ updates' = [updates EXCEPT ![o.server] = 0]
      \/ /\ o.kind = "finish" /\ updates' = updates
         /\ initialized' = [initialized EXCEPT ![o.server] = TRUE]
    BY DEF OrphanActs
<1>c. updates' = updates \/ updates' = [updates EXCEPT ![o.server] = 0]
    BY <1>b
<1>1. InitTypeOK'
  <2>1. initialized' \in [Servers -> BOOLEAN]
      BY <1>a, <1>b DEF InitTypeOK
  <2>2. updates \in [Servers -> -1..MaxUpdates] /\ 0 \in -1..MaxUpdates
      BY DEF InitTypeOK
  <2>3. [updates EXCEPT ![o.server] = 0] \in [Servers -> -1..MaxUpdates]
      BY <2>2
  <2>4. updates' \in [Servers -> -1..MaxUpdates]
      BY <1>c, <2>2, <2>3
  <2> QED
      BY <1>a, <2>1, <2>4 DEF InitTypeOK
<1>d. \A s \in Servers : (updates[s] >= 0 => updates'[s] >= 0) /\ (initialized[s] => initialized'[s])
  <2>1. \A s \in Servers : updates[s] >= 0 => updates'[s] >= 0
      BY <1>a, <1>c DEF InitTypeOK
  <2>2. \A s \in Servers : initialized[s] => initialized'[s]
      BY <1>a, <1>b DEF InitTypeOK
  <2> QED
      BY <2>1, <2>2
<1>2. ServesStored'
  <2>1. CASE o.kind = "init"
      BY <1>a, <1>b, <1>d, <2>1 DEF ServesStored
  <2>2. CASE o.kind = "finish"
      BY <1>a, <1>b, <1>d, <2>2 DEF OrphansStored, ServesStored
  <2> QED
      BY <1>b, <2>1, <2>2
<1>3. LoopsDone' /\ OrphansStored'
    BY <1>a, <1>d DEF LoopsDone, OrphansStored
<1>4. CallsMade' /\ DoneIsTrue'
    BY <1>a, <1>d DEF CallsMade, DoneIsTrue
<1>5. InitialiserHoldsLock' /\ LockOutlastsOrphans' /\ NoDoubleClose'
    BY <1>a DEF InitialiserHoldsLock, LockOutlastsOrphans, NoDoubleClose
<1>6. CheckIsCurrent'
  <2> SUFFICES ASSUME expiries = 0
               PROVE  /\ \A u \in Trainers : call[u] # "open"
                      /\ orphans' = {}
      BY <1>a DEF CheckIsCurrent
  <2>1. lock = Gone /\ orphans = {o}
      BY DEF LockOutlastsOrphans
  <2> QED
      BY <1>a, <2>1 DEF CallsMade, InitialiserHoldsLock
<1> QED
    BY <1>1, <1>2, <1>3, <1>4, <1>5, <1>6

LEMMA InitStepInv == InitInv /\ [InitNext]_initVars => InitInv'
<1> SUFFICES ASSUME InitInv, [InitNext]_initVars
             PROVE  InitInv'
    OBVIOUS
<1>1. CASE UNCHANGED initVars
    BY <1>1 DEF initVars, electVars, callVars, serverVars, boundVars, InitInv, InitTypeOK,
        ServesStored, LoopsDone, OrphansStored, CallsMade, DoneIsTrue, InitialiserHoldsLock,
        LockOutlastsOrphans, CheckIsCurrent, NoDoubleClose
<1>2. ASSUME NEW t \in Trainers, Step(t)
      PROVE  InitInv'
    BY <1>2, SelectLockInv, SelectCheckInv, FindsOpenInv, InitParamRefusedInv, InitParamStoreInv,
        InitParamLostInv, FinishRefusedInv, FinishCloseInv, FinishPanicsInv, FinishLostInv,
        DoneInv, FetchInv, RestartInv DEF Step
<1>3. ASSUME NEW t \in Trainers, SelectFails(t) \/ Die(t)
      PROVE  InitInv'
    BY <1>3, SelectFailsInv, DieInv
<1>4. ASSUME NEW t \in Trainers, NEW s \in Servers, SendGrad(t, s)
      PROVE  InitInv'
    BY <1>4, SendGradInv
<1>5. CASE Orphans
    BY <1>5, OrphanCheckInv, OrphanActsInv, OrphanPanicsInv DEF Orphans
<1>6. CASE LoseLease \/ LeaseEnds
    BY <1>6, LoseLeaseInv, LeaseEndsInv
<1> QED
    BY <1>1, <1>2, <1>3, <1>4, <1>5, <1>6 DEF InitNext

\* The invariant holds in every state of the initialisation.
LEMMA InitInvariant == InitSpec => []InitInv
<1> QED
    BY InitInitInv, InitStepInv, PTL DEF InitSpec

\* The trainers, their calls, the servers and the keys keep their types.
THEOREM InitTypeCorrect == InitSpec => []InitTypeOK
<1>1. InitInv => InitTypeOK
    BY DEF InitInv
<1> QED
    BY <1>1, InitInvariant, PTL

\* /init_ps/done is set only when every server has its parameters and serves,
\* except those that panicked, with any number of deaths, of leases that expired
\* too early and of errors of etcd.
THEOREM DoneKeyIsTrue == InitSpec => []DoneIsTrue
<1>1. InitInv => DoneIsTrue
    BY DEF InitInv
<1> QED
    BY <1>1, InitInvariant, PTL

\* While leases hold, FinishInitParams never closes a channel twice, although
\* it tests the channel before it closes it and outlives its trainer.
THEOREM ChannelsClosedOnce == InitSpec => []NoDoubleClose
<1>1. InitInv => NoDoubleClose
    BY DEF InitInv
<1> QED
    BY <1>1, InitInvariant, PTL

\* While leases hold, InitParam never replaces a parameter of a server that
\* serves, although it tests the channel before it takes the mutex and outlives
\* its trainer.
THEOREM NoUpdateOverwritten == InitSpec => UpdatesKept
<1> DEFINE Kept == expiries = 0 => \A s \in Servers : initialized[s] => updates'[s] >= updates[s]
<1>1. InitInv /\ [InitNext]_initVars => [Kept]_initVars
  <2> SUFFICES ASSUME InitInv, [InitNext]_initVars, expiries = 0,
                      NEW s \in Servers, initialized[s]
               PROVE  updates'[s] >= updates[s]
      OBVIOUS
  <2>1. updates[s] \in Int
      BY DEF InitInv, InitTypeOK
  <2>2. ASSUME NEW t \in Trainers, InitParamStore(t)
        PROVE  updates'[s] = updates[s]
    <3>1. s # at[t]
        BY <2>2 DEF InitInv, CheckIsCurrent, InitParamStore
    <3> QED
        BY <2>2, <3>1 DEF InitInv, InitTypeOK, InitParamStore
  <2>3. ASSUME NEW o \in orphans, OrphanActs(o)
        PROVE  updates'[s] = updates[s]
    <3>1. s # o.server
        BY <2>3 DEF InitInv, CheckIsCurrent, OrphanActs
    <3> QED
        BY <2>3, <3>1 DEF InitInv, InitTypeOK, OrphanActs
  <2>4. ASSUME NEW t \in Trainers, FinishPanics(t)
        PROVE  FALSE
      BY <2>4 DEF FinishPanics, Panic, InitInv, CheckIsCurrent
  <2>5. ASSUME NEW o \in orphans, OrphanPanics(o)
        PROVE  FALSE
      BY <2>5 DEF OrphanPanics, Panic, InitInv, CheckIsCurrent
  <2>6. ASSUME NEW t \in Trainers, Step(t), ~ InitParamStore(t)
        PROVE  updates' = updates
      BY <2>4, <2>6 DEF Step, SelectLock, SelectCheck, FindsOpen, InitParamRefused, InitParamLost,
          FinishRefused, FinishClose, FinishLost, Done, Fetch, Restart, serverVars
  <2>7. ASSUME NEW t \in Trainers, NEW r \in Servers, SendGrad(t, r)
        PROVE  updates'[s] >= updates[s]
      BY <2>1, <2>7 DEF SendGrad, InitInv, InitTypeOK
  <2>8. ASSUME NEW t \in Trainers, SelectFails(t) \/ Die(t)
        PROVE  updates' = updates
      BY <2>8 DEF SelectFails, Die, serverVars
  <2>9. CASE Orphans
    <3>1. PICK o \in orphans : OrphanCheck(o) \/ OrphanActs(o) \/ OrphanPanics(o)
        BY <2>9 DEF Orphans
    <3>2. CASE OrphanCheck(o)
        BY <2>1, <3>2 DEF OrphanCheck, serverVars
    <3> QED
        BY <2>1, <2>3, <2>5, <3>1, <3>2
  <2>10. CASE LoseLease \/ LeaseEnds \/ UNCHANGED initVars
      BY <2>1, <2>10 DEF LoseLease, LeaseEnds, initVars, serverVars
  <2> QED
      BY <2>1, <2>2, <2>6, <2>7, <2>8, <2>9, <2>10 DEF InitNext
<1> QED
    BY <1>1, InitInvariant, PTL DEF InitSpec, UpdatesKept
=============================================================================
