--------------------------- MODULE ParameterInit ---------------------------
(***************************************************************************)
(* How the trainers initialise the parameter servers.                      *)
(*                                                                         *)
(* A trainer takes the etcd lock /init_ps/lock (Etcd.Select).  If the key  *)
(* /init_ps/done is not set it sends the parameters to their servers       *)
(* (InitParam), tells every server in turn that it is done                 *)
(* (FinishInitParams) and sets the key (Done).  Otherwise it fetches the   *)
(* parameters, which waits for every server to be initialised.             *)
(*                                                                         *)
(* InitParam and FinishInitParams test the channel Service.initialized     *)
(* before they take Service.mu or close the channel, so each is two steps. *)
(* The parameters of one server are sent as one.  A lease may expire while *)
(* its holder goes on (LoseLease), etcd may return errors, trainers die    *)
(* and are restarted, and what a dead trainer has called runs on (orphans).*)
(* A server that closes its channel twice panics: its process is lost, the *)
(* calls in progress fail, and a new process takes over.                   *)
(***************************************************************************)
EXTENDS Integers

CONSTANTS
    Trainers,
    NumServers,     \* pservers of the job, /ps_desired
    MaxUpdates,     \* bound: gradients applied to a server
    MaxExpiries,    \* bound: leases that expire too early
    MaxDeaths,      \* bound: deaths of trainers
    MaxEtcdErrors,  \* bound: errors etcd returns
    Nobody,
    Gone            \* a dead trainer whose lease has not ended yet

ASSUME InitAssumption ==
    /\ Nobody \notin Trainers /\ Gone \notin Trainers /\ Nobody # Gone
    /\ NumServers \in Nat \ {0}
    /\ MaxUpdates \in Nat /\ MaxExpiries \in Nat
    /\ MaxDeaths \in Nat /\ MaxEtcdErrors \in Nat

Servers == 1..NumServers

VARIABLES
    lock,         \* the trainer whose session holds /init_ps/lock
    initDone,     \* /init_ps/done is set
    pc, at,       \* step of a trainer, and the server it talks to
    call,         \* the call of a trainer: not handled yet, "open" when it has
                  \* passed the test of initialized, "lost" with the process
    orphans,      \* calls whose trainer has died
    initialized,  \* initialized[s]: the channel of server s is closed
    updates,      \* updates[s]: gradients applied since InitParam, -1 before
    panicked,     \* servers whose process was lost by closing the channel twice
    expiries, deaths, etcdErrors

electVars == <<lock, initDone>>
callVars == <<call, orphans>>
serverVars == <<initialized, updates, panicked>>
boundVars == <<expiries, deaths, etcdErrors>>
initVars == <<electVars, pc, at, callVars, serverVars, boundVars>>

Goto(t, label) == pc' = [pc EXCEPT ![t] = label]

EtcdError ==
    /\ etcdErrors < MaxEtcdErrors
    /\ etcdErrors' = etcdErrors + 1
    /\ UNCHANGED <<expiries, deaths>>

\* What the death of a trainer leaves of its lock, until the lease ends.
Abandon(t) == lock' = IF lock = t THEN Gone ELSE lock

\* Faulty variant: the last server is forgotten.
Advance_TooShort(t, label, then) ==
    IF at[t] >= NumServers - 1
    THEN Goto(t, then) /\ at' = [at EXCEPT ![t] = 1]
    ELSE Goto(t, label) /\ at' = [at EXCEPT ![t] = @ + 1]

\* The loop over the servers goes on, or is over.
Advance(t, label, then) ==
    IF at[t] = NumServers
    THEN Goto(t, then) /\ at' = [at EXCEPT ![t] = 1]
    ELSE Goto(t, label) /\ at' = [at EXCEPT ![t] = @ + 1]

----------------------------------------------------------------------------
(* Etcd.Select.                                                            *)

SelectLock(t) ==
    /\ pc[t] = "select"
    /\ lock = Nobody
    /\ lock' = t
    /\ Goto(t, "selected")
    /\ UNCHANGED <<initDone, at, callVars, serverVars, boundVars>>

\* Faulty variant: the lock is given back when the trainer was selected.
SelectCheck_Unlocks(t) ==
    /\ pc[t] = "selected"
    /\ \/ lock # t /\ Goto(t, "dead") /\ UNCHANGED lock
       \/ lock = t /\ Goto(t, IF initDone THEN "fetch" ELSE "init") /\ lock' = Nobody
    /\ UNCHANGED <<initDone, at, callVars, serverVars, boundVars>>

\* The transaction that reads /init_ps/done, conditioned on the lock.  When it
\* is no longer owned, paddle_begin_init_params panics on Select's error; an
\* error of Unlock is only logged.
SelectCheck(t) ==
    /\ pc[t] = "selected"
    /\ \/ lock # t /\ Goto(t, "dead") /\ UNCHANGED <<lock, boundVars>>
       \/ lock = t /\ ~ initDone /\ Goto(t, "init") /\ UNCHANGED <<lock, boundVars>>
       \/ lock = t /\ initDone /\ Goto(t, "fetch") /\ lock' = Nobody /\ UNCHANGED boundVars
       \/ lock = t /\ initDone /\ Goto(t, "fetch") /\ UNCHANGED lock /\ EtcdError
    /\ UNCHANGED <<initDone, at, callVars, serverVars>>

\* NewSession, Lock or the transaction fails: it panics, too.
SelectFails(t) ==
    /\ pc[t] \in {"select", "selected"}
    /\ EtcdError
    /\ Goto(t, "dead")
    /\ Abandon(t)
    /\ UNCHANGED <<initDone, at, callVars, serverVars>>

----------------------------------------------------------------------------
(* InitParam and FinishInitParams.                                         *)

Answered(t) == call' = [call EXCEPT ![t] = "new"]

\* The select statement at the head of both handlers finds the channel open.
FindsOpen(t) ==
    /\ pc[t] \in {"init", "finish"}
    /\ call[t] = "new"
    /\ ~ initialized[at[t]]
    /\ call' = [call EXCEPT ![t] = "open"]
    /\ UNCHANGED <<electVars, pc, at, orphans, serverVars, boundVars>>

\* AlreadyInitialized: paddle_init_param treats it as successful.
InitParamRefused(t) ==
    /\ pc[t] = "init"
    /\ call[t] = "new"
    /\ initialized[at[t]]
    /\ Advance(t, "init", "finish")
    /\ UNCHANGED <<electVars, callVars, serverVars, boundVars>>

\* Under Service.mu, without a second look at the channel: newOptimizer.
InitParamStore(t) ==
    /\ pc[t] = "init"
    /\ call[t] = "open"
    /\ updates' = [updates EXCEPT ![at[t]] = 0]
    /\ Answered(t)
    /\ Advance(t, "init", "finish")
    /\ UNCHANGED <<electVars, orphans, initialized, panicked, boundVars>>

\* AlreadyInitialized ends Client.FinishInitParams before the remaining
\* servers and before Done; paddle_finish_init_params returns success.
FinishRefused(t) ==
    /\ pc[t] = "finish"
    /\ call[t] = "new"
    /\ initialized[at[t]]
    /\ Goto(t, "train")
    /\ UNCHANGED <<electVars, at, callVars, serverVars, boundVars>>

\* close(s.initialized).
FinishClose(t) ==
    /\ pc[t] = "finish"
    /\ call[t] = "open"
    /\ ~ initialized[at[t]]
    /\ initialized' = [initialized EXCEPT ![at[t]] = TRUE]
    /\ Answered(t)
    /\ Advance(t, "finish", "done")
    /\ UNCHANGED <<electVars, orphans, updates, panicked, boundVars>>

\* Closing it a second time kills the process, and with it the memory and the
\* handlers at work.  The next process finds a checkpoint or starts empty.
Panic(s) ==
    /\ initialized[s]
    /\ panicked' = panicked \cup {s}
    /\ \/ /\ initialized' = [initialized EXCEPT ![s] = FALSE]
          /\ updates' = [updates EXCEPT ![s] = -1]
       \/ /\ \E n \in 0..updates[s] : updates' = [updates EXCEPT ![s] = n]
          /\ UNCHANGED initialized
    /\ call' = [u \in Trainers |-> IF call[u] = "open" /\ at[u] = s THEN "lost" ELSE call[u]]
    /\ orphans' = {o \in orphans : o.server # s}
    /\ UNCHANGED <<electVars, pc, at, boundVars>>

FinishPanics(t) ==
    /\ pc[t] = "finish"
    /\ call[t] = "open"
    /\ Panic(at[t])

\* A call in progress is lost with the process, the next one may find the
\* connection broken.
CallFails(t) == call[t] = "lost" \/ (call[t] = "new" /\ at[t] \in panicked)

\* The result of paddle_init_param is not looked at.
InitParamLost(t) ==
    /\ pc[t] = "init"
    /\ CallFails(t)
    /\ Answered(t)
    /\ Advance(t, "init", "finish")
    /\ UNCHANGED <<electVars, orphans, serverVars, boundVars>>

\* An error ends Client.FinishInitParams; nor is its result looked at.
FinishLost(t) ==
    /\ pc[t] = "finish"
    /\ CallFails(t)
    /\ Answered(t)
    /\ Goto(t, "train")
    /\ UNCHANGED <<electVars, at, orphans, serverVars, boundVars>>

\* Faulty variant: the lock is released and the key is not set.
Done_NotSet(t) ==
    /\ pc[t] = "done"
    /\ lock' = IF lock = t THEN Nobody ELSE lock
    /\ Goto(t, "train")
    /\ UNCHANGED <<initDone, at, callVars, serverVars, boundVars>>

\* Etcd.Done, conditioned on the lock; its error is not looked at.  An error of
\* the transaction leaves the lock taken and the key set or not, one of Unlock
\* leaves the key set and the lock taken or not.
Done(t) ==
    /\ pc[t] = "done"
    /\ \/ lock = t /\ initDone' = TRUE /\ lock' = Nobody /\ UNCHANGED boundVars
       \/ lock # t /\ UNCHANGED <<electVars, boundVars>>
       \/ lock = t /\ UNCHANGED electVars /\ EtcdError
       \/ lock = t /\ initDone' = TRUE /\ lock' \in {t, Nobody} /\ EtcdError
    /\ Goto(t, "train")
    /\ UNCHANGED <<at, callVars, serverVars>>

\* GetParams returns when every server has answered, or with an error that is
\* not looked at.
Fetch(t) ==
    /\ pc[t] = "fetch"
    /\ (\A s \in Servers : initialized[s]) \/ panicked # {}
    /\ Goto(t, "train")
    /\ UNCHANGED <<electVars, at, callVars, serverVars, boundVars>>

\* SendGrad to one server; refused while the server is not initialised or does
\* not have the parameter.
SendGrad(t, s) ==
    /\ pc[t] = "train"
    /\ initialized[s]
    /\ updates[s] \in 0..(MaxUpdates - 1)
    /\ updates' = [updates EXCEPT ![s] = @ + 1]
    /\ UNCHANGED <<electVars, pc, at, callVars, initialized, panicked, boundVars>>

----------------------------------------------------------------------------
(* Leases, deaths, and what a dead trainer has called.                     *)

\* A lease expires under a trainer that does not notice, or under a call of a
\* dead one that is still at work.
LoseLease ==
    /\ lock # Nobody
    /\ expiries < MaxExpiries
    /\ expiries' = expiries + 1
    /\ lock' = Nobody
    /\ UNCHANGED <<initDone, pc, at, callVars, serverVars, deaths, etcdErrors>>

\* The lease of a dead trainer ends when its calls are over.
LeaseEnds ==
    /\ lock = Gone
    /\ orphans = {} \/ expiries > 0
    /\ lock' = Nobody
    /\ UNCHANGED <<initDone, pc, at, callVars, serverVars, boundVars>>

\* A trainer dies.  A handler that runs for it goes on, a call that is not
\* handled yet arrives or not.
Die(t) ==
    /\ deaths < MaxDeaths
    /\ deaths' = deaths + 1
    /\ pc[t] # "dead"
    /\ Goto(t, "dead")
    /\ Abandon(t)
    /\ \/ /\ pc[t] \in {"init", "finish"} /\ call[t] # "lost"
          /\ orphans' = orphans \cup
                {[id |-> deaths', kind |-> pc[t], server |-> at[t], call |-> call[t]]}
       \/ /\ call[t] # "open"
          /\ UNCHANGED orphans
    /\ Answered(t)
    /\ UNCHANGED <<initDone, at, serverVars, expiries, etcdErrors>>

Restart(t) ==
    /\ pc[t] = "dead"
    /\ Goto(t, "select")
    /\ at' = [at EXCEPT ![t] = 1]
    /\ UNCHANGED <<electVars, callVars, serverVars, boundVars>>

\* The handler of an orphaned call looks at the channel.
OrphanCheck(o) ==
    /\ o.call = "new"
    /\ orphans' = (orphans \ {o}) \cup
            (IF initialized[o.server] THEN {} ELSE {[o EXCEPT !.call = "open"]})
    /\ UNCHANGED <<electVars, pc, at, call, serverVars, boundVars>>

\* It stores or closes, on what it saw.
OrphanActs(o) ==
    /\ o.call = "open"
    /\ orphans' = orphans \ {o}
    /\ \/ /\ o.kind = "init"
          /\ updates' = [updates EXCEPT ![o.server] = 0]
          /\ UNCHANGED initialized
       \/ /\ o.kind = "finish" /\ ~ initialized[o.server]
          /\ initialized' = [initialized EXCEPT ![o.server] = TRUE]
          /\ UNCHANGED updates
    /\ UNCHANGED <<electVars, pc, at, call, panicked, boundVars>>

OrphanPanics(o) ==
    /\ o.call = "open"
    /\ o.kind = "finish"
    /\ Panic(o.server)

InitInit ==
    /\ lock = Nobody /\ initDone = FALSE
    /\ pc = [t \in Trainers |-> "select"]
    /\ at = [t \in Trainers |-> 1]
    /\ call = [t \in Trainers |-> "new"]
    /\ orphans = {}
    /\ initialized = [s \in Servers |-> FALSE]
    /\ updates = [s \in Servers |-> -1]
    /\ panicked = {}
    /\ expiries = 0 /\ deaths = 0 /\ etcdErrors = 0

Step(t) ==
    \/ SelectLock(t) \/ SelectCheck(t)
    \/ FindsOpen(t)
    \/ InitParamRefused(t) \/ InitParamStore(t) \/ InitParamLost(t)
    \/ FinishRefused(t) \/ FinishClose(t) \/ FinishPanics(t) \/ FinishLost(t)
    \/ Done(t) \/ Fetch(t)
    \/ Restart(t)

Orphans == \E o \in orphans : OrphanCheck(o) \/ OrphanActs(o) \/ OrphanPanics(o)

InitNext ==
    \/ \E t \in Trainers : Step(t) \/ SelectFails(t) \/ Die(t)
    \/ \E t \in Trainers, s \in Servers : SendGrad(t, s)
    \/ Orphans
    \/ LoseLease \/ LeaseEnds

\* Live trainers go on and dead ones are restarted, handlers run on, and the
\* leases of the dead end.
InitSpec ==
    /\ InitInit
    /\ [][InitNext]_initVars
    /\ \A t \in Trainers : WF_initVars(Step(t))
    /\ WF_initVars(Orphans) /\ WF_initVars(LeaseEnds)

----------------------------------------------------------------------------
(* Properties.                                                             *)

\* Types of the trainers, their calls, the servers and the keys in etcd.
InitTypeOK ==
    /\ lock \in Trainers \cup {Nobody, Gone}
    /\ initDone \in BOOLEAN
    /\ pc \in [Trainers -> {"select", "selected", "init", "finish", "done", "fetch", "train", "dead"}]
    /\ at \in [Trainers -> Servers]
    /\ call \in [Trainers -> {"new", "open", "lost"}]
    /\ orphans \subseteq [id : 1..MaxDeaths, kind : {"init", "finish"},
                          server : Servers, call : {"new", "open"}]
    /\ initialized \in [Servers -> BOOLEAN]
    /\ updates \in [Servers -> -1..MaxUpdates]
    /\ panicked \subseteq Servers
    /\ expiries \in 0..MaxExpiries /\ deaths \in 0..MaxDeaths
    /\ etcdErrors \in 0..MaxEtcdErrors

\* The key /init_ps/done tells the truth about every server that has not
\* panicked: it has its parameters and serves, also when leases expired, etcd
\* returned errors and trainers died on the way.  Trainers that find the key
\* skip the initialisation.  A server that closed its channel twice may be
\* empty under the key: KeyCoversEveryServer.
DoneIsTrue == initDone => \A s \in Servers \ panicked : initialized[s] /\ updates[s] >= 0

\* The key tells the truth about every server.
KeyCoversEveryServer == initDone => \A s \in Servers : initialized[s] /\ updates[s] >= 0

\* While leases hold, no InitParam throws away the gradients an initialised
\* server has applied, although the handler looks at the channel before it
\* takes the lock and not again, and outlives the trainer that called it.
UpdatesKept ==
    [][expiries = 0 => \A s \in Servers : initialized[s] => updates'[s] >= updates[s]]_initVars

\* While leases hold, a second FinishInitParams is refused, it does not kill
\* the server by closing the channel again.
NoDoubleClose == expiries = 0 => panicked = {}

\* The initialisation comes to an end: every server serves and every trainer
\* gets through Select.
JobInitializes ==
    <>[](\A s \in Servers : initialized[s]) /\ \A t \in Trainers : <>(pc[t] = "train")

\* It does so when no trainer dies, no lease expires and etcd returns no error:
\* an error of Done's transaction leaves a live trainer with the lock, and all
\* the others wait in Select.
CalmJobInitializes ==
    <>(deaths > 0 \/ expiries > 0 \/ etcdErrors > 0) \/ JobInitializes
=============================================================================
