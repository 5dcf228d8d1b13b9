----------------------------- MODULE SyncTraining -----------------------------
(***************************************************************************)
(* Synchronous distributed training in fluid: one parameter server that    *)
(* runs ListenAndServOp::RunSyncLoop on top of RPCServer's barriers, and   *)
(* trainers that run send, send_barrier, recv and fetch_barrier for every  *)
(* batch and close their executor when they are out of data.               *)
(*                                                                         *)
(* Gradients are round numbers: recv[g][t] is the round of trainer t's     *)
(* gradient g that lies in the server's receive scope, 0 when it was set   *)
(* to zero (dense) or has no rows (sparse).  The parameters are the number *)
(* of rounds that were optimised.                                          *)
(*                                                                         *)
(* Each action is one critical section of RPCServer::mutex_ or one piece   *)
(* of work outside of it.  A wait on a condition variable is a guard: every *)
(* change that can make a predicate true is made under the mutex and       *)
(* notifies.  A call and its answer are reliable, as in the code, where an *)
(* RPC error is LOG(FATAL).                                                *)
(***************************************************************************)
EXTENDS Integers, FiniteSets

CONSTANTS Trainers,     \* the trainers, Fanin of them
          Dense,        \* gradients that are LoDTensors
          Sparse,       \* gradients that are SelectedRows
          MaxRounds,    \* bound on the batches of a trainer
          SendThreads   \* rpc_send_thread_num

ASSUME SyncAssumption ==
    /\ IsFiniteSet(Trainers)
    /\ Dense \cap Sparse = {}
    /\ MaxRounds \in Nat
    /\ SendThreads \in Nat \ {0}

Grads == Dense \cup Sparse
Rounds == 0..MaxRounds

VARIABLES
    loop,       \* the next step of RunSyncLoop
    cond,       \* cur_cond_
    counter,    \* barrier_counter_
    clientNum,  \* client_num_
    needReset,  \* need_reset_all_vars_
    recv,       \* the received variables
    version,    \* the parameters
    at,         \* where each trainer is in its program
    round,      \* the batch each trainer is at
    flying,     \* each trainer's gradients on the way to the server
    gated,      \* each trainer's gradients that wait in a handler
    got,        \* the parameters each trainer received last
    departure   \* history: the phase in which a Complete was handled

server == <<loop, cond, counter, clientNum, needReset, recv, version>>
trainer == <<at, round, flying, gated, got, departure>>
syncVars == <<server, trainer>>

-----------------------------------------------------------------------------
(* RPCServer *)

(* Faulty variant: the barrier waits for one trainer less. *)
WaitBarrier_OneShort(rpc) == counter[rpc] >= clientNum - 1 /\ clientNum # 0

WaitBarrier(rpc) == counter[rpc] = clientNum /\ clientNum # 0

SetCond(rpc) == cond' = rpc

(* Faulty variant: a request does not wait for its phase. *)
WaitCond_Open(rpc) == TRUE

WaitCond(rpc) == cond = rpc

(* Faulty variant: an arrival counts twice. *)
IncreaseBatchBarrier_Twice(rpc) == counter' = [counter EXCEPT ![rpc] = @ + 2]

IncreaseBatchBarrier(rpc) == counter' = [counter EXCEPT ![rpc] = @ + 1]

(* Faulty variant: a departed trainer keeps its place at the barriers. *)
TakenBack_Never == counter

\* A trainer that leaves takes its fetch barrier of the running get phase back.
TakenBack == IF cond = "Get" THEN [counter EXCEPT !["Get"] = @ - 1] ELSE counter

Complete ==
    /\ clientNum' = clientNum - 1
    /\ needReset' = TRUE
    /\ counter' = TakenBack

ResetBarrierCounter ==
    /\ counter' = [rpc \in {"Send", "Get"} |-> 0]
    /\ needReset' = FALSE

-----------------------------------------------------------------------------
(* ListenAndServOp::RunSyncLoop; the start of the loop is the end of it      *)

StepTo(from, to) == loop = from /\ loop' = to

OpenGet ==
    /\ StepTo("openGet", "waitGet")
    /\ SetCond("Get")
    /\ UNCHANGED <<counter, clientNum, needReset, recv, version, trainer>>

PassGet ==
    /\ StepTo("waitGet", "reset")
    /\ WaitBarrier("Get")
    /\ UNCHANGED <<cond, counter, clientNum, needReset, recv, version, trainer>>

Reset ==
    /\ StepTo("reset", "openSend")
    /\ ResetBarrierCounter
    /\ UNCHANGED <<cond, clientNum, recv, version, trainer>>

OpenSend ==
    /\ StepTo("openSend", "waitSend")
    /\ SetCond("Send")
    /\ UNCHANGED <<counter, clientNum, needReset, recv, version, trainer>>

PassSend ==
    /\ StepTo("waitSend", "optimize")
    /\ WaitBarrier("Send")
    /\ UNCHANGED <<cond, counter, clientNum, needReset, recv, version, trainer>>

\* The optimize blocks merge what is in the receive scope.
Optimize ==
    /\ StepTo("optimize", "clear")
    /\ version' = version + 1
    /\ UNCHANGED <<cond, counter, clientNum, needReset, recv, trainer>>

Zeros == [t \in Trainers |-> 0]

(* Faulty variant: dense gradients of the departed are kept. *)
Cleared_SparseOnly == [g \in Grads |-> IF g \in Sparse THEN Zeros ELSE recv[g]]

Cleared == [g \in Grads |-> IF g \in Sparse \/ needReset THEN Zeros ELSE recv[g]]

ResetReceivedVars ==
    /\ StepTo("clear", "openGet")
    /\ recv' = Cleared
    /\ UNCHANGED <<cond, counter, clientNum, needReset, version, trainer>>

-----------------------------------------------------------------------------
(* The threads that handle requests of the send queue *)

SendThreadFree ==
    Cardinality({p \in Trainers \X Grads : p[2] \in gated[p[1]]}) < SendThreads

\* The message is parsed into the receive scope before the handler is called.
ReceiveGrad(t, g) ==
    /\ g \in flying[t]
    /\ SendThreadFree
    /\ flying' = [flying EXCEPT ![t] = @ \ {g}]
    /\ gated' = [gated EXCEPT ![t] = @ \cup {g}]
    /\ recv' = [recv EXCEPT ![g][t] = round[t]]
    /\ UNCHANGED <<loop, cond, counter, clientNum, needReset, version,
                   at, round, got, departure>>

\* The rest of RequestSendHandler::Handle and the answer.
AnswerGrad(t, g) ==
    /\ g \in gated[t]
    /\ WaitCond("Send")
    /\ gated' = [gated EXCEPT ![t] = @ \ {g}]
    /\ UNCHANGED <<server, at, round, flying, got, departure>>

-----------------------------------------------------------------------------
(* The trainers *)

Goto(t, from, to) == at[t] = from /\ at' = [at EXCEPT ![t] = to]

\* recv_op, through the gate of RequestGetHandler.
GetStart(t) ==
    /\ Goto(t, "get", "reading")
    /\ WaitCond("Get")
    /\ UNCHANGED <<server, round, flying, gated, got, departure>>

GetEnd(t) ==
    /\ Goto(t, "reading", "fetched")
    /\ got' = [got EXCEPT ![t] = version]
    /\ UNCHANGED <<server, round, flying, gated, departure>>

\* fetch_barrier_op: not gated.
FetchBarrier(t) ==
    /\ Goto(t, "fetched", "forward")
    /\ IncreaseBatchBarrier("Get")
    /\ UNCHANGED <<loop, cond, clientNum, needReset, recv, version,
                   round, flying, gated, got, departure>>

\* checkpoint_notify_op between two batches: reads the parameters, not gated.
CheckpointStart(t) ==
    /\ Goto(t, "forward", "saving")
    /\ UNCHANGED <<server, round, flying, gated, got, departure>>

CheckpointEnd(t) ==
    /\ Goto(t, "saving", "saved")
    /\ UNCHANGED <<server, round, flying, gated, got, departure>>

\* prefetch_op in a batch: reads the parameters, not gated.
PrefetchStart(t) ==
    /\ round[t] < MaxRounds
    /\ Goto(t, "forward", "prefetching") \/ Goto(t, "saved", "prefetching")
    /\ UNCHANGED <<server, round, flying, gated, got, departure>>

PrefetchEnd(t) ==
    /\ Goto(t, "prefetching", "backward")
    /\ UNCHANGED <<server, round, flying, gated, got, departure>>

\* send_op: a sparse gradient without rows is not sent (NeedSend).
SendGrads(t) ==
    /\ Goto(t, "backward", "send")
    /\ round' = [round EXCEPT ![t] = @ + 1]
    /\ \E sent \in SUBSET Sparse : flying' = [flying EXCEPT ![t] = Dense \cup sent]
    /\ UNCHANGED <<server, gated, got, departure>>

\* What send_barrier_op waits for before it sends.
AllAnswered(t) == flying[t] = {} /\ gated[t] = {}

BatchBarrier(t) ==
    /\ Goto(t, "send", "get")
    /\ AllAnswered(t)
    /\ SendThreadFree
    /\ IncreaseBatchBarrier("Send")
    /\ UNCHANGED <<loop, cond, clientNum, needReset, recv, version,
                   round, flying, gated, got, departure>>

\* Executor::Close between two batches.
Close(t) ==
    /\ Goto(t, "forward", "closed") \/ Goto(t, "saved", "closed")
    /\ SendThreadFree
    /\ Complete
    /\ departure' = [departure EXCEPT ![t] = loop]
    /\ UNCHANGED <<loop, cond, recv, version, round, flying, gated, got>>

-----------------------------------------------------------------------------
SyncInit ==
    /\ loop = "openGet"
    /\ cond = "Send"
    /\ counter = [rpc \in {"Send", "Get"} |-> 0]
    /\ clientNum = Cardinality(Trainers)
    /\ needReset = FALSE
    /\ recv = [g \in Grads |-> [t \in Trainers |-> 0]]
    /\ version = 0
    /\ at = [t \in Trainers |-> "get"]
    /\ round = [t \in Trainers |-> 0]
    /\ flying = [t \in Trainers |-> {}]
    /\ gated = [t \in Trainers |-> {}]
    /\ got = [t \in Trainers |-> 0]
    /\ departure = [t \in Trainers |-> "none"]

ServerStep ==
    OpenGet \/ PassGet \/ Reset \/ OpenSend \/ PassSend \/ Optimize \/ ResetReceivedVars

HandlerStep(t) == \E g \in Grads : ReceiveGrad(t, g) \/ AnswerGrad(t, g)

TrainerStep(t) ==
    \/ GetStart(t) \/ GetEnd(t) \/ FetchBarrier(t)
    \/ CheckpointStart(t) \/ CheckpointEnd(t)
    \/ PrefetchStart(t) \/ PrefetchEnd(t)
    \/ SendGrads(t) \/ BatchBarrier(t)

SyncNext ==
    \/ ServerStep
    \/ \E t \in Trainers : HandlerStep(t) \/ TrainerStep(t) \/ Close(t)

\* Threads and the network make progress; a trainer out of data closes.
SyncSpec ==
    /\ SyncInit /\ [][SyncNext]_syncVars
    /\ WF_syncVars(ServerStep)
    /\ \A t \in Trainers :
        /\ WF_syncVars(HandlerStep(t))
        /\ WF_syncVars(TrainerStep(t))
        /\ WF_syncVars(Close(t))

-----------------------------------------------------------------------------
(* Properties *)

Active == {t \in Trainers : at[t] # "closed"}

\* Types of the server's and the trainers' state; also: no barrier counts more
\* arrivals than there are trainers, and client_num_ never falls below zero.
SyncTypeOK ==
    /\ loop \in {"openGet", "waitGet", "reset", "openSend", "waitSend", "optimize", "clear"}
    /\ cond \in {"Send", "Get"}
    /\ counter \in [{"Send", "Get"} -> -Cardinality(Trainers)..Cardinality(Trainers)]
    /\ clientNum \in 0..Cardinality(Trainers)
    /\ needReset \in BOOLEAN
    /\ recv \in [Grads -> [Trainers -> Rounds]]
    /\ version \in Rounds
    /\ at \in [Trainers -> {"get", "reading", "fetched", "forward", "prefetching",
                            "saving", "saved", "backward", "send", "closed"}]
    /\ round \in [Trainers -> Rounds]
    /\ flying \in [Trainers -> SUBSET Grads]
    /\ gated \in [Trainers -> SUBSET Grads]
    /\ got \in [Trainers -> Rounds]

\* When the optimize blocks run, the receive scope holds of every trainer that
\* has not left exactly the gradients of this round: none missing, none of the
\* round before, none of the next (RunSyncLoop, RequestSendHandler::Handle).
FreshMerge ==
    loop = "optimize" =>
        \A t \in Active :
            /\ \A g \in Dense : recv[g][t] = version + 1
            /\ \A g \in Sparse : recv[g][t] \in {0, version + 1}

\* A trainer that left while gradients were collected is merged at most once
\* more; only one that left in a get phase stays in the receive scope, because
\* ResetBarrierCounter clears need_reset_all_vars_ before it is looked at.
DepartedForgotten ==
    loop = "optimize" =>
        \A t \in Trainers \ Active :
            /\ \A g \in Sparse : recv[g][t] = 0
            /\ \A g \in Dense :
                \/ recv[g][t] = 0
                \/ round[t] = version
                \/ departure[t] \in {"waitGet", "reset"}

\* Requests that the server does not gate (fetch barriers apart: prefetch and
\* checkpoint_notify) and the gated reads never overlap the optimize blocks,
\* and a trainer computes with the parameters of exactly its own round.
LockStep ==
    /\ loop = "optimize" =>
        \A t \in Trainers : at[t] \notin {"reading", "prefetching", "saving"}
    /\ \A t \in Trainers :
        at[t] \in {"fetched", "forward", "saving", "saved", "prefetching", "backward"}
            => got[t] = round[t] /\ (at[t] # "fetched" => version = round[t])

Finished == Active = {}

\* Unless a Complete is handled between ResetBarrierCounter and SetCond(Send),
\* training ends for every trainer, whoever leaves when: no barrier waits for
\* a trainer that is gone.
TrainingEnds == <>(Finished \/ \E t \in Trainers : departure[t] = "openSend")

Fetched(t) == at[t] \in {"forward", "saving", "saved", "prefetching", "backward", "send"}

\* "Wait util all the clients have reached the barrier for one rpc method"
\* (rpc_server.h): once every remaining client has sent its fetch barrier the
\* get barrier is passed.
BarrierReleases ==
    (loop = "waitGet" /\ \A t \in Active : Fetched(t)) ~> (loop = "reset" \/ Finished)
=============================================================================
