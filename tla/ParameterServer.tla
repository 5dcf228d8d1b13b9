-------------------------- MODULE ParameterServer --------------------------
(***************************************************************************)
(* One parameter server and its checkpoints (go/pserver/service.go): the   *)
(* parameters, the goroutine that saves them periodically, the file it     *)
(* writes, the meta data it puts into etcd, and what a new process loads.  *)
(*                                                                         *)
(* A parameter is the number of gradients applied to its weights and to    *)
(* its optimizer state.  checkpoint() copies the states under Service.mu;  *)
(* the weights are a slice of the live buffer and are read parameter by    *)
(* parameter when the checkpoint is encoded, after Service.mu is released. *)
(* A serialised state contains the weights, too, and a new process takes   *)
(* them from there.                                                        *)
(***************************************************************************)
EXTENDS Integers

CONSTANTS
    Params,       \* the parameters of this server
    MaxUpdates,   \* bound: gradients applied to a parameter
    MaxSaves,     \* bound: checkpoints begun, the names of their files
    MaxCrashes,   \* bound: crashes of the process
    MaxTrainers,  \* bound: trainers selected one after the other
    EtcdFaults,   \* TRUE when GetKey and PutKey may return an error
    NoValue,      \* no such parameter, file or key
    Partial       \* a file that was not written to its end

ASSUME ServerAssumption ==
    /\ MaxUpdates \in Nat /\ MaxSaves \in Nat /\ MaxCrashes \in Nat
    /\ MaxTrainers \in Nat \ {0}
    /\ EtcdFaults \in BOOLEAN
    /\ NoValue \notin Nat \cup [weights : Nat, state : Nat]
    /\ {NoValue, Partial} \cap [Params -> [weights : Nat, state : Nat] \cup {NoValue}] = {}
    /\ Partial # NoValue

Versions == 0..MaxUpdates
FileNames == 1..MaxSaves

VARIABLES
    up,           \* the process runs
    optMap,       \* optMap[p]: parameter p in memory
    initialized,  \* the channel Service.initialized is closed
    trainers,     \* trainers that were selected so far
    sent,         \* parameters the last one has called InitParam for
    finished,     \* it has called FinishInitParams
    initDone,     \* it has set /init_ps/done
    saver,        \* step of the checkpoint goroutine, "off" when there is none
    states,       \* its copy of the optimizer states
    buf,          \* what it has encoded so far
    saves,        \* checkpoints begun, the last one's file name
    files,        \* files[f]: content of checkpoint file f
    meta,         \* the file the key in etcd names
    crashes,
    safe,         \* history: states of the last checkpoint reported complete
    torn,         \* history: the file the key names was removed, and the key
                  \* has not been put since
    left          \* history: files that a failed step or a crash left behind

memVars == <<optMap, initialized>>
trainerVars == <<trainers, sent, finished, initDone>>
saverVars == <<saver, states, buf>>
diskVars == <<files, meta, torn, left>>
serverVars == <<up, memVars, trainerVars, saverVars, saves, diskVars, crashes, safe>>

Parameter == [weights : Versions, state : Versions]

Absent == [p \in Params |-> NoValue]

----------------------------------------------------------------------------
(* RPC handlers.  The trainer that was selected to initialise the          *)
(* parameters looks at no error: a call to a dead server is simply lost.   *)

InitParam(p) ==
    /\ p \notin sent
    /\ sent' = sent \cup {p}
    /\ optMap' = IF up /\ ~ initialized
                 THEN [optMap EXCEPT ![p] = [weights |-> 0, state |-> 0]]
                 ELSE optMap
    /\ UNCHANGED <<up, initialized, trainers, finished, initDone>>
    /\ UNCHANGED <<saverVars, saves, diskVars, crashes, safe>>

\* FinishInitParams starts the checkpoint goroutine.  The trainer goes on with
\* the other servers and with Etcd.Done, which may fail; when the call itself
\* fails it does neither, and it does not call again.
FinishInitParams ==
    /\ sent = Params /\ ~ finished
    /\ finished' = TRUE
    /\ \/ /\ up /\ ~ initialized
          /\ initialized' = TRUE
          /\ saver' = "idle"
          /\ initDone' \in BOOLEAN
       \/ /\ ~ up \/ initialized
          /\ UNCHANGED <<initialized, saver, initDone>>
    /\ UNCHANGED <<up, optMap, trainers, sent, states, buf, saves, diskVars, crashes, safe>>

\* The trainer dies before the key is set, and Select lets another one begin.
Reselect ==
    /\ ~ initDone
    /\ trainers < MaxTrainers
    /\ trainers' = trainers + 1
    /\ sent' = {} /\ finished' = FALSE
    /\ UNCHANGED <<up, memVars, initDone, saverVars, saves, diskVars, crashes, safe>>

\* SendGrad and UpdateParameter; refused before the initialisation.
SendGrad(p) ==
    /\ up /\ initialized
    /\ optMap[p] # NoValue
    /\ optMap[p].weights < MaxUpdates /\ optMap[p].state < MaxUpdates
    /\ optMap' = [optMap EXCEPT ![p] = [weights |-> @.weights + 1, state |-> @.state + 1]]
    /\ UNCHANGED <<up, initialized, trainerVars, saverVars, saves, diskVars, crashes, safe>>

----------------------------------------------------------------------------
(* checkpoint().                                                           *)

\* Under Service.mu: the states are copied, the weights are referred to.
Collect ==
    /\ saver = "idle"
    /\ saves < MaxSaves
    /\ saves' = saves + 1
    /\ states' = [p \in Params |-> IF optMap[p] = NoValue THEN NoValue ELSE optMap[p].state]
    /\ buf' = Absent
    /\ saver' = "collected"
    /\ UNCHANGED <<up, memVars, trainerVars, diskVars, crashes, safe>>

\* Service.mu is released: the encoder reads the weights of one parameter.
Encode(p) ==
    /\ saver = "collected"
    /\ states[p] # NoValue /\ buf[p] = NoValue
    /\ buf' = [buf EXCEPT ![p] = [weights |-> optMap[p].weights, state |-> states[p]]]
    /\ UNCHANGED <<up, memVars, trainerVars, saver, states, saves, diskVars, crashes, safe>>

Encoded == \A p \in Params : buf[p] = NoValue <=> states[p] = NoValue

\* Faulty variant: Flush is forgotten.
WriteFile_NoFlush ==
    /\ saver = "collected"
    /\ Encoded
    /\ files' = [files EXCEPT ![saves] = Partial]
    /\ saver' = "written"
    /\ UNCHANGED <<up, memVars, trainerVars, states, buf, saves, meta, torn, left, crashes, safe>>

\* Create, Write and Flush a file with a new name.
WriteFile ==
    /\ saver = "collected"
    /\ Encoded
    /\ files' = [files EXCEPT ![saves] = buf]
    /\ saver' = "written"
    /\ UNCHANGED <<up, memVars, trainerVars, states, buf, saves, meta, torn, left, crashes, safe>>

\* One of them fails or the process dies in it: a part of the file is left.
PartlyWritten ==
    /\ saver = "collected"
    /\ Encoded
    /\ files' = [files EXCEPT ![saves] = Partial]
    /\ left' = left \cup {saves}

\* Faulty variant: the previous file stays.
RemoveOld_Never ==
    /\ saver = "written"
    /\ saver' = "removed"
    /\ UNCHANGED <<up, memVars, trainerVars, states, buf, saves, diskVars, crashes, safe>>

\* loadMeta and os.Remove: the file of the previous checkpoint goes.  An error
\* of os.Remove is only logged.
RemoveOld ==
    /\ saver = "written"
    /\ \/ /\ files' = [f \in FileNames |-> IF f = meta THEN NoValue ELSE files[f]]
          /\ torn' = (meta # NoValue)
          /\ UNCHANGED left
       \/ /\ meta # NoValue
          /\ left' = left \cup {meta}
          /\ UNCHANGED <<files, torn>>
    /\ saver' = "removed"
    /\ UNCHANGED <<up, memVars, trainerVars, states, buf, saves, meta, crashes, safe>>

\* PutKey.
PutMeta ==
    /\ saver = "removed"
    /\ meta' = saves
    /\ torn' = FALSE
    /\ safe' = states
    /\ saver' = "idle" /\ states' = Absent /\ buf' = Absent
    /\ UNCHANGED <<up, memVars, trainerVars, saves, files, left, crashes>>

\* An operation of checkpoint() returns an error: the file cannot be written,
\* GetKey fails, PutKey fails or its answer is lost.  The goroutine logs the
\* error and waits for the next tick.
CheckpointError ==
    /\ \/ saver = "collected" /\ UNCHANGED diskVars
       \/ PartlyWritten /\ UNCHANGED <<meta, torn>>
       \/ /\ EtcdFaults /\ saver \in {"written", "removed"}
          /\ left' = left \cup {saves} /\ UNCHANGED <<files, meta, torn>>
       \/ /\ EtcdFaults /\ saver = "removed"
          /\ meta' = saves /\ torn' = FALSE /\ UNCHANGED <<files, left>>
    /\ saver' = "idle" /\ states' = Absent /\ buf' = Absent
    /\ UNCHANGED <<up, memVars, trainerVars, saves, crashes, safe>>

----------------------------------------------------------------------------
(* The process.                                                            *)

Crash ==
    /\ up
    /\ crashes < MaxCrashes
    /\ crashes' = crashes + 1
    /\ up' = FALSE
    /\ optMap' = Absent
    /\ initialized' = FALSE
    /\ saver' = "off"
    /\ states' = Absent
    /\ buf' = Absent
    /\ \/ saver \in {"off", "idle", "collected"} /\ UNCHANGED <<files, left>>
       \/ PartlyWritten
       \/ saver \in {"written", "removed"} /\ left' = left \cup {saves} /\ UNCHANGED files
    /\ UNCHANGED <<trainerVars, saves, meta, torn, safe>>

\* newOptimizer with a state: DeserializeState overwrites the weights that came
\* with the parameter by the ones in the state.
Loaded(content) ==
    [p \in Params |-> IF content[p] = NoValue THEN NoValue
                      ELSE [weights |-> content[p].state, state |-> content[p].state]]

\* LoadCheckpoint reads a file of which the checksum is right.
Loadable == meta # NoValue /\ files[meta] \notin {NoValue, Partial}

\* Faulty variant: the content of the checkpoint is not used.
Start_Fresh ==
    /\ ~ up
    /\ meta = NoValue \/ Loadable
    /\ optMap' = [p \in Params |-> [weights |-> 0, state |-> 0]]
    /\ initialized' = (meta # NoValue)
    /\ up' = TRUE
    /\ UNCHANGED <<trainerVars, saverVars, saves, diskVars, crashes, safe>>

\* Faulty variant: the weights are taken from the file.
Start_FileWeights ==
    /\ ~ up
    /\ meta = NoValue \/ Loadable
    /\ optMap' = IF meta = NoValue THEN Absent ELSE files[meta]
    /\ initialized' = (meta # NoValue)
    /\ up' = TRUE
    /\ UNCHANGED <<trainerVars, saverVars, saves, diskVars, crashes, safe>>

\* main: LoadCheckpoint, then NewService.  A missing or broken file makes main
\* panic, so the process does not get up; a missing key means there is no
\* checkpoint, and a checkpoint without parameters is decoded as nil, which is
\* none either.  The checkpoint goroutine is not started.
Start ==
    /\ ~ up
    /\ \/ /\ meta = NoValue
          /\ UNCHANGED memVars
       \/ /\ Loadable
          /\ optMap' = Loaded(files[meta])
          /\ initialized' = (files[meta] # Absent)
    /\ up' = TRUE
    /\ UNCHANGED <<trainerVars, saverVars, saves, diskVars, crashes, safe>>

ServerInit ==
    /\ up = TRUE
    /\ optMap = Absent /\ initialized = FALSE
    /\ trainers = 1 /\ sent = {} /\ finished = FALSE /\ initDone = FALSE
    /\ saver = "off" /\ states = Absent /\ buf = Absent
    /\ saves = 0
    /\ files = [f \in FileNames |-> NoValue]
    /\ meta = NoValue
    /\ crashes = 0
    /\ safe = Absent /\ torn = FALSE /\ left = {}

checkpoint ==
    \/ Collect \/ \E p \in Params : Encode(p)
    \/ WriteFile \/ RemoveOld \/ PutMeta

ServerNext ==
    \/ \E p \in Params : InitParam(p) \/ SendGrad(p)
    \/ FinishInitParams \/ Reselect
    \/ checkpoint \/ CheckpointError
    \/ Crash \/ Start

ServerSpec == ServerInit /\ [][ServerNext]_serverVars

----------------------------------------------------------------------------
(* Properties.                                                             *)

Stored == [Params -> Parameter \cup {NoValue}]

\* Types of the server, its checkpoint in progress, the file and the key.
ServerTypeOK ==
    /\ up \in BOOLEAN /\ initialized \in BOOLEAN
    /\ trainers \in 1..MaxTrainers /\ sent \subseteq Params
    /\ finished \in BOOLEAN /\ initDone \in BOOLEAN
    /\ optMap \in Stored
    /\ saver \in {"off", "idle", "collected", "written", "removed"}
    /\ states \in [Params -> Versions \cup {NoValue}]
    /\ buf \in Stored
    /\ saves \in 0..MaxSaves
    /\ files \in [FileNames -> Stored \cup {NoValue, Partial}]
    /\ meta \in FileNames \cup {NoValue}
    /\ crashes \in 0..MaxCrashes
    /\ safe \in [Params -> Versions \cup {NoValue}]
    /\ torn \in BOOLEAN /\ left \subseteq FileNames

\* A checkpoint that was reported complete is not lost: the server that
\* serves has at least the updates of the last one, through crashes, failed
\* checkpoints and a PutKey of which the answer was lost.
SafeUpdatesKept ==
    up /\ initialized =>
        \A p \in Params : safe[p] # NoValue =>
            optMap[p] # NoValue /\ optMap[p].weights >= safe[p] /\ optMap[p].state >= safe[p]

\* The weights and the optimizer state of a parameter are of the same update,
\* also after a recovery from a checkpoint that was encoded while gradients
\* were applied, in which the two differ.
Coherent ==
    \A p \in Params : optMap[p] # NoValue => optMap[p].weights = optMap[p].state

\* The key names a file that was written to its end, through crashes and errors
\* at every step of a checkpoint; only between os.Remove and PutKey, or when the
\* server dies or PutKey fails there, it names none.
NamedFileLoads ==
    meta # NoValue => files[meta] \in Stored \/ (files[meta] = NoValue /\ torn)

\* Checkpoints do not pile up on the disk: apart from the file the key names and
\* the one being made there are only those that a failed checkpoint, a failed
\* os.Remove or a crash left behind.
NoStrayFiles ==
    \A f \in FileNames : files[f] # NoValue =>
        f = meta \/ f \in left \/ (f = saves /\ saver \in {"written", "removed"})

\* Whenever a server is down, the checkpoint its key names can be loaded.
CheckpointLoadable ==
    ~ up /\ meta # NoValue => files[meta] # NoValue

\* A server that serves has every parameter.
ServesEverything ==
    up /\ initialized => \A p \in Params : optMap[p] # NoValue
=============================================================================
