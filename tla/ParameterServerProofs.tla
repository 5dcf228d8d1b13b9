------------------------ MODULE ParameterServerProofs ------------------------
(***************************************************************************)
(* Proofs about ParameterServer for any parameters and any number of       *)
(* updates, checkpoints, crashes and trainers, with errors at every step   *)
(* of a checkpoint: a completed checkpoint is never lost, what a server    *)
(* holds is coherent, the key names a whole file unless the crash came     *)
(* between os.Remove and PutKey, and the disk holds no file too many.      *)
(***************************************************************************)
EXTENDS ParameterServer, TLAPS

Saving == saver \in {"collected", "written", "removed"}

\* A process that is down has nothing in memory.
DownIsEmpty == ~ up => initialized = FALSE /\ saver = "off" /\ optMap = Absent

\* The checkpoint goroutine runs only in an initialised server.
SaverServes == saver # "off" => initialized

\* The key never names a file that is still to be written, and the file it
\* names is gone or left behind before it is put again.
KeyIsWritten ==
    /\ Saving => saves \in FileNames
    /\ meta # NoValue => meta <= saves
    /\ meta # NoValue /\ Saving => meta < saves
    /\ saver \in {"written", "removed"} => files[saves] \in Stored
    /\ saver = "removed" /\ meta # NoValue => files[meta] = NoValue \/ meta \in left

\* The copied states are not ahead of the parameters.
CopyIsBehind ==
    Saving => \A p \in Params : states[p] # NoValue =>
        optMap[p] # NoValue /\ states[p] <= optMap[p].state

\* What is encoded, and later the file, has the copied states.
EncodedIsCopied ==
    saver = "collected" => \A p \in Params : buf[p] # NoValue =>
        states[p] # NoValue /\ buf[p].state = states[p]

FileIsCopied ==
    saver \in {"written", "removed"} =>
        \A p \in Params : states[p] # NoValue =>
            files[saves][p] # NoValue /\ files[saves][p].state = states[p]

\* A checkpoint being made does not go behind the last complete one.
CopyIsNewer ==
    Saving => \A p \in Params : safe[p] # NoValue =>
        states[p] # NoValue /\ safe[p] <= states[p]

\* The file the key names, if it is there, has the last complete checkpoint
\* or a later one.
SafeOnDisk ==
    \A p \in Params : safe[p] # NoValue =>
        /\ meta # NoValue
        /\ files[meta] \in Stored =>
              files[meta][p] # NoValue /\ safe[p] <= files[meta][p].state

\* So has the memory of a process that is up.
SafeInMemory ==
    up => \A p \in Params : safe[p] # NoValue =>
        initialized /\ optMap[p] # NoValue /\ safe[p] <= optMap[p].state

\* The inductive invariant; three of the properties are a part of it.
ServerInv ==
    /\ ServerTypeOK
    /\ DownIsEmpty /\ SaverServes /\ KeyIsWritten
    /\ CopyIsBehind /\ EncodedIsCopied /\ FileIsCopied /\ CopyIsNewer
    /\ SafeOnDisk /\ SafeInMemory
    /\ Coherent
    /\ NamedFileLoads /\ NoStrayFiles

\* The fields of what is stored, and that it is told apart from NoValue.
LEMMA ParameterFields ==
    /\ \A x \in Parameter : x.weights \in Versions /\ x.state \in Versions /\ x # NoValue
    /\ \A v, w \in Versions : [weights |-> v, state |-> w] \in Parameter
    /\ \A v \in Versions : v \in Nat /\ v # NoValue
    /\ \A f \in FileNames : f \in Nat /\ f # NoValue
    /\ Absent \in Stored /\ NoValue \notin Stored /\ Partial \notin Stored
    /\ Absent \in [Params -> Versions \cup {NoValue}]
    /\ \A p \in Params : Absent[p] = NoValue
<1>1. NoValue \notin Stored /\ Partial \notin Stored
  <2>1. Stored \subseteq [Params -> [weights : Nat, state : Nat] \cup {NoValue}]
      BY DEF Stored, Parameter, Versions
  <2> QED
      BY <2>1, ServerAssumption
<1>2. Absent \in Stored /\ Absent \in [Params -> Versions \cup {NoValue}]
    BY DEF Absent, Stored
<1> QED
    BY <1>1, <1>2, ServerAssumption DEF Parameter, Versions, FileNames, Absent

\* A parameter that is there can be read.
LEMMA StoredFields ==
    ASSUME NEW s \in Stored, NEW p \in Params, s[p] # NoValue
    PROVE  s[p] \in Parameter /\ s[p].weights \in Versions /\ s[p].state \in Versions
<1> QED
    BY ParameterFields DEF Stored

\* NewService with a checkpoint: newOptimizer takes both from the state.
LEMMA LoadedParameters ==
    ASSUME NEW s \in Stored
    PROVE  /\ Loaded(s) \in Stored
           /\ \A p \in Params : Loaded(s)[p] # NoValue <=> s[p] # NoValue
           /\ \A p \in Params : s[p] # NoValue =>
                 Loaded(s)[p].weights = s[p].state /\ Loaded(s)[p].state = s[p].state
<1>1. \A p \in Params : s[p] # NoValue =>
          /\ [weights |-> s[p].state, state |-> s[p].state] \in Parameter
          /\ [weights |-> s[p].state, state |-> s[p].state] # NoValue
    BY StoredFields, ParameterFields
<1> QED
    BY <1>1 DEF Loaded, Stored

LEMMA ServerInitInv == ServerInit => ServerInv
<1> SUFFICES ASSUME ServerInit PROVE ServerInv
    OBVIOUS
<1>1. ServerTypeOK
  <2>1. files \in [FileNames -> Stored \cup {NoValue, Partial}]
      BY DEF ServerInit
  <2>2. saves \in 0..MaxSaves /\ crashes \in 0..MaxCrashes /\ trainers \in 1..MaxTrainers
      BY ServerAssumption DEF ServerInit
  <2>3. up \in BOOLEAN /\ initialized \in BOOLEAN /\ initDone \in BOOLEAN
        /\ finished \in BOOLEAN /\ torn \in BOOLEAN
      BY DEF ServerInit
  <2> QED
      BY <2>1, <2>2, <2>3, ParameterFields DEF ServerInit, ServerTypeOK
<1>2. DownIsEmpty /\ SaverServes /\ KeyIsWritten
    BY DEF ServerInit, DownIsEmpty, SaverServes, KeyIsWritten, Saving
<1>3. CopyIsBehind /\ EncodedIsCopied /\ FileIsCopied /\ CopyIsNewer
    BY DEF ServerInit, CopyIsBehind, EncodedIsCopied, FileIsCopied, CopyIsNewer, Saving
<1>4. SafeOnDisk /\ SafeInMemory /\ Coherent
    BY DEF ServerInit, SafeOnDisk, SafeInMemory, Coherent, Absent
<1>5. NamedFileLoads /\ NoStrayFiles
    BY DEF ServerInit, NamedFileLoads, NoStrayFiles
<1> QED
    BY <1>1, <1>2, <1>3, <1>4, <1>5 DEF ServerInv

\* InitParam stores a fresh parameter, but not once the server serves.
LEMMA InitParamInv ==
    ASSUME ServerInv, NEW p \in Params, InitParam(p)
    PROVE  ServerInv'
<1> USE ServerAssumption, ParameterFields, StoredFields DEF ServerInv, InitParam, memVars, trainerVars, saverVars, diskVars
<1>a. [weights |-> 0, state |-> 0] \in Parameter /\ [weights |-> 0, state |-> 0] # NoValue
    BY DEF Versions
<1>1. ServerTypeOK'
  <2>1. optMap' \in Stored
      BY <1>a DEF ServerTypeOK, Stored
  <2> QED
      BY <2>1 DEF ServerTypeOK
<1>2. (DownIsEmpty /\ SaverServes /\ KeyIsWritten)'
    BY DEF ServerTypeOK, DownIsEmpty, SaverServes, KeyIsWritten, Saving, FileNames
<1>3. CopyIsBehind' /\ EncodedIsCopied'
    BY DEF ServerTypeOK, SaverServes, CopyIsBehind, EncodedIsCopied, Saving
<1>4. FileIsCopied' /\ CopyIsNewer'
    BY DEF ServerTypeOK, SafeInMemory, FileIsCopied, CopyIsNewer, Saving
<1>5. SafeOnDisk' /\ SafeInMemory'
    BY DEF ServerTypeOK, SafeOnDisk, SafeInMemory
<1>6. Coherent'
    BY DEF ServerTypeOK, Stored, Coherent
<1>7. NamedFileLoads' /\ NoStrayFiles'
    BY DEF ServerTypeOK, NamedFileLoads, NoStrayFiles
<1> QED
    BY <1>1, <1>2, <1>3, <1>4, <1>5, <1>6, <1>7

\* SendGrad applies one gradient to the weights and to the state.
LEMMA SendGradInv ==
    ASSUME ServerInv, NEW p \in Params, SendGrad(p)
    PROVE  ServerInv'
<1> USE ServerAssumption, ParameterFields, StoredFields DEF ServerInv, SendGrad, memVars, trainerVars, saverVars, diskVars
<1>1. ServerTypeOK'
  <2>1. optMap[p].weights + 1 \in Versions /\ optMap[p].state + 1 \in Versions
      BY DEF ServerTypeOK, Versions
  <2>2. [weights |-> optMap[p].weights + 1, state |-> optMap[p].state + 1] \in Parameter
      BY <2>1
  <2>3. optMap' \in Stored
      BY <2>2 DEF ServerTypeOK, Stored
  <2> QED
      BY <2>3 DEF ServerTypeOK
<1>2. (DownIsEmpty /\ SaverServes /\ KeyIsWritten)'
    BY DEF ServerTypeOK, DownIsEmpty, SaverServes, KeyIsWritten, Saving, FileNames
<1>3. CopyIsBehind' /\ EncodedIsCopied'
    BY DEF ServerTypeOK, DownIsEmpty, CopyIsBehind, EncodedIsCopied, Saving
<1>4. FileIsCopied' /\ CopyIsNewer'
    BY DEF ServerTypeOK, SafeInMemory, FileIsCopied, CopyIsNewer, Saving
<1>5. SafeOnDisk' /\ SafeInMemory'
    BY DEF ServerTypeOK, SafeOnDisk, SafeInMemory
<1>6. Coherent'
    BY DEF ServerTypeOK, Coherent
<1>7. NamedFileLoads' /\ NoStrayFiles'
    BY DEF ServerTypeOK, NamedFileLoads, NoStrayFiles
<1> QED
    BY <1>1, <1>2, <1>3, <1>4, <1>5, <1>6, <1>7

\* FinishInitParams opens a server nothing of which is in a checkpoint yet.
LEMMA FinishInitParamsInv ==
    ASSUME ServerInv, FinishInitParams
    PROVE  ServerInv'
<1> USE ServerAssumption, ParameterFields, StoredFields DEF ServerInv, FinishInitParams, memVars, trainerVars, saverVars, diskVars
<1>1. ServerTypeOK'
    BY DEF ServerTypeOK, Stored
<1>2. (DownIsEmpty /\ SaverServes /\ KeyIsWritten)'
    BY DEF ServerTypeOK, DownIsEmpty, SaverServes, KeyIsWritten, Saving, FileNames
<1>3. CopyIsBehind' /\ EncodedIsCopied'
    BY DEF ServerTypeOK, DownIsEmpty, CopyIsBehind, EncodedIsCopied, Saving
<1>4. FileIsCopied' /\ CopyIsNewer'
    BY DEF ServerTypeOK, SafeInMemory, FileIsCopied, CopyIsNewer, Saving
<1>5. SafeOnDisk' /\ SafeInMemory'
    BY DEF ServerTypeOK, SafeOnDisk, SafeInMemory
<1>6. Coherent'
    BY DEF ServerTypeOK, Coherent
<1>7. NamedFileLoads' /\ NoStrayFiles'
    BY DEF ServerTypeOK, SaverServes, NamedFileLoads, NoStrayFiles
<1> QED
    BY <1>1, <1>2, <1>3, <1>4, <1>5, <1>6, <1>7

\* Another trainer begins.
LEMMA ReselectInv ==
    ASSUME ServerInv, Reselect
    PROVE  ServerInv'
<1> USE ServerAssumption, ParameterFields, StoredFields DEF ServerInv, Reselect, memVars, trainerVars, saverVars, diskVars
<1>1. ServerTypeOK'
  <2>1. trainers' \in 1..MaxTrainers
      BY DEF ServerTypeOK
  <2> QED
      BY <2>1 DEF ServerTypeOK
<1>2. (DownIsEmpty /\ SaverServes /\ KeyIsWritten)'
    BY DEF ServerTypeOK, DownIsEmpty, SaverServes, KeyIsWritten, Saving, FileNames
<1>3. CopyIsBehind' /\ EncodedIsCopied'
    BY DEF ServerTypeOK, DownIsEmpty, CopyIsBehind, EncodedIsCopied, Saving
<1>4. FileIsCopied' /\ CopyIsNewer'
    BY DEF ServerTypeOK, SafeInMemory, FileIsCopied, CopyIsNewer, Saving
<1>5. SafeOnDisk' /\ SafeInMemory'
    BY DEF ServerTypeOK, SafeOnDisk, SafeInMemory
<1>6. Coherent'
    BY DEF ServerTypeOK, Coherent
<1>7. NamedFileLoads' /\ NoStrayFiles'
    BY DEF ServerTypeOK, NamedFileLoads, NoStrayFiles
<1> QED
    BY <1>1, <1>2, <1>3, <1>4, <1>5, <1>6, <1>7

\* checkpoint() copies the states under Service.mu.
LEMMA CollectInv ==
    ASSUME ServerInv, Collect
    PROVE  ServerInv'
<1> USE ServerAssumption, ParameterFields, StoredFields DEF ServerInv, Collect, memVars, trainerVars, saverVars, diskVars
<1>1. ServerTypeOK'
    BY DEF ServerTypeOK, Stored
<1>2. (DownIsEmpty /\ SaverServes /\ KeyIsWritten)'
    BY DEF ServerTypeOK, DownIsEmpty, SaverServes, KeyIsWritten, Saving, FileNames
<1>3. CopyIsBehind' /\ EncodedIsCopied'
    BY DEF ServerTypeOK, DownIsEmpty, CopyIsBehind, EncodedIsCopied, Saving
<1>4. FileIsCopied' /\ CopyIsNewer'
    BY DEF ServerTypeOK, SafeInMemory, DownIsEmpty, FileIsCopied, CopyIsNewer, Saving
<1>5. SafeOnDisk' /\ SafeInMemory'
    BY DEF ServerTypeOK, SafeOnDisk, SafeInMemory
<1>6. Coherent'
    BY DEF ServerTypeOK, Coherent
<1>7. NamedFileLoads' /\ NoStrayFiles'
    BY DEF ServerTypeOK, NamedFileLoads, NoStrayFiles
<1> QED
    BY <1>1, <1>2, <1>3, <1>4, <1>5, <1>6, <1>7

\* The encoder reads the weights of one parameter without Service.mu.
LEMMA EncodeInv ==
    ASSUME ServerInv, NEW p \in Params, Encode(p)
    PROVE  ServerInv'
<1> USE ServerAssumption, ParameterFields, StoredFields DEF ServerInv, Encode, memVars, trainerVars, saverVars, diskVars
<1>1. ServerTypeOK'
  <2>1. optMap[p] # NoValue /\ states[p] \in Versions
      BY DEF ServerTypeOK, CopyIsBehind, Saving
  <2>2. optMap[p].weights \in Versions
      BY <2>1 DEF ServerTypeOK
  <2>3. [weights |-> optMap[p].weights, state |-> states[p]] \in Parameter
      BY <2>1, <2>2
  <2>4. buf' \in Stored
      BY <2>3 DEF ServerTypeOK, Stored
  <2> QED
      BY <2>4 DEF ServerTypeOK
<1>2. (DownIsEmpty /\ SaverServes /\ KeyIsWritten)'
    BY DEF ServerTypeOK, DownIsEmpty, SaverServes, KeyIsWritten, Saving, FileNames
<1>3. CopyIsBehind' /\ EncodedIsCopied'
    BY DEF ServerTypeOK, DownIsEmpty, CopyIsBehind, EncodedIsCopied, Saving
<1>4. FileIsCopied' /\ CopyIsNewer'
    BY DEF ServerTypeOK, SafeInMemory, FileIsCopied, CopyIsNewer, Saving
<1>5. SafeOnDisk' /\ SafeInMemory'
    BY DEF ServerTypeOK, SafeOnDisk, SafeInMemory
<1>6. Coherent'
    BY DEF ServerTypeOK, Coherent
<1>7. NamedFileLoads' /\ NoStrayFiles'
    BY DEF ServerTypeOK, NamedFileLoads, NoStrayFiles
<1> QED
    BY <1>1, <1>2, <1>3, <1>4, <1>5, <1>6, <1>7

\* The file of a checkpoint has a new name.
LEMMA WriteFileInv ==
    ASSUME ServerInv, WriteFile
    PROVE  ServerInv'
<1> USE ServerAssumption, ParameterFields, StoredFields DEF ServerInv, WriteFile, Encoded, memVars, trainerVars, saverVars, diskVars
<1>1. ServerTypeOK'
    BY DEF ServerTypeOK, Stored
<1>2. (DownIsEmpty /\ SaverServes /\ KeyIsWritten)'
    BY DEF ServerTypeOK, DownIsEmpty, SaverServes, KeyIsWritten, Saving, FileNames
<1>3. CopyIsBehind' /\ EncodedIsCopied'
    BY DEF ServerTypeOK, DownIsEmpty, CopyIsBehind, EncodedIsCopied, Saving
<1>4. FileIsCopied' /\ CopyIsNewer'
    BY DEF ServerTypeOK, KeyIsWritten, EncodedIsCopied, FileIsCopied, CopyIsNewer, Saving
<1>a. meta # NoValue => files'[meta] = files[meta] /\ meta \in FileNames
    BY DEF ServerTypeOK, KeyIsWritten, Saving
<1>5. SafeOnDisk' /\ SafeInMemory'
    BY <1>a DEF ServerTypeOK, SafeOnDisk, SafeInMemory
<1>6. Coherent'
    BY DEF ServerTypeOK, Coherent
<1>7. NamedFileLoads' /\ NoStrayFiles'
    BY DEF ServerTypeOK, KeyIsWritten, NamedFileLoads, NoStrayFiles, Saving, FileNames
<1> QED
    BY <1>1, <1>2, <1>3, <1>4, <1>5, <1>6, <1>7

\* Removing the previous file takes nothing from the one just written.
LEMMA RemoveOldInv ==
    ASSUME ServerInv, RemoveOld
    PROVE  ServerInv'
<1> USE ServerAssumption, ParameterFields, StoredFields DEF ServerInv, RemoveOld, memVars, trainerVars, saverVars, diskVars
<1>1. ServerTypeOK'
  <2>1. files' \in [FileNames -> Stored \cup {NoValue, Partial}] /\ left' \subseteq FileNames
      BY DEF ServerTypeOK
  <2>2. torn' \in BOOLEAN
      BY DEF ServerTypeOK
  <2> QED
      BY <2>1, <2>2 DEF ServerTypeOK
<1>2. (DownIsEmpty /\ SaverServes /\ KeyIsWritten)'
    BY DEF ServerTypeOK, DownIsEmpty, SaverServes, KeyIsWritten, Saving, FileNames
<1>3. CopyIsBehind' /\ EncodedIsCopied'
    BY DEF ServerTypeOK, DownIsEmpty, CopyIsBehind, EncodedIsCopied, Saving
<1>4. FileIsCopied' /\ CopyIsNewer'
    BY DEF ServerTypeOK, KeyIsWritten, FileIsCopied, CopyIsNewer, Saving
<1>5. SafeOnDisk' /\ SafeInMemory'
    BY DEF ServerTypeOK, SafeOnDisk, SafeInMemory
<1>6. Coherent'
    BY DEF ServerTypeOK, Coherent
<1>7. NamedFileLoads' /\ NoStrayFiles'
  <2>1. CASE /\ files' = [f \in FileNames |-> IF f = meta THEN NoValue ELSE files[f]]
             /\ torn' = (meta # NoValue) /\ left' = left
    <3>1. meta # NoValue => files'[meta] = NoValue /\ torn'
        BY <2>1 DEF ServerTypeOK
    <3> QED
        BY <2>1, <3>1 DEF NamedFileLoads, NoStrayFiles
  <2>2. CASE UNCHANGED <<files, torn>> /\ left' = left \cup {meta}
      BY <2>2 DEF NamedFileLoads, NoStrayFiles
  <2> QED
      BY <2>1, <2>2
<1> QED
    BY <1>1, <1>2, <1>3, <1>4, <1>5, <1>6, <1>7

\* PutKey completes the checkpoint.
LEMMA PutMetaInv ==
    ASSUME ServerInv, PutMeta
    PROVE  ServerInv'
<1> USE ServerAssumption, ParameterFields, StoredFields DEF ServerInv, PutMeta, memVars, trainerVars, saverVars, diskVars
<1>1. ServerTypeOK'
    BY DEF ServerTypeOK, KeyIsWritten, Saving
<1>2. (DownIsEmpty /\ SaverServes /\ KeyIsWritten)'
    BY DEF ServerTypeOK, DownIsEmpty, SaverServes, KeyIsWritten, Saving, FileNames
<1>3. CopyIsBehind' /\ EncodedIsCopied'
    BY DEF ServerTypeOK, DownIsEmpty, CopyIsBehind, EncodedIsCopied, Saving
<1>4. FileIsCopied' /\ CopyIsNewer'
    BY DEF ServerTypeOK, SafeInMemory, FileIsCopied, CopyIsNewer, Saving
<1>5. SafeOnDisk' /\ SafeInMemory'
    BY DEF ServerTypeOK, KeyIsWritten, FileIsCopied, CopyIsNewer, CopyIsBehind,
           SaverServes, SafeOnDisk, SafeInMemory, Saving
<1>6. Coherent'
    BY DEF ServerTypeOK, Coherent
<1>7. NamedFileLoads' /\ NoStrayFiles'
    BY DEF ServerTypeOK, KeyIsWritten, NamedFileLoads, NoStrayFiles, Saving, FileNames
<1> QED
    BY <1>1, <1>2, <1>3, <1>4, <1>5, <1>6, <1>7

\* A checkpoint ends with an error, the key possibly put.
LEMMA CheckpointErrorInv ==
    ASSUME ServerInv, CheckpointError
    PROVE  ServerInv'
<1> USE ServerAssumption, ParameterFields, StoredFields DEF ServerInv, CheckpointError, Encoded, PartlyWritten, memVars, trainerVars, saverVars, diskVars
<1>1. ServerTypeOK'
    BY DEF ServerTypeOK, KeyIsWritten, Saving
<1>2. (DownIsEmpty /\ SaverServes /\ KeyIsWritten)'
    BY DEF ServerTypeOK, DownIsEmpty, SaverServes, KeyIsWritten, Saving, FileNames
<1>3. CopyIsBehind' /\ EncodedIsCopied'
    BY DEF ServerTypeOK, DownIsEmpty, CopyIsBehind, EncodedIsCopied, Saving
<1>4. FileIsCopied' /\ CopyIsNewer'
    BY DEF ServerTypeOK, SafeInMemory, FileIsCopied, CopyIsNewer, Saving
<1>5. SafeOnDisk' /\ SafeInMemory'
    BY DEF ServerTypeOK, KeyIsWritten, FileIsCopied, CopyIsNewer, CopyIsBehind,
           SaverServes, SafeOnDisk, SafeInMemory, Saving
<1>6. Coherent'
    BY DEF ServerTypeOK, Coherent
<1>7. NamedFileLoads' /\ NoStrayFiles'
    BY DEF ServerTypeOK, KeyIsWritten, NamedFileLoads, NoStrayFiles, Saving, FileNames
<1> QED
    BY <1>1, <1>2, <1>3, <1>4, <1>5, <1>6, <1>7

\* A crash leaves the file and the key.
LEMMA CrashInv ==
    ASSUME ServerInv, Crash
    PROVE  ServerInv'
<1> USE ServerAssumption, ParameterFields, StoredFields DEF ServerInv, Crash, Encoded, PartlyWritten, memVars, trainerVars, saverVars, diskVars
<1>1. ServerTypeOK'
  <2>1. crashes' \in 0..MaxCrashes
      BY DEF ServerTypeOK
  <2>2. files' \in [FileNames -> Stored \cup {NoValue, Partial}] /\ left' \subseteq FileNames
      BY DEF ServerTypeOK, KeyIsWritten, Saving
  <2> QED
      BY <2>1, <2>2 DEF ServerTypeOK
<1>2. (DownIsEmpty /\ SaverServes /\ KeyIsWritten)'
    BY DEF ServerTypeOK, DownIsEmpty, SaverServes, KeyIsWritten, Saving, FileNames
<1>3. CopyIsBehind' /\ EncodedIsCopied'
    BY DEF ServerTypeOK, DownIsEmpty, CopyIsBehind, EncodedIsCopied, Saving
<1>4. FileIsCopied' /\ CopyIsNewer'
    BY DEF ServerTypeOK, SafeInMemory, FileIsCopied, CopyIsNewer, Saving
<1>5. SafeOnDisk' /\ SafeInMemory'
    BY DEF ServerTypeOK, SafeOnDisk, SafeInMemory
<1>6. Coherent'
    BY DEF ServerTypeOK, Coherent
<1>7. NamedFileLoads' /\ NoStrayFiles'
    BY DEF ServerTypeOK, KeyIsWritten, NamedFileLoads, NoStrayFiles, Saving, FileNames
<1> QED
    BY <1>1, <1>2, <1>3, <1>4, <1>5, <1>6, <1>7

\* LoadCheckpoint and NewService.
LEMMA StartInv ==
    ASSUME ServerInv, Start
    PROVE  ServerInv'
<1> USE ServerAssumption, ParameterFields, StoredFields DEF ServerInv, Start, Loadable, memVars, trainerVars, saverVars, diskVars
<1>1. ~ up /\ optMap = Absent /\ initialized = FALSE /\ saver = "off"
    BY DEF DownIsEmpty
<1>2. CASE meta = NoValue
  <2>1. /\ up' = TRUE /\ UNCHANGED <<optMap, initialized, trainerVars, saver, states, buf>>
        /\ UNCHANGED <<saves, files, meta, torn, left, crashes, safe>>
      BY <1>2
  <2>2. ServerTypeOK'
      BY <2>1 DEF ServerTypeOK
  <2>3. \A p \in Params : safe[p] = NoValue
      BY <1>2 DEF SafeOnDisk
  <2> QED
      BY <1>1, <2>1, <2>2, <2>3
      DEF DownIsEmpty, SaverServes, KeyIsWritten, CopyIsBehind, EncodedIsCopied, FileIsCopied,
          CopyIsNewer, SafeOnDisk, SafeInMemory, Coherent, NamedFileLoads, NoStrayFiles, Saving
<1>3. CASE meta # NoValue
  <2> DEFINE content == files[meta]
  <2>1. /\ up' = TRUE /\ UNCHANGED <<trainerVars, saver, states, buf>>
        /\ UNCHANGED <<saves, files, meta, torn, left, crashes, safe>>
        /\ content \notin {NoValue, Partial} /\ optMap' = Loaded(content)
        /\ initialized' = (content # Absent)
      BY <1>3
  <2>2. content \in Stored
      BY <1>3, <2>1 DEF ServerTypeOK
  <2> HIDE DEF content
  <2>3. ServerTypeOK'
    <3>1. initialized' \in BOOLEAN
        BY <2>1
    <3> QED
        BY <2>1, <2>2, <3>1, LoadedParameters DEF ServerTypeOK
  <2>4. Coherent'
      BY <2>1, <2>2, LoadedParameters DEF Coherent
  <2>5. SafeInMemory'
    <3> SUFFICES ASSUME NEW p \in Params, safe[p] # NoValue
                 PROVE  initialized' /\ optMap'[p] # NoValue /\ safe[p] <= optMap'[p].state
        BY <2>1 DEF SafeInMemory
    <3>1. content[p] # NoValue /\ safe[p] <= content[p].state
        BY <2>1, <2>2 DEF SafeOnDisk, content
    <3>2. content # Absent
        BY <3>1
    <3> QED
        BY <2>1, <2>2, <3>1, <3>2, LoadedParameters
  <2> QED
      BY <1>1, <2>1, <2>3, <2>4, <2>5
      DEF DownIsEmpty, SaverServes, KeyIsWritten, CopyIsBehind, EncodedIsCopied, FileIsCopied,
          CopyIsNewer, SafeOnDisk, NamedFileLoads, NoStrayFiles, Saving
<1> QED
    BY <1>2, <1>3

\* The invariant holds in every state of the server.
LEMMA ServerInvariant == ServerSpec => []ServerInv
<1>1. ServerInv /\ [ServerNext]_serverVars => ServerInv'
  <2> SUFFICES ASSUME ServerInv, [ServerNext]_serverVars
               PROVE  ServerInv'
      OBVIOUS
  <2>1. CASE UNCHANGED serverVars
      BY <2>1 DEF serverVars, memVars, trainerVars, saverVars, diskVars, ServerInv, ServerTypeOK,
          DownIsEmpty, SaverServes, KeyIsWritten, CopyIsBehind, EncodedIsCopied, FileIsCopied,
          CopyIsNewer, SafeOnDisk, SafeInMemory, Coherent, NamedFileLoads, NoStrayFiles, Saving
  <2>2. CASE \E p \in Params : InitParam(p) \/ SendGrad(p)
      BY <2>2, InitParamInv, SendGradInv
  <2>3. CASE FinishInitParams \/ Reselect
      BY <2>3, FinishInitParamsInv, ReselectInv
  <2>4. CASE checkpoint
      BY <2>4, CollectInv, EncodeInv, WriteFileInv, RemoveOldInv, PutMetaInv DEF checkpoint
  <2>5. CASE CheckpointError
      BY <2>5, CheckpointErrorInv
  <2>6. CASE Crash \/ Start
      BY <2>6, CrashInv, StartInv
  <2> QED
      BY <2>1, <2>2, <2>3, <2>4, <2>5, <2>6 DEF ServerNext
<1> QED
    BY ServerInitInv, <1>1, PTL DEF ServerSpec

\* The server, its checkpoints, the file and the key keep their types.
THEOREM ServerTypeCorrect == ServerSpec => []ServerTypeOK
<1>1. ServerInv => ServerTypeOK
    BY DEF ServerInv
<1> QED
    BY <1>1, ServerInvariant, PTL

\* What a completed checkpoint has is in every server that serves afterwards,
\* through any number of crashes and failed checkpoints, also when the answer
\* of PutKey is lost.
THEOREM CheckpointsKept == ServerSpec => []SafeUpdatesKept
<1>1. ServerInv => SafeUpdatesKept
    BY DEF ServerInv, SafeInMemory, SafeUpdatesKept, Coherent
<1> QED
    BY <1>1, ServerInvariant, PTL

\* Weights and optimizer state are of the same update, also after recovering
\* from a file in which they differ.
THEOREM CoherentParameters == ServerSpec => []Coherent
<1>1. ServerInv => Coherent
    BY DEF ServerInv
<1> QED
    BY <1>1, ServerInvariant, PTL

\* The key names a file that was written to its end, unless os.Remove took it
\* and the server died or PutKey failed before the key was put again.
THEOREM KeyNamesWholeFile == ServerSpec => []NamedFileLoads
<1>1. ServerInv => NamedFileLoads
    BY DEF ServerInv
<1> QED
    BY <1>1, ServerInvariant, PTL

\* Every file on the disk is the one the key names, the one being made, or one
\* that a failed step or a crash left behind.
THEOREM DiskHoldsNoStray == ServerSpec => []NoStrayFiles
<1>1. ServerInv => NoStrayFiles
    BY DEF ServerInv
<1> QED
    BY <1>1, ServerInvariant, PTL
=============================================================================
