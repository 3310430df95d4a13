------------------------- MODULE SyncEngineProofs -------------------------
(***************************************************************************)
(* Proofs about SyncEngine, for every set of updates, every number of      *)
(* passes and attempts: its state is well typed, the calls of              *)
(* convergeFromServer are coalesced and a reconnect among them is          *)
(* remembered, whatever fails; and if answers beat their timeouts, nothing *)
(* that the service has is left behind.                                    *)
(***************************************************************************)
EXTENDS SyncEngine, TLAPS

\* No pass is ahead of the engine, and the one pass of the present lifecycle
\* is the one that `convergence' names, where the next call will find it.
PassesAreKnown ==
    \A i \in PassId : pass[i] # NoPass =>
        /\ pass[i].gen <= lifecycleGeneration
        /\ running /\ pass[i].gen = lifecycleGeneration => convergence = i

IInv == TypeOK /\ PassesAreKnown /\ OnePassPerLifecycle

CatchupOK ==
    /\ pass \in [PassId -> PassType]
    /\ convergence \in PassId \cup {None} /\ rerunRequested \in BOOLEAN
    /\ owed \in BOOLEAN
    /\ PassesAreKnown /\ OnePassPerLifecycle

-----------------------------------------------------------------------------
(* The catch-up state under each of its operators.                         *)

\* What Loro applies of a set of updates is a set of updates.
LEMMA AppliedType == \A d \in SUBSET Op : Applied(d) \in SUBSET Op
  BY DEF Applied

\* A free slot is well typed.
LEMMA NoPassType == NoPass \in PassType
  BY EngineAssumption DEF NoPass, PassType

\* BeginPass: a new pass of a generation that none of the others belongs to.
LEMMA BeginPassKeeps ==
  ASSUME NEW others \in [PassId -> PassType], NEW gen \in Nat, NEW d \in SUBSET Op,
         BeginPass(others, gen, d), lifecycleGeneration' = gen,
         \A i \in PassId : others[i] # NoPass => others[i].gen < gen,
         \A i, j \in PassId : (others[i] # NoPass /\ others[j] # NoPass
                               /\ others[i].gen = others[j].gen) => i = j
  PROVE  CatchupOK'
  <1>1. PICK i \in PassId :
          /\ pass' = [others EXCEPT ![i] = [stage |-> "asked", gen |-> gen, tries |-> 1,
                                            since |-> Applied(d)]]
          /\ convergence' = i /\ rerunRequested' = FALSE /\ owed' = FALSE
    BY DEF BeginPass
  <1>. DEFINE new == [stage |-> "asked", gen |-> gen, tries |-> 1, since |-> Applied(d)]
  <1>2. new \in PassType /\ new.gen = gen
    BY AppliedType, EngineAssumption DEF PassType
  <1>3. /\ pass' \in [PassId -> PassType] /\ pass'[i] = new
        /\ \A j \in PassId \ {i} : pass'[j] = others[j]
    BY <1>1, <1>2
  <1>. HIDE DEF new
  <1>4. PassesAreKnown'
    BY <1>1, <1>2, <1>3 DEF PassesAreKnown, PassType
  <1>5. OnePassPerLifecycle'
    BY <1>2, <1>3 DEF OnePassPerLifecycle, PassType
  <1>. QED BY <1>1, <1>3, <1>4, <1>5 DEF CatchupOK

\* start(): the new generation is ahead of every pass.
LEMMA StartKeeps ==
  ASSUME IInv, StartEngine
  PROVE  /\ CatchupOK' /\ running' \in BOOLEAN /\ lifecycleGeneration' \in Nat
         /\ sub' \in Nat
  <1>1. \A i \in PassId : pass[i] # NoPass => pass[i].gen < lifecycleGeneration + 1
    BY DEF IInv, TypeOK, PassesAreKnown, PassType
  <1>2. CatchupOK'
    BY <1>1, BeginPassKeeps DEF StartEngine, IInv, TypeOK, OnePassPerLifecycle
  <1>. QED BY <1>2 DEF StartEngine, IInv, TypeOK

\* stop(): every pass falls behind.
LEMMA StopKeeps ==
  ASSUME IInv, StopEngine
  PROVE  /\ running' \in BOOLEAN /\ lifecycleGeneration' \in Nat /\ sub' \in Nat
         /\ running' = FALSE /\ lifecycleGeneration' >= lifecycleGeneration
  <1>1. running' = FALSE /\ running' \in BOOLEAN
    BY Zenon DEF StopEngine
  <1>2. lifecycleGeneration' >= lifecycleGeneration /\ lifecycleGeneration' \in Nat
    BY DEF StopEngine, IInv, TypeOK
  <1>3. sub' \in Nat
    BY DEF StopEngine, None
  <1>. QED BY <1>1, <1>2, <1>3

\* Fewer passes, or the same, in an engine that has not moved on, with the
\* name of the current one unchanged.
LEMMA SamePasses ==
  ASSUME IInv, UNCHANGED <<running, lifecycleGeneration, convergence>>,
         pass' \in [PassId -> PassType],
         \A i \in PassId : pass'[i] # NoPass => pass[i] # NoPass /\ pass'[i].gen = pass[i].gen,
         rerunRequested' \in BOOLEAN, owed' \in BOOLEAN
  PROVE  CatchupOK'
  <1>1. PassesAreKnown'
    BY DEF IInv, PassesAreKnown
  <1>2. OnePassPerLifecycle'
    BY DEF IInv, OnePassPerLifecycle
  <1>. QED BY <1>1, <1>2 DEF CatchupOK, IInv, TypeOK

\* The same when the engine is stopped afterwards: no pass is current.
LEMMA StoppedPasses ==
  ASSUME IInv, running' = FALSE, lifecycleGeneration' \in Nat,
         lifecycleGeneration' >= lifecycleGeneration,
         pass' \in [PassId -> PassType],
         \A i \in PassId : pass'[i] # NoPass => pass[i] # NoPass /\ pass'[i].gen = pass[i].gen,
         convergence' \in PassId \cup {None},
         rerunRequested' \in BOOLEAN, owed' \in BOOLEAN
  PROVE  CatchupOK'
  <1>1. PassesAreKnown'
    BY DEF IInv, TypeOK, PassesAreKnown, PassType
  <1>2. OnePassPerLifecycle'
    BY DEF IInv, OnePassPerLifecycle
  <1>. QED BY <1>1, <1>2 DEF CatchupOK

\* convergeFromServer(): coalesced, or no pass of this generation was there.
LEMMA ConvergeKeeps ==
  ASSUME IInv, NEW r \in BOOLEAN, NEW d \in SUBSET Op, ConvergeFromServer(r, d),
         UNCHANGED <<running, lifecycleGeneration>>
  PROVE  CatchupOK'
  <1>1. CASE UNCHANGED <<pass, convergence>> /\ rerunRequested' \in BOOLEAN /\ owed' \in BOOLEAN
    BY <1>1, SamePasses DEF IInv, TypeOK
  <1>2. CASE /\ running /\ BeginPass(pass, lifecycleGeneration, d)
             /\ ~(convergence # None /\ pass[convergence].gen = lifecycleGeneration)
    <2>1. ASSUME NEW i \in PassId, pass[i] # NoPass PROVE pass[i].gen < lifecycleGeneration
      <3>1. i # None
        BY DEF PassId, None
      <3>. QED BY <1>2, <2>1, <3>1 DEF IInv, TypeOK, PassesAreKnown, PassType
    <2>. QED BY <1>2, <2>1, BeginPassKeeps DEF IInv, TypeOK, OnePassPerLifecycle
  <1>. QED BY <1>1, <1>2 DEF ConvergeFromServer, catchup, IInv, TypeOK

\* A pass ends.
LEMMA SettleKeeps ==
  ASSUME IInv, NEW i \in PassId, NEW p \in BOOLEAN, NEW d \in SUBSET Op, Settle(i, p, d),
         UNCHANGED <<running, lifecycleGeneration>>
  PROVE  CatchupOK'
  <1>. DEFINE others == [pass EXCEPT ![i] = NoPass]
  <1>1. /\ others \in [PassId -> PassType] /\ others[i] = NoPass
        /\ \A j \in PassId \ {i} : others[j] = pass[j]
    BY NoPassType DEF IInv, TypeOK
  <1>. HIDE DEF others
  <1>2. \A j \in PassId : others[j] # NoPass => j # i /\ pass[j] # NoPass /\ others[j] = pass[j]
    BY <1>1
  <1>3. i # None
    BY DEF PassId, None
  <1>4. CASE /\ running /\ BeginPass(others, lifecycleGeneration, d)
             /\ \/ convergence = i
                \/ convergence = None
                \/ pass[convergence].gen # lifecycleGeneration
    <2>1. ASSUME NEW j \in PassId, others[j] # NoPass
          PROVE  others[j].gen < lifecycleGeneration
      <3>1. j # None
        BY DEF PassId, None
      <3>2. pass[j].gen # lifecycleGeneration
        BY <1>2, <1>4, <2>1, <3>1 DEF IInv, PassesAreKnown
      <3>. QED BY <1>1, <1>2, <2>1, <3>2 DEF IInv, TypeOK, PassesAreKnown, PassType
    <2>2. \A j, k \in PassId : (others[j] # NoPass /\ others[k] # NoPass
                                /\ others[j].gen = others[k].gen) => j = k
      BY <1>2 DEF IInv, OnePassPerLifecycle
    <2>. QED BY <1>1, <1>4, <2>1, <2>2, BeginPassKeeps DEF IInv, TypeOK
  <1>5. CASE /\ pass' = others /\ UNCHANGED owed
             /\ convergence' = IF convergence = i THEN None ELSE convergence
             /\ rerunRequested' = (rerunRequested /\ convergence # i)
    <2>1. PassesAreKnown'
      BY <1>2, <1>5 DEF IInv, PassesAreKnown
    <2>2. OnePassPerLifecycle'
      BY <1>2, <1>5 DEF IInv, OnePassPerLifecycle
    <2>. QED BY <1>1, <1>5, <2>1, <2>2 DEF CatchupOK, IInv, TypeOK
  <1>. QED BY <1>4, <1>5 DEF Settle, others

-----------------------------------------------------------------------------
(* The steps.                                                              *)

\* The rest of TypeOK.
RestOK ==
    /\ server \in SUBSET Op /\ link \in {"down", "opened", "up"}
    /\ running \in BOOLEAN /\ lifecycleGeneration \in Nat
    /\ cur \in Nat \ {0} /\ sub \in Nat /\ doc \in SUBSET Op
    /\ made \in SUBSET Op /\ wal \in SUBSET Op
    /\ lock \in Seq(TaskType) /\ restart \in BOOLEAN

\* The two halves make the invariant.
LEMMA Halves == RestOK' /\ CatchupOK' => IInv'
  BY DEF RestOK, CatchupOK, IInv, TypeOK

\* The holder of the lock is a task, and so are those behind it.
LEMMA HeadOfLock ==
  ASSUME IInv, lock # <<>>
  PROVE  /\ Head(lock) \in TaskType /\ Tail(lock) \in Seq(TaskType)
         /\ \A t \in TaskType : Append(Tail(lock), t) \in Seq(TaskType)
  BY DEF IInv, TypeOK

\* The tasks that are put into the lock.
LEMMA NewTasks ==
  /\ \A ops \in SUBSET Op, i \in PassId \cup {None} : Import(ops, i) \in TaskType
  /\ \A e \in Op : Sync(e) \in TaskType
  /\ \A was \in BOOLEAN : Reset(was) \in TaskType
  BY DEF Import, Sync, Reset, TaskType

\* A step that leaves the passes alone.
LEMMA QuietKeeps ==
  ASSUME IInv, UNCHANGED <<running, lifecycleGeneration, catchup>> PROVE CatchupOK'
  <1>1. pass' = pass /\ pass' \in [PassId -> PassType]
    BY DEF catchup, IInv, TypeOK
  <1>. QED BY <1>1, SamePasses DEF catchup, IInv, TypeOK

\* The steps of a pass.
LEMMA PassStepKeeps == ASSUME IInv, NEW i \in PassId, PassStep(i) PROVE IInv'
  <1>. USE DEF life, manager, edits
  <1>1. doc \in SUBSET Op /\ pass[i] \in PassType /\ pass \in [PassId -> PassType]
    BY DEF IInv, TypeOK
  <1>2. CASE PassAnswered(i)
    <2>1. RestOK'
      <3>1. server \ pass[i].since \in SUBSET Op
        BY DEF IInv, TypeOK
      <3>2. Import(server \ pass[i].since, i) \in TaskType
        BY <3>1, NewTasks
      <3>3. lock' \in Seq(TaskType)
        <4>1. lock' = lock \/ lock' = Append(lock, Import(server \ pass[i].since, i))
          BY <1>2, Zenon DEF PassAnswered
        <4>2. lock \in Seq(TaskType)
          BY DEF IInv, TypeOK
        <4>. QED BY <3>2, <4>1, <4>2
      <3>. QED BY <1>2, <3>3 DEF PassAnswered, IInv, TypeOK, RestOK
    <2>2. CASE Settle(i, FALSE, doc)
      BY <1>1, <1>2, <2>1, <2>2, SettleKeeps, Halves DEF PassAnswered
    <2>3. CASE /\ pass' = [pass EXCEPT ![i].stage = "import"]
               /\ UNCHANGED <<convergence, rerunRequested, owed>>
      <3>1. pass' \in [PassId -> PassType]
        BY <1>1, <2>3 DEF PassType
      <3>2. pass[i] # NoPass
        BY <1>2 DEF PassAnswered, NoPass
      <3>3. \A j \in PassId : pass'[j] # NoPass => pass[j] # NoPass /\ pass'[j].gen = pass[j].gen
        BY <1>1, <2>3, <3>2 DEF PassType
      <3>. QED BY <1>2, <2>1, <2>3, <3>1, <3>3, SamePasses, Halves DEF PassAnswered, IInv, TypeOK
    <2>. QED BY <1>2, <2>2, <2>3 DEF PassAnswered
  <1>3. CASE PassFails(i)
    <2>1. RestOK'
      BY <1>3 DEF PassFails, IInv, TypeOK, RestOK
    <2>2. CASE Settle(i, FALSE, doc)
      BY <1>1, <1>3, <2>1, <2>2, SettleKeeps, Halves DEF PassFails
    <2>3. CASE /\ pass' = [pass EXCEPT ![i].stage = "paused", ![i].tries = @ + 1]
               /\ pass[i].tries < MaxAttempts
               /\ UNCHANGED <<convergence, rerunRequested, owed>>
      <3>1. pass' \in [PassId -> PassType]
        BY <1>1, <2>3, EngineAssumption DEF PassType
      <3>2. pass[i] # NoPass
        BY <1>3 DEF PassFails, NoPass
      <3>3. \A j \in PassId : pass'[j] # NoPass => pass[j] # NoPass /\ pass'[j].gen = pass[j].gen
        BY <1>1, <2>3, <3>2 DEF PassType
      <3>. QED BY <1>3, <2>1, <2>3, <3>1, <3>3, SamePasses, Halves DEF PassFails, IInv, TypeOK
    <2>. QED BY <1>3, <2>2, <2>3 DEF PassFails
  <1>4. CASE PassResumes(i)
    <2>1. RestOK'
      BY <1>4 DEF PassResumes, IInv, TypeOK, RestOK
    <2>2. CASE Settle(i, FALSE, doc)
      BY <1>1, <1>4, <2>1, <2>2, SettleKeeps, Halves DEF PassResumes
    <2>3. CASE /\ pass' = [pass EXCEPT ![i].stage = "asked"]
               /\ UNCHANGED <<convergence, rerunRequested, owed>>
      <3>1. pass' \in [PassId -> PassType]
        BY <1>1, <2>3 DEF PassType
      <3>2. pass[i] # NoPass
        BY <1>4 DEF PassResumes, NoPass
      <3>3. \A j \in PassId : pass'[j] # NoPass => pass[j] # NoPass /\ pass'[j].gen = pass[j].gen
        BY <1>1, <2>3, <3>2 DEF PassType
      <3>. QED BY <1>4, <2>1, <2>3, <3>1, <3>3, SamePasses, Halves DEF PassResumes, IInv, TypeOK
    <2>. QED BY <1>4, <2>2, <2>3 DEF PassResumes
  <1>. QED BY <1>2, <1>3, <1>4 DEF PassStep

\* Start, Stop and Restart.
LEMMA LifeKeeps == ASSUME IInv, Start \/ Stop \/ Restart PROVE IInv'
  <1>. USE DEF life, manager, edits
  <1>1. CASE Start
    <2>1. CatchupOK' /\ RestOK'
      BY <1>1, StartKeeps DEF Start, IInv, TypeOK, RestOK
    <2>. QED BY <2>1, Halves
  <1>2. CASE Stop
    <2>1. RestOK'
      BY <1>2, StopKeeps DEF Stop, IInv, TypeOK, RestOK
    <2>2. /\ running' = FALSE /\ lifecycleGeneration' \in Nat
          /\ lifecycleGeneration' >= lifecycleGeneration
      BY <1>2, StopKeeps, Zenon DEF Stop
    <2>3. /\ pass' = pass /\ pass' \in [PassId -> PassType]
          /\ convergence' \in PassId \cup {None}
          /\ rerunRequested' \in BOOLEAN /\ owed' \in BOOLEAN
      BY <1>2 DEF Stop, IInv, TypeOK
    <2>. QED BY <2>1, <2>2, <2>3, StoppedPasses, Halves
  <1>3. CASE Restart
    <2>1. CASE StartEngine
      <3>1. CatchupOK' /\ RestOK'
        BY <1>3, <2>1, StartKeeps DEF Restart, IInv, TypeOK, RestOK
      <3>. QED BY <3>1, Halves
    <2>2. CASE UNCHANGED <<life, catchup>>
      <3>1. CatchupOK'
        BY <2>2, QuietKeeps
      <3>2. RestOK'
        BY <1>3, <2>2 DEF Restart, IInv, TypeOK, RestOK
      <3>. QED BY <3>1, <3>2, Halves
    <2>. QED BY <1>3, <2>1, <2>2 DEF Restart
  <1>. QED BY <1>1, <1>2, <1>3

\* reset() up to the lock leaves the engine stopped.
LEMMA CallResetKeeps ==
  ASSUME IInv, lock # <<>>, CallReset
  PROVE  /\ running' = FALSE /\ lifecycleGeneration' \in Nat
         /\ lifecycleGeneration' >= lifecycleGeneration
         /\ sub' \in Nat /\ lock' \in Seq(TaskType)
  <1>1. lock' \in Seq(TaskType)
    BY HeadOfLock, NewTasks DEF CallReset, IInv, TypeOK
  <1>2. CASE StopEngine
    BY <1>1, <1>2, StopKeeps, Zenon
  <1>3. CASE ~running /\ UNCHANGED life
    <2>1. running' = FALSE
      BY <1>3, Zenon DEF life, IInv, TypeOK
    <2>2. /\ lifecycleGeneration' \in Nat /\ lifecycleGeneration' >= lifecycleGeneration
          /\ sub' \in Nat
      BY <1>3 DEF life, IInv, TypeOK
    <2>. QED BY <1>1, <2>1, <2>2, Zenon
  <1>. QED BY <1>2, <1>3 DEF CallReset

\* The tasks in the lock.
LEMMA LockStepKeeps == ASSUME IInv, LockStep PROVE IInv'
  <1>. USE DEF manager, edits
  <1>1. CASE ImportUpdate
    <2>1. lock # <<>>
      BY <1>1 DEF ImportUpdate, Holds
    <2>2. RestOK' /\ doc' \in SUBSET Op
      BY <1>1, <2>1, HeadOfLock DEF ImportUpdate, IInv, TypeOK, RestOK, TaskType, life
    <2>3. UNCHANGED <<running, lifecycleGeneration>>
      BY <1>1 DEF ImportUpdate, life
    <2>. DEFINE pending == ~(Head(lock).ops \subseteq Applied(doc'))
    <2>4. pending \in BOOLEAN
      OBVIOUS
    <2>5. CASE Head(lock).pass # None /\ Settle(Head(lock).pass, pending, doc')
      <3>1. Head(lock).pass \in PassId
        BY <2>1, <2>5, HeadOfLock DEF TaskType
      <3>. HIDE DEF pending
      <3>2. CatchupOK'
        BY <2>2, <2>3, <2>4, <2>5, <3>1, SettleKeeps
      <3>. QED BY <2>2, <3>2, Halves
    <2>6. CASE ConvergeFromServer(FALSE, doc')
      BY <2>2, <2>3, <2>6, ConvergeKeeps, Halves
    <2>7. CASE UNCHANGED catchup
      BY <2>2, <2>3, <2>7, QuietKeeps, Halves
    <2>. QED BY <1>1, <2>5, <2>6, <2>7 DEF ImportUpdate
  <1>2. CASE ImportFails
    <2>1. lock # <<>> /\ CallReset
      BY <1>2 DEF ImportFails, Holds
    <2>2. RestOK'
      BY <1>2, <2>1, CallResetKeeps DEF ImportFails, IInv, TypeOK, RestOK
    <2>3. Head(lock).pass \in PassId \cup {None}
      BY <2>1, HeadOfLock DEF TaskType
    <2>4. /\ pass' \in [PassId -> PassType]
          /\ \A i \in PassId : pass'[i] # NoPass => pass[i] # NoPass /\ pass'[i].gen = pass[i].gen
      BY <1>2, <2>3, NoPassType DEF ImportFails, IInv, TypeOK
    <2>5. /\ convergence' \in PassId \cup {None}
          /\ rerunRequested' \in BOOLEAN /\ owed' \in BOOLEAN
      BY <1>2 DEF ImportFails, IInv, TypeOK
    <2>. QED BY <2>1, <2>2, <2>4, <2>5, CallResetKeeps, StoppedPasses, Halves
  <1>3. CASE SyncApplies
    <2>1. lock # <<>>
      BY <1>3 DEF SyncApplies, Holds
    <2>2. RestOK'
      BY <1>3, <2>1, HeadOfLock DEF SyncApplies, IInv, TypeOK, RestOK, TaskType, life
    <2>. QED BY <1>3, <2>2, QuietKeeps, Halves DEF SyncApplies, life
  <1>4. CASE SyncFails
    <2>1. lock # <<>> /\ CallReset
      BY <1>4 DEF SyncFails, Holds
    <2>2. RestOK'
      BY <1>4, <2>1, CallResetKeeps DEF SyncFails, IInv, TypeOK, RestOK
    <2>3. /\ pass' = pass /\ pass' \in [PassId -> PassType]
          /\ convergence' \in PassId \cup {None}
          /\ rerunRequested' \in BOOLEAN /\ owed' \in BOOLEAN
      BY <1>4 DEF SyncFails, IInv, TypeOK
    <2>. QED BY <2>1, <2>2, <2>3, CallResetKeeps, StoppedPasses, Halves
  <1>5. ASSUME NEW c \in Nat \ {0}, NEW d \in SUBSET Op, ResetDone(c, d) PROVE IInv'
    <2>1. lock # <<>>
      BY <1>5 DEF ResetDone, Holds
    <2>2. RestOK'
      BY <1>5, <2>1, HeadOfLock DEF ResetDone, IInv, TypeOK, RestOK, TaskType, life
    <2>. QED BY <1>5, <2>2, QuietKeeps, Halves DEF ResetDone, life
  <1>6. /\ cur \in Nat \ {0} /\ cur + 1 \in Nat \ {0}
        /\ server \in SUBSET Op /\ doc \in SUBSET Op /\ {} \in SUBSET Op
    BY DEF IInv, TypeOK
  <1>7. CASE ResetSeeds \/ ResetSeedFails \/ ResetTimesOut
    BY <1>5, <1>6, <1>7 DEF ResetSeeds, ResetSeedFails, ResetTimesOut
  <1>. QED BY <1>1, <1>2, <1>3, <1>4, <1>7 DEF LockStep

\* What comes from elsewhere.
LEMMA ArrivalsKeep ==
  ASSUME IInv, \/ \E o \in Op : RemoteEdit(o) \/ Gossip(o) \/ Edit(o) \/ WalDelivers(o)
               \/ ConnectionLost \/ ConnectionOpens
  PROVE  IInv'
  <1>. USE DEF life, manager, edits
  <1>1. ASSUME NEW o \in Op, RemoteEdit(o) \/ Gossip(o) \/ Edit(o) \/ WalDelivers(o)
        PROVE IInv'
    <2>1. {o} \in SUBSET Op /\ Import({o}, None) \in TaskType /\ Sync(o) \in TaskType
      BY NewTasks
    <2>2. RestOK'
      <3>1. CASE RemoteEdit(o)
        BY <2>1, <3>1 DEF RemoteEdit, IInv, TypeOK, RestOK
      <3>2. CASE Gossip(o)
        BY <2>1, <3>2 DEF Gossip, IInv, TypeOK, RestOK
      <3>3. CASE Edit(o)
        BY <2>1, <3>3 DEF Edit, IInv, TypeOK, RestOK
      <3>4. CASE WalDelivers(o)
        BY <2>1, <3>4 DEF WalDelivers, IInv, TypeOK, RestOK
      <3>. QED BY <1>1, <3>1, <3>2, <3>3, <3>4
    <2>3. UNCHANGED <<running, lifecycleGeneration, catchup>>
      BY <1>1 DEF RemoteEdit, Gossip, Edit, WalDelivers
    <2>. QED BY <2>2, <2>3, QuietKeeps, Halves
  <1>2. CASE ConnectionLost \/ ConnectionOpens
    <2>1. RestOK' /\ UNCHANGED <<running, lifecycleGeneration, catchup>>
      BY <1>2 DEF ConnectionLost, ConnectionOpens, IInv, TypeOK, RestOK
    <2>. QED BY <2>1, QuietKeeps, Halves
  <1>. QED BY <1>1, <1>2

\* A reconnect.
LEMMA ReconnectKeeps == ASSUME IInv, Reconnect PROVE IInv'
  <1>1. RestOK' /\ doc \in SUBSET Op /\ UNCHANGED <<running, lifecycleGeneration>>
    BY DEF Reconnect, IInv, TypeOK, RestOK, life, manager, edits
  <1>. QED BY <1>1, ConvergeKeeps, Halves DEF Reconnect

\* The engine begins well.
LEMMA InitEstablishes == Init => IInv
  <1>. SUFFICES ASSUME Init PROVE IInv
    OBVIOUS
  <1>1. /\ running \in BOOLEAN /\ restart \in BOOLEAN
        /\ rerunRequested \in BOOLEAN /\ owed \in BOOLEAN
    BY Zenon DEF Init
  <1>3. lock \in Seq(TaskType) /\ pass \in [PassId -> PassType]
    BY NoPassType DEF Init
  <1>4. TypeOK
    BY <1>1, <1>3, EngineAssumption DEF Init, TypeOK, None
  <1>2. PassesAreKnown /\ OnePassPerLifecycle
    BY DEF Init, PassesAreKnown, OnePassPerLifecycle
  <1>. QED BY <1>4, <1>2 DEF IInv

\* Every step keeps the invariant.
LEMMA NextKeeps == IInv /\ [Next]_vars => IInv'
  <1>. SUFFICES ASSUME IInv, [Next]_vars PROVE IInv'
    OBVIOUS
  <1>1. CASE UNCHANGED vars
    <2>1. RestOK' /\ UNCHANGED <<running, lifecycleGeneration, catchup>>
      BY <1>1 DEF vars, life, manager, edits, IInv, TypeOK, RestOK
    <2>. QED BY <2>1, QuietKeeps, Halves
  <1>2. CASE Next
    BY <1>2, LifeKeeps, LockStepKeeps, PassStepKeeps, ArrivalsKeep, ReconnectKeeps DEF Next
  <1>. QED BY <1>1, <1>2

\* The invariant holds in every reachable state.
THEOREM Invariance == Spec => []IInv
  BY InitEstablishes, NextKeeps, PTL DEF Spec

\* The engine's state is well typed.
THEOREM TypeCorrect == Spec => []TypeOK
  <1>1. IInv => TypeOK
    BY DEF IInv
  <1>. QED BY <1>1, Invariance, PTL

\* convergeFromServer never has two passes of one lifecycle in flight, however
\* starts, stops, resets, reconnects, timeouts and late answers interleave.
THEOREM PassesAreCoalesced == Spec => []OnePassPerLifecycle
  <1>1. IInv => OnePassPerLifecycle
    BY DEF IInv
  <1>. QED BY <1>1, Invariance, PTL

-----------------------------------------------------------------------------
(* A reconnect is owed a pass only while there is one that will be followed *)
(* by another.                                                             *)

\* A pass for a reconnect is owed only by a running engine whose pass in flight
\* is marked for a rerun: nothing else can settle the debt.
DebtIsMarked == owed => running /\ Current /\ rerunRequested

\* A pass that begins settles the debt.
LEMMA BeginPassSettles ==
  ASSUME NEW others, NEW gen, NEW d, BeginPass(others, gen, d) PROVE DebtIsMarked'
  BY DEF BeginPass, DebtIsMarked

\* A pass that ends, begins another if a reconnect is owed one.
LEMMA SettleSettles ==
  ASSUME IInv, DebtIsMarked, NEW i \in PassId, NEW p, NEW d, Settle(i, p, d),
         UNCHANGED <<running, lifecycleGeneration>>
  PROVE  DebtIsMarked'
  <1>1. CASE \E others, gen : BeginPass(others, gen, d)
    BY <1>1, BeginPassSettles
  <1>2. CASE /\ pass' = [pass EXCEPT ![i] = NoPass] /\ owed' = owed
             /\ convergence' = IF convergence = i THEN None ELSE convergence
             /\ rerunRequested' = (rerunRequested /\ convergence # i)
             /\ ~(running /\ convergence = i /\ rerunRequested)
    BY <1>2 DEF DebtIsMarked, Current, IInv, TypeOK
  <1>. QED BY <1>1, <1>2 DEF Settle

\* A call made for a reconnect marks the pass it finds.
LEMMA ConvergeSettles ==
  ASSUME IInv, DebtIsMarked, NEW r \in BOOLEAN, NEW d, ConvergeFromServer(r, d),
         UNCHANGED <<running, lifecycleGeneration>>
  PROVE  DebtIsMarked'
  <1>1. CASE BeginPass(pass, lifecycleGeneration, d)
    BY <1>1, BeginPassSettles
  <1>2. CASE UNCHANGED catchup
    BY <1>2 DEF catchup, DebtIsMarked, Current
  <1>3. CASE /\ running /\ Current /\ UNCHANGED <<pass, convergence>>
             /\ rerunRequested' = (rerunRequested \/ r) /\ owed' = (owed \/ r)
    BY <1>3 DEF DebtIsMarked, Current
  <1>. QED BY <1>1, <1>2, <1>3 DEF ConvergeFromServer, Current

\* Every step keeps the mark of a debt.
LEMMA DebtKeeps == ASSUME IInv, DebtIsMarked, Next PROVE DebtIsMarked'
  <1>. USE DEF life, manager, edits
  <1>1. CASE Start \/ Stop \/ Restart
    <2>1. CASE StartEngine
      BY <2>1, BeginPassSettles DEF StartEngine
    <2>2. CASE Stop
      BY <2>2 DEF Stop, DebtIsMarked
    <2>3. CASE UNCHANGED <<life, catchup>>
      BY <2>3 DEF catchup, DebtIsMarked, Current
    <2>. QED BY <1>1, <2>1, <2>2, <2>3 DEF Start, Restart
  <1>2. ASSUME NEW i \in PassId, PassStep(i) PROVE DebtIsMarked'
    <2>1. CASE Settle(i, FALSE, doc)
      <3>1. UNCHANGED <<running, lifecycleGeneration>>
        BY <1>2 DEF PassStep, PassAnswered, PassFails, PassResumes
      <3>. QED BY <2>1, <3>1, SettleSettles
    <2>2. CASE ~Settle(i, FALSE, doc)
      <3>1. UNCHANGED <<running, lifecycleGeneration, convergence, rerunRequested, owed>>
        BY <1>2, <2>2 DEF PassStep, PassAnswered, PassFails, PassResumes
      <3>2. \A j \in PassId : pass'[j].gen = pass[j].gen
        <4>1. \/ pass' = [pass EXCEPT ![i].stage = "import"]
              \/ pass' = [pass EXCEPT ![i].stage = "paused", ![i].tries = @ + 1]
              \/ pass' = [pass EXCEPT ![i].stage = "asked"]
          BY <1>2, <2>2 DEF PassStep, PassAnswered, PassFails, PassResumes
        <4>2. pass \in [PassId -> PassType]
          BY DEF IInv, TypeOK
        <4>. QED BY <4>1, <4>2 DEF PassType
      <3>. QED BY <3>1, <3>2 DEF DebtIsMarked, Current, IInv, TypeOK
    <2>. QED BY <2>1, <2>2
  <1>3. CASE ImportUpdate
    <2>1. lock # <<>> /\ Head(lock) \in TaskType /\ UNCHANGED <<running, lifecycleGeneration>>
      BY <1>3, HeadOfLock DEF ImportUpdate, Holds
    <2>. DEFINE pending == ~(Head(lock).ops \subseteq Applied(doc'))
    <2>2. CASE Head(lock).pass # None /\ Settle(Head(lock).pass, pending, doc')
      <3>1. Head(lock).pass \in PassId
        BY <2>1, <2>2 DEF TaskType
      <3>. HIDE DEF pending
      <3>. QED BY <2>1, <2>2, <3>1, SettleSettles
    <2>3. CASE ConvergeFromServer(FALSE, doc')
      BY <2>1, <2>3, ConvergeSettles
    <2>4. CASE UNCHANGED catchup
      BY <2>1, <2>4 DEF catchup, DebtIsMarked, Current
    <2>. QED BY <1>3, <2>2, <2>3, <2>4 DEF ImportUpdate
  <1>4. CASE ImportFails \/ SyncFails
    <2>1. lock # <<>> /\ CallReset /\ owed' = (owed /\ running')
      BY <1>4 DEF ImportFails, SyncFails, Holds
    <2>2. running' = FALSE
      BY <2>1, CallResetKeeps, Zenon
    <2>. QED BY <2>1, <2>2 DEF DebtIsMarked
  <1>5. CASE \/ SyncApplies \/ ResetSeeds \/ ResetSeedFails \/ ResetTimesOut
             \/ \E o \in Op : RemoteEdit(o) \/ Gossip(o) \/ Edit(o) \/ WalDelivers(o)
             \/ ConnectionLost \/ ConnectionOpens
    <2>1. UNCHANGED <<life, catchup>>
      BY <1>5 DEF SyncApplies, ResetSeeds, ResetSeedFails, ResetTimesOut, ResetDone, RemoteEdit,
                  Gossip, Edit, WalDelivers, ConnectionLost, ConnectionOpens
    <2>. QED BY <2>1 DEF catchup, DebtIsMarked, Current
  <1>6. CASE Reconnect
    BY <1>6, ConvergeSettles DEF Reconnect
  <1>. QED BY <1>1, <1>2, <1>3, <1>4, <1>5, <1>6 DEF Next, LockStep

\* A reconnect that was absorbed into a pass in flight is never forgotten while
\* the engine runs: the pass stays marked until the one that settles the debt.
THEOREM ReconnectsAreMarked == Spec => []DebtIsMarked
  <1>1. Init => DebtIsMarked
    BY DEF Init, DebtIsMarked
  <1>2. IInv /\ DebtIsMarked /\ [Next]_vars => DebtIsMarked'
    <2>1. DebtIsMarked /\ UNCHANGED vars => DebtIsMarked'
      BY DEF DebtIsMarked, Current, vars, life, catchup
    <2>. QED BY <2>1, DebtKeeps
  <1>. QED BY <1>1, <1>2, Invariance, PTL DEF Spec

-----------------------------------------------------------------------------
(* Answers at the lock.                                                    *)

\* Each answer at the lock is that of a pass which waits for it and for no
\* other, and whose version it completes: an update comes with its causes.
Matched(l, p) ==
    /\ \A k \in 1..Len(l) : l[k].pass # None =>
          /\ l[k].kind = "import" /\ p[l[k].pass].stage = "import"
          /\ \A m \in 1..Len(l) : l[m].pass = l[k].pass => m = k
          /\ \A o \in l[k].ops : Deps[o] \subseteq l[k].ops \cup p[l[k].pass].since
    /\ \A i \in PassId : p[i].stage = "import" => \E k \in 1..Len(l) : l[k].pass = i

\* What is at the lock are tasks.
LEMMA Places ==
  ASSUME NEW l \in Seq(TaskType), NEW k \in 1..Len(l)
  PROVE  l[k] \in TaskType /\ l[k].pass \in PassId \cup {None}
  <1>1. l[k] \in TaskType
    OBVIOUS
  <1>. QED BY <1>1 DEF TaskType

\* The tasks at the lock after one more came.
LEMMA AppendPlaces ==
  ASSUME NEW l \in Seq(TaskType), NEW t \in TaskType
  PROVE  /\ Append(l, t) \in Seq(TaskType) /\ Len(Append(l, t)) = Len(l) + 1
         /\ Len(l) \in Nat /\ Append(l, t)[Len(l) + 1] = t
         /\ \A k \in 1..Len(l) : l[k] \in TaskType /\ Append(l, t)[k] = l[k]
  OBVIOUS

\* The tasks at the lock after its holder left.
LEMMA TailPlaces ==
  ASSUME NEW l \in Seq(TaskType), l # <<>>
  PROVE  /\ Tail(l) \in Seq(TaskType) /\ Len(Tail(l)) = Len(l) - 1
         /\ Len(l) \in Nat \ {0} /\ Head(l) = l[1]
         /\ \A k \in 1..Len(l) : l[k] \in TaskType
         /\ \A k \in 1..Len(Tail(l)) : Tail(l)[k] = l[k + 1]
  OBVIOUS

\* A pass in a free slot is no one's answer.
LEMMA MatchedBegin ==
  ASSUME NEW l \in Seq(TaskType), NEW others \in [PassId -> PassType], Matched(l, others),
         NEW gen \in Nat, NEW d \in SUBSET Op, BeginPass(others, gen, d)
  PROVE  Matched(l, pass')
  <1>1. PICK i \in PassId :
          /\ others[i] = NoPass
          /\ pass' = [others EXCEPT ![i] = [stage |-> "asked", gen |-> gen, tries |-> 1,
                                            since |-> Applied(d)]]
    BY DEF BeginPass
  <1>2. others[i].stage = "off" /\ pass'[i].stage = "asked"
    BY <1>1 DEF NoPass
  <1>3. \A j \in PassId \ {i} : pass'[j] = others[j]
    BY <1>1
  <1>4. \A k \in 1..Len(l) : l[k].pass \in PassId \cup {None}
    BY Places
  <1>5. \A k \in 1..Len(l) : l[k].pass # None => l[k].pass \in PassId \ {i}
    BY <1>2, <1>4 DEF Matched
  <1>6. ASSUME NEW k \in 1..Len(l), l[k].pass # None
        PROVE  pass'[l[k].pass] = others[l[k].pass]
    BY <1>3, <1>5, <1>6
  <1>. QED BY <1>2, <1>3, <1>6 DEF Matched

\* A task that is no answer comes.
LEMMA MatchedAppend ==
  ASSUME NEW l \in Seq(TaskType), NEW t \in TaskType, t.pass = None, NEW p, Matched(l, p)
  PROVE  Matched(Append(l, t), p)
  <1>. DEFINE m == Append(l, t)
  <1>1. /\ Len(m) = Len(l) + 1 /\ Len(l) \in Nat /\ m[Len(l) + 1] = t
        /\ \A k \in 1..Len(l) : m[k] = l[k]
    BY AppendPlaces
  <1>. HIDE DEF m
  <1>2. ASSUME NEW k \in 1..Len(m), m[k].pass # None PROVE k \in 1..Len(l) /\ m[k] = l[k]
    BY <1>1, <1>2
  <1>3. \A k \in 1..Len(m) : m[k].pass # None =>
          /\ m[k].kind = "import" /\ p[m[k].pass].stage = "import"
          /\ \A j \in 1..Len(m) : m[j].pass = m[k].pass => j = k
          /\ \A o \in m[k].ops : Deps[o] \subseteq m[k].ops \cup p[m[k].pass].since
    BY <1>2 DEF Matched
  <1>4. \A k \in 1..Len(l) : k \in 1..Len(m)
    BY <1>1
  <1>5. \A i \in PassId : p[i].stage = "import" => \E k \in 1..Len(m) : m[k].pass = i
    BY <1>1, <1>4 DEF Matched
  <1>6. Matched(m, p)
    BY <1>3, <1>5 DEF Matched
  <1>. QED BY <1>6 DEF m

\* The holder leaves: if it was an answer, its pass is over.
LEMMA MatchedTail ==
  ASSUME NEW l \in Seq(TaskType), l # <<>>, NEW p \in [PassId -> PassType], Matched(l, p)
  PROVE  /\ Head(l).pass = None => Matched(Tail(l), p)
         /\ Head(l).pass # None => Matched(Tail(l), [p EXCEPT ![Head(l).pass] = NoPass])
  <1>. DEFINE m == Tail(l)
              q == IF Head(l).pass = None THEN p ELSE [p EXCEPT ![Head(l).pass] = NoPass]
  <1>1. /\ Len(m) = Len(l) - 1 /\ Len(l) \in Nat \ {0} /\ Head(l) = l[1]
        /\ \A k \in 1..Len(l) : l[k] \in TaskType
        /\ \A k \in 1..Len(m) : m[k] = l[k + 1]
    BY TailPlaces
  <1>2. Head(l).pass \in PassId \cup {None}
    BY <1>1 DEF TaskType
  <1>3. \A i \in PassId : i # Head(l).pass => q[i] = p[i]
    BY <1>2
  <1>4. Head(l).pass # None => q[Head(l).pass].stage = "off"
    BY <1>2 DEF NoPass
  <1>. HIDE DEF m, q
  <1>5. ASSUME NEW k \in 1..Len(m), m[k].pass # None
        PROVE  /\ k + 1 \in 1..Len(l) /\ m[k] = l[k + 1] /\ m[k].pass # Head(l).pass
               /\ q[m[k].pass] = p[m[k].pass]
    <2>1. k + 1 \in 1..Len(l) /\ m[k] = l[k + 1] /\ k + 1 # 1 /\ 1 \in 1..Len(l)
      BY <1>1
    <2>2. l[k + 1].pass # None
      BY <1>5, <2>1
    <2>3. l[1].pass # l[k + 1].pass
      BY <2>1, <2>2 DEF Matched
    <2>4. m[k].pass \in PassId
      BY <1>1, <2>1, <2>2 DEF TaskType
    <2>. QED BY <1>1, <1>3, <2>1, <2>3, <2>4
  <1>6. ASSUME NEW k \in 1..Len(m), m[k].pass # None
        PROVE  /\ m[k].kind = "import" /\ q[m[k].pass].stage = "import"
               /\ \A j \in 1..Len(m) : m[j].pass = m[k].pass => j = k
               /\ \A o \in m[k].ops : Deps[o] \subseteq m[k].ops \cup q[m[k].pass].since
    <2>1. /\ k + 1 \in 1..Len(l) /\ m[k] = l[k + 1] /\ l[k + 1].pass # None
          /\ q[m[k].pass] = p[m[k].pass]
      BY <1>5, <1>6
    <2>2. ASSUME NEW j \in 1..Len(m), m[j].pass = m[k].pass PROVE j = k
      <3>1. j + 1 \in 1..Len(l) /\ l[j + 1].pass = l[k + 1].pass
        BY <1>1, <2>1, <2>2
      <3>2. j + 1 = k + 1
        BY <2>1, <3>1 DEF Matched
      <3>. QED BY <3>2
    <2>. QED BY <2>1, <2>2 DEF Matched
  <1>7. ASSUME NEW i \in PassId, q[i].stage = "import" PROVE \E k \in 1..Len(m) : m[k].pass = i
    <2>1. i # Head(l).pass /\ p[i].stage = "import"
      BY <1>3, <1>4, <1>7 DEF PassId, None
    <2>2. PICK k \in 1..Len(l) : l[k].pass = i
      BY <2>1 DEF Matched
    <2>3. k # 1 /\ k - 1 \in 1..Len(m) /\ m[k - 1] = l[k]
      BY <1>1, <2>1, <2>2
    <2>. QED BY <2>2, <2>3
  <1>8. Matched(m, q)
    BY <1>6, <1>7 DEF Matched
  <1>. QED BY <1>8 DEF m, q

\* A pass that has no answer yet changes.
LEMMA MatchedChange ==
  ASSUME NEW l \in Seq(TaskType), NEW p \in [PassId -> PassType], Matched(l, p),
         NEW i \in PassId, p[i].stage # "import",
         NEW q \in [PassId -> PassType], q[i].stage # "import",
         \A j \in PassId \ {i} : q[j] = p[j]
  PROVE  Matched(l, q)
  <1>1. \A k \in 1..Len(l) : l[k].pass \in PassId \cup {None}
    BY Places
  <1>2. ASSUME NEW k \in 1..Len(l), l[k].pass # None PROVE q[l[k].pass] = p[l[k].pass]
    BY <1>1, <1>2 DEF Matched
  <1>. QED BY <1>2 DEF Matched

\* The answer to a pass comes.
LEMMA MatchedAnswer ==
  ASSUME NEW l \in Seq(TaskType), NEW p \in [PassId -> PassType], Matched(l, p),
         NEW i \in PassId, p[i].stage = "asked", NEW ops \in SUBSET Op,
         \A o \in ops : Deps[o] \subseteq ops \cup p[i].since
  PROVE  Matched(Append(l, Import(ops, i)), [p EXCEPT ![i].stage = "import"])
  <1>. DEFINE t == Import(ops, i)
              m == Append(l, t)
              q == [p EXCEPT ![i].stage = "import"]
  <1>1. t \in TaskType /\ t.pass = i /\ t.kind = "import" /\ t.ops = ops
    BY NewTasks DEF Import
  <1>2. /\ Len(m) = Len(l) + 1 /\ Len(l) \in Nat /\ m[Len(l) + 1] = t
        /\ \A k \in 1..Len(l) : l[k] \in TaskType /\ m[k] = l[k]
    BY <1>1, AppendPlaces
  <1>3. /\ \A j \in PassId \ {i} : q[j] = p[j]
        /\ q[i].stage = "import" /\ q[i].since = p[i].since
    BY DEF PassType
  <1>. HIDE DEF m, q, t
  <1>4. \A k \in 1..Len(l) : l[k].pass # i
    BY DEF Matched, PassId, None
  <1>5. ASSUME NEW k \in 1..Len(m), m[k].pass # None
        PROVE  /\ m[k].kind = "import" /\ q[m[k].pass].stage = "import"
               /\ \A j \in 1..Len(m) : m[j].pass = m[k].pass => j = k
               /\ \A o \in m[k].ops : Deps[o] \subseteq m[k].ops \cup q[m[k].pass].since
    <2>1. CASE k = Len(l) + 1
      <3>1. \A j \in 1..Len(m) : j # k => j \in 1..Len(l)
        BY <1>2, <2>1
      <3>. QED BY <1>1, <1>2, <1>3, <1>4, <2>1, <3>1
    <2>2. CASE k \in 1..Len(l)
      <3>1. m[k] = l[k] /\ m[k].pass \in PassId \ {i} /\ q[m[k].pass] = p[m[k].pass]
        BY <1>2, <1>3, <1>4, <1>5, <2>2 DEF TaskType
      <3>2. ASSUME NEW j \in 1..Len(m), m[j].pass = m[k].pass PROVE j = k
        <4>1. j \in 1..Len(l) /\ m[j] = l[j]
          BY <1>1, <1>2, <3>1, <3>2
        <4>. QED BY <2>2, <3>1, <3>2, <4>1, <1>5 DEF Matched
      <3>. QED BY <1>5, <2>2, <3>1, <3>2 DEF Matched
    <2>. QED BY <1>2, <2>1, <2>2
  <1>6. ASSUME NEW j \in PassId, q[j].stage = "import" PROVE \E k \in 1..Len(m) : m[k].pass = j
    <2>1. CASE j = i
      <3>1. Len(l) + 1 \in 1..Len(m)
        BY <1>2
      <3>. QED BY <1>1, <1>2, <2>1, <3>1
    <2>2. CASE j # i
      <3>1. PICK k \in 1..Len(l) : l[k].pass = j
        BY <1>3, <1>6, <2>2 DEF Matched
      <3>2. k \in 1..Len(m) /\ m[k] = l[k]
        BY <1>2
      <3>. QED BY <3>1, <3>2
    <2>. QED BY <2>1, <2>2
  <1>7. Matched(m, q)
    BY <1>5, <1>6 DEF Matched
  <1>. QED BY <1>7 DEF m, q, t

-----------------------------------------------------------------------------
(* The books: what relates passes, answers, the document and the service.  *)

\* Only the tab's own edits go through the log.
OwnTasks(l) == \A k \in 1..Len(l) : l[k].kind = "sync" => l[k].ops \subseteq Mine
OwnEdits == wal \subseteq Mine /\ OwnTasks(lock)

\* The service stores no update before its causes.
ServerClosed == \A o \in server : Deps[o] \subseteq server

\* The current pass is in flight and, while the engine runs, of this lifecycle.
ConvergenceIsCurrent ==
    convergence # None =>
        /\ pass[convergence].stage # "off"
        /\ running => pass[convergence].gen = lifecycleGeneration

Listening == running /\ sub = cur

\* A pass asks for no less than the document it works for lacks.
SinceBehind ==
    Listening =>
        \A i \in PassId : pass[i] # NoPass /\ pass[i].gen = lifecycleGeneration =>
            pass[i].since \subseteq Applied(doc)

Books ==
    /\ OwnEdits /\ ServerClosed /\ sub <= cur /\ ConvergenceIsCurrent
    /\ Matched(lock, pass) /\ SinceBehind

\* After a step on document d, a pass is an old one or begins on d.
PassesFrom(d) ==
    \A j \in PassId : pass'[j] # NoPass =>
        \/ pass[j] # NoPass /\ pass'[j].gen = pass[j].gen /\ pass'[j].since = pass[j].since
        \/ pass'[j].since = Applied(d)

\* Loro applies no less of a larger document.
LEMMA AppliedGrows == \A d, e : d \subseteq e => Applied(d) \subseteq Applied(e)
  BY DEF Applied

\* A task that comes, and the holder that leaves, keep the edits the tab's own.
LEMMA OwnPlaces ==
  ASSUME NEW l \in Seq(TaskType), OwnTasks(l)
  PROVE  /\ \A t \in TaskType : (t.kind = "sync" => t.ops \subseteq Mine) => OwnTasks(Append(l, t))
         /\ l # <<>> => OwnTasks(Tail(l)) /\ (Head(l).kind = "sync" => Head(l).ops \subseteq Mine)
  <1>1. ASSUME NEW t \in TaskType, t.kind = "sync" => t.ops \subseteq Mine
        PROVE  OwnTasks(Append(l, t))
    <2>1. /\ Len(Append(l, t)) = Len(l) + 1 /\ Len(l) \in Nat /\ Append(l, t)[Len(l) + 1] = t
          /\ \A k \in 1..Len(l) : Append(l, t)[k] = l[k]
      BY AppendPlaces
    <2>2. \A k \in 1..(Len(l) + 1) : k = Len(l) + 1 \/ k \in 1..Len(l)
      BY <2>1
    <2>. QED BY <1>1, <2>1, <2>2 DEF OwnTasks
  <1>2. ASSUME l # <<>>
        PROVE  OwnTasks(Tail(l)) /\ (Head(l).kind = "sync" => Head(l).ops \subseteq Mine)
    <2>1. /\ Len(Tail(l)) = Len(l) - 1 /\ Len(l) \in Nat \ {0} /\ Head(l) = l[1]
          /\ \A k \in 1..Len(Tail(l)) : Tail(l)[k] = l[k + 1]
      BY <1>2, TailPlaces
    <2>2. 1 \in 1..Len(l) /\ \A k \in 1..(Len(l) - 1) : k + 1 \in 1..Len(l)
      BY <2>1
    <2>. QED BY <2>1, <2>2 DEF OwnTasks
  <1>. QED BY <1>1, <1>2

\* The pass that begins is the current one.
LEMMA BeginFacts ==
  ASSUME NEW others \in [PassId -> PassType], NEW gen \in Nat, NEW d \in SUBSET Op,
         BeginPass(others, gen, d)
  PROVE  /\ convergence' \in PassId /\ convergence' # None /\ ~rerunRequested'
         /\ others[convergence'] = NoPass
         /\ pass'[convergence'].stage = "asked" /\ pass'[convergence'].gen = gen
         /\ pass'[convergence'].since = Applied(d)
         /\ \A j \in PassId \ {convergence'} : pass'[j] = others[j]
  BY DEF BeginPass, PassId, None

\* A pass ends: what becomes of the books.
LEMMA SettleBooks ==
  ASSUME IInv, Books, NEW i \in PassId, NEW p, NEW d \in SUBSET Op, Settle(i, p, d),
         UNCHANGED <<running, lifecycleGeneration>>,
         NEW l \in Seq(TaskType), Matched(l, [pass EXCEPT ![i] = NoPass])
  PROVE  Matched(l, pass') /\ ConvergenceIsCurrent' /\ PassesFrom(d)
  <1>. DEFINE others == [pass EXCEPT ![i] = NoPass]
  <1>1. /\ others \in [PassId -> PassType] /\ others[i] = NoPass
        /\ \A j \in PassId \ {i} : others[j] = pass[j]
        /\ lifecycleGeneration \in Nat
    BY NoPassType DEF IInv, TypeOK
  <1>2. CASE BeginPass(others, lifecycleGeneration, d)
    <2>. HIDE DEF others
    <2>1. Matched(l, pass')
      BY <1>1, <1>2, MatchedBegin DEF others
    <2>2. ConvergenceIsCurrent'
      BY <1>1, <1>2, BeginFacts DEF ConvergenceIsCurrent
    <2>3. PassesFrom(d)
      BY <1>1, <1>2, BeginFacts DEF PassesFrom
    <2>. QED BY <2>1, <2>2, <2>3
  <1>3. CASE /\ pass' = others
             /\ convergence' = IF convergence = i THEN None ELSE convergence
    <2>1. ConvergenceIsCurrent'
      BY <1>1, <1>3 DEF Books, ConvergenceIsCurrent, IInv, TypeOK
    <2>2. PassesFrom(d)
      BY <1>1, <1>3 DEF PassesFrom
    <2>. QED BY <1>3, <2>1, <2>2
  <1>. QED BY <1>2, <1>3 DEF Settle

\* A call of convergeFromServer: what becomes of the books.
LEMMA ConvergeBooks ==
  ASSUME IInv, Books, NEW r, NEW d \in SUBSET Op, ConvergeFromServer(r, d),
         UNCHANGED <<running, lifecycleGeneration>>,
         NEW l \in Seq(TaskType), Matched(l, pass)
  PROVE  Matched(l, pass') /\ ConvergenceIsCurrent' /\ PassesFrom(d)
  <1>1. pass \in [PassId -> PassType] /\ lifecycleGeneration \in Nat
    BY DEF IInv, TypeOK
  <1>2. CASE BeginPass(pass, lifecycleGeneration, d)
    <2>1. Matched(l, pass')
      BY <1>1, <1>2, MatchedBegin
    <2>2. ConvergenceIsCurrent'
      BY <1>1, <1>2, BeginFacts DEF ConvergenceIsCurrent
    <2>3. PassesFrom(d)
      BY <1>1, <1>2, BeginFacts DEF PassesFrom
    <2>. QED BY <2>1, <2>2, <2>3
  <1>3. CASE UNCHANGED <<pass, convergence>>
    BY <1>3 DEF PassesFrom, Books, ConvergenceIsCurrent
  <1>. QED BY <1>2, <1>3 DEF ConvergeFromServer, catchup

\* The versions of the passes stay behind a document that grows.
LEMMA SinceStays ==
  ASSUME Books, PassesFrom(doc'), lifecycleGeneration' = lifecycleGeneration,
         Listening' => Listening /\ doc \subseteq doc'
  PROVE  SinceBehind'
  <1>. SUFFICES ASSUME Listening', NEW i \in PassId, pass'[i] # NoPass,
                       pass'[i].gen = lifecycleGeneration'
                PROVE  pass'[i].since \subseteq Applied(doc')
    BY DEF SinceBehind
  <1>1. Applied(doc) \subseteq Applied(doc')
    BY AppliedGrows
  <1>. QED BY <1>1 DEF Books, SinceBehind, PassesFrom

\* start(): a pass of a new lifecycle, on the document subscribed to.
LEMMA StartBooks ==
  ASSUME IInv, Books, StartEngine, UNCHANGED <<cur, doc, lock, server, wal>>
  PROVE  Books'
  <1>1. /\ pass \in [PassId -> PassType] /\ lifecycleGeneration + 1 \in Nat /\ doc \in SUBSET Op
        /\ lock \in Seq(TaskType) /\ cur \in Nat
    BY DEF IInv, TypeOK
  <1>2. BeginPass(pass, lifecycleGeneration + 1, doc) /\ lifecycleGeneration' = lifecycleGeneration + 1
    BY DEF StartEngine
  <1>3. Matched(lock', pass')
    BY <1>1, <1>2, MatchedBegin DEF Books
  <1>4. ConvergenceIsCurrent'
    BY <1>1, <1>2, BeginFacts DEF ConvergenceIsCurrent
  <1>5. SinceBehind'
    <2>1. \A j \in PassId : pass[j] # NoPass => pass[j].gen # lifecycleGeneration + 1
      BY DEF IInv, TypeOK, PassesAreKnown, PassType
    <2>. QED BY <1>1, <1>2, <2>1, BeginFacts DEF SinceBehind
  <1>6. sub' <= cur'
    BY <1>1 DEF StartEngine
  <1>. QED BY <1>3, <1>4, <1>5, <1>6 DEF Books, OwnEdits, ServerClosed

\* The steps of a pass keep the books: an answer has all that is stored.
LEMMA PassStepBooks == ASSUME IInv, Books, NEW i \in PassId, PassStep(i) PROVE Books'
  <1>. USE DEF life, manager, edits
  <1>1. /\ pass \in [PassId -> PassType] /\ lock \in Seq(TaskType) /\ doc \in SUBSET Op
        /\ server \in SUBSET Op /\ pass[i] \in PassType
    BY DEF IInv, TypeOK
  <1>2. UNCHANGED <<running, lifecycleGeneration, sub, cur, doc, server, wal>>
    BY DEF PassStep, PassAnswered, PassFails, PassResumes
  <1>3. pass[i].stage \in {"asked", "paused"}
    BY DEF PassStep, PassAnswered, PassFails, PassResumes
  <1>4. ASSUME OwnEdits', Matched(lock', pass'), ConvergenceIsCurrent', PassesFrom(doc)
        PROVE  Books'
    <2>1. SinceBehind'
      BY <1>2, <1>4, SinceStays DEF Listening
    <2>. QED BY <1>2, <1>4, <2>1 DEF Books, ServerClosed
  <1>5. CASE Settle(i, FALSE, doc) /\ lock' = lock
    <2>1. /\ [pass EXCEPT ![i] = NoPass] \in [PassId -> PassType]
          /\ [pass EXCEPT ![i] = NoPass][i].stage # "import"
          /\ \A j \in PassId \ {i} : [pass EXCEPT ![i] = NoPass][j] = pass[j]
      BY <1>1, NoPassType DEF NoPass
    <2>2. Matched(lock, [pass EXCEPT ![i] = NoPass])
      BY <1>1, <1>3, <2>1, MatchedChange DEF Books
    <2>3. Matched(lock, pass') /\ ConvergenceIsCurrent' /\ PassesFrom(doc)
      BY <1>1, <1>2, <1>5, <2>2, SettleBooks
    <2>. QED BY <1>2, <1>4, <1>5, <2>3 DEF Books, OwnEdits
  <1>6. CASE /\ \/ pass' = [pass EXCEPT ![i].stage = "paused", ![i].tries = @ + 1]
                \/ pass' = [pass EXCEPT ![i].stage = "asked"]
             /\ UNCHANGED <<lock, convergence>> /\ IInv'
    <2>1. /\ pass' \in [PassId -> PassType] /\ pass'[i].stage \in {"asked", "paused"}
          /\ \A j \in PassId \ {i} : pass'[j] = pass[j]
          /\ pass'[i].gen = pass[i].gen /\ pass'[i].since = pass[i].since
      BY <1>1, <1>6 DEF PassType, IInv, TypeOK
    <2>2. Matched(lock, pass')
      BY <1>1, <1>3, <2>1, MatchedChange DEF Books
    <2>3. pass[i] # NoPass
      BY <1>3 DEF NoPass
    <2>4. PassesFrom(doc)
      BY <2>1, <2>3 DEF PassesFrom
    <2>5. ConvergenceIsCurrent'
      BY <1>2, <1>6, <2>1 DEF Books, ConvergenceIsCurrent, IInv, TypeOK
    <2>. QED BY <1>2, <1>4, <1>6, <2>2, <2>4, <2>5 DEF Books, OwnEdits
  <1>7. CASE /\ pass[i].stage = "asked" /\ lock' = Append(lock, Import(server \ pass[i].since, i))
             /\ pass' = [pass EXCEPT ![i].stage = "import"] /\ convergence' = convergence
    <2>. DEFINE ops == server \ pass[i].since
    <2>1. ops \in SUBSET Op /\ \A o \in ops : Deps[o] \subseteq ops \cup pass[i].since
      BY <1>1 DEF Books, ServerClosed
    <2>2. Matched(lock', pass')
      BY <1>1, <1>7, <2>1, MatchedAnswer DEF Books
    <2>3. /\ \A j \in PassId \ {i} : pass'[j] = pass[j]
          /\ pass'[i].stage = "import" /\ pass'[i].gen = pass[i].gen /\ pass'[i].since = pass[i].since
      BY <1>1, <1>7 DEF PassType
    <2>4. pass[i] # NoPass
      BY <1>3 DEF NoPass
    <2>5. PassesFrom(doc) /\ ConvergenceIsCurrent'
      BY <1>2, <1>7, <2>3, <2>4 DEF PassesFrom, Books, ConvergenceIsCurrent, IInv, TypeOK
    <2>6. OwnEdits'
      <3>1. Import(ops, i) \in TaskType /\ Import(ops, i).kind = "import"
        BY <2>1, NewTasks DEF Import
      <3>2. OwnTasks(lock')
        BY <1>1, <1>7, <3>1, OwnPlaces DEF Books, OwnEdits
      <3>. QED BY <1>2, <3>2 DEF Books, OwnEdits
    <2>. QED BY <1>4, <2>2, <2>5, <2>6
  <1>. QED BY <1>5, <1>6, <1>7, PassStepKeeps DEF PassStep, PassAnswered, PassFails, PassResumes

\* Every pass that is not begun or ended is as it was.
LEMMA SamePassesFrom == pass' = pass => \A d : PassesFrom(d)
  BY DEF PassesFrom

\* A task that is no answer comes, and perhaps the service has stored more.
LEMMA ArrivalBooks ==
  ASSUME IInv, Books, NEW t \in TaskType, t.pass = None, t.kind = "sync" => t.ops \subseteq Mine,
         lock' = lock \/ lock' = Append(lock, t), ServerClosed',
         UNCHANGED <<life, manager, wal, pass, convergence>>
  PROVE  Books'
  <1>. USE DEF life, manager
  <1>1. lock \in Seq(TaskType)
    BY DEF IInv, TypeOK
  <1>2. Matched(lock', pass')
    BY <1>1, MatchedAppend DEF Books
  <1>3. OwnEdits'
    BY <1>1, OwnPlaces DEF Books, OwnEdits
  <1>4. SinceBehind'
    BY SamePassesFrom, SinceStays DEF Listening
  <1>5. ConvergenceIsCurrent' /\ sub' <= cur'
    BY DEF Books, ConvergenceIsCurrent
  <1>. QED BY <1>2, <1>3, <1>4, <1>5 DEF Books

\* The holder of the lock, no answer, leaves an engine that runs as before.
LEMMA LeavingBooks ==
  ASSUME IInv, Books, lock # <<>>, Head(lock).pass = None, lock' = Tail(lock),
         UNCHANGED <<server, life, pass, convergence>>, wal' \subseteq Mine,
         sub' <= cur', sub' = cur' => sub = cur /\ doc \subseteq doc'
  PROVE  Books'
  <1>. USE DEF life
  <1>1. lock \in Seq(TaskType) /\ pass \in [PassId -> PassType]
    BY DEF IInv, TypeOK
  <1>2. Matched(lock', pass')
    BY <1>1, MatchedTail DEF Books
  <1>3. OwnEdits'
    BY <1>1, OwnPlaces DEF Books, OwnEdits
  <1>4. SinceBehind'
    BY SamePassesFrom, SinceStays DEF Listening
  <1>5. ConvergenceIsCurrent' /\ ServerClosed'
    BY DEF Books, ConvergenceIsCurrent, ServerClosed
  <1>. QED BY <1>2, <1>3, <1>4, <1>5 DEF Books

\* A stopped engine: no pass is of its lifecycle any more.
LEMMA StoppedBooks ==
  ASSUME Books, running' = FALSE, sub' <= cur', UNCHANGED <<server, wal>>, OwnTasks(lock'),
         Matched(lock', pass'), convergence' \in {convergence, None},
         convergence' # None => pass'[convergence'] = pass[convergence']
  PROVE  Books'
  <1>1. ConvergenceIsCurrent' /\ SinceBehind'
    BY DEF Books, ConvergenceIsCurrent, SinceBehind, Listening
  <1>. QED BY <1>1 DEF Books, OwnEdits, ServerClosed

\* Start, Stop and Restart.
LEMMA LifeBooks == ASSUME IInv, Books, Start \/ Stop \/ Restart PROVE Books'
  <1>. USE DEF life, manager, edits
  <1>1. CASE StartEngine /\ (Start \/ Restart)
    BY <1>1, StartBooks DEF Start, Restart
  <1>2. CASE Stop
    <2>1. running' = FALSE
      BY <1>2, Zenon DEF Stop, StopEngine
    <2>2. sub' <= cur'
      BY <1>2 DEF Stop, StopEngine, None, IInv, TypeOK
    <2>3. UNCHANGED <<server, wal, lock, pass, convergence>>
      BY <1>2 DEF Stop
    <2>. QED BY <2>1, <2>2, <2>3, StoppedBooks DEF Books, OwnEdits
  <1>3. CASE Restart /\ UNCHANGED <<life, catchup>>
    <2>1. UNCHANGED <<server, running, lifecycleGeneration, sub, cur, doc, wal, lock, pass, convergence>>
      BY <1>3 DEF Restart, catchup
    <2>. QED BY <2>1 DEF Books, OwnEdits, ServerClosed, ConvergenceIsCurrent, SinceBehind, Listening
  <1>. QED BY <1>1, <1>2, <1>3 DEF Start, Restart

\* The tasks in the lock.
LEMMA LockStepBooks == ASSUME IInv, Books, LockStep PROVE Books'
  <1>. USE DEF life, manager, edits
  <1>0. /\ lock \in Seq(TaskType) /\ pass \in [PassId -> PassType] /\ doc \in SUBSET Op
        /\ cur \in Nat /\ sub \in Nat
    BY DEF IInv, TypeOK
  <1>1. CASE ImportUpdate
    <2>1. /\ lock # <<>> /\ lock' = Tail(lock) /\ Head(lock) \in TaskType
          /\ doc' \in SUBSET Op /\ doc \subseteq doc'
          /\ UNCHANGED <<server, running, lifecycleGeneration, sub, cur, wal>>
      BY <1>0, <1>1, HeadOfLock DEF ImportUpdate, Holds, TaskType
    <2>2. lock' \in Seq(TaskType) /\ OwnTasks(lock')
      BY <1>0, <2>1, TailPlaces, OwnPlaces DEF Books, OwnEdits
    <2>3. ASSUME Matched(lock', pass'), ConvergenceIsCurrent', PassesFrom(doc') PROVE Books'
      <3>1. SinceBehind'
        BY <2>1, <2>3, SinceStays DEF Listening
      <3>. QED BY <2>1, <2>2, <2>3, <3>1 DEF Books, OwnEdits, ServerClosed
    <2>. DEFINE pending == ~(Head(lock).ops \subseteq Applied(doc'))
    <2>4. CASE Head(lock).pass # None /\ Settle(Head(lock).pass, pending, doc')
      <3>1. Head(lock).pass \in PassId
        BY <2>1, <2>4 DEF TaskType
      <3>2. Matched(lock', [pass EXCEPT ![Head(lock).pass] = NoPass])
        BY <1>0, <2>1, <2>4, MatchedTail DEF Books
      <3>. HIDE DEF pending
      <3>. QED BY <2>1, <2>2, <2>3, <2>4, <3>1, <3>2, SettleBooks
    <2>5. CASE Head(lock).pass = None
      <3>1. Matched(lock', pass)
        BY <1>0, <2>1, <2>5, MatchedTail DEF Books
      <3>2. CASE ConvergeFromServer(FALSE, doc')
        BY <2>1, <2>2, <2>3, <3>1, <3>2, ConvergeBooks
      <3>3. CASE UNCHANGED catchup
        BY <2>1, <2>3, <3>1, <3>3, SamePassesFrom DEF catchup, Books, ConvergenceIsCurrent
      <3>. QED BY <1>1, <2>5, <3>2, <3>3 DEF ImportUpdate
    <2>. QED BY <1>1, <2>4, <2>5 DEF ImportUpdate
  <1>2. CASE ImportFails \/ SyncFails
    <2>1. /\ lock # <<>> /\ CallReset /\ Head(lock) \in TaskType /\ UNCHANGED <<server, wal, cur>>
      BY <1>2, HeadOfLock DEF ImportFails, SyncFails, Holds
    <2>2. running' = FALSE /\ running \in BOOLEAN
      BY <2>1, CallResetKeeps, Zenon DEF IInv, TypeOK
    <2>3. sub' <= cur'
      BY <1>0, <2>1 DEF CallReset, StopEngine, None, Books
    <2>4. /\ Reset(running) \in TaskType /\ Reset(running).pass = None /\ Reset(running).kind = "reset"
          /\ lock' = Append(Tail(lock), Reset(running)) /\ Tail(lock) \in Seq(TaskType)
      BY <1>0, <2>1, <2>2, NewTasks, TailPlaces DEF CallReset, Reset
    <2>5. OwnTasks(lock')
      BY <1>0, <2>1, <2>4, OwnPlaces DEF Books, OwnEdits
    <2>6. CASE Head(lock).pass = None /\ UNCHANGED <<pass, convergence>>
      <3>1. Matched(Tail(lock), pass)
        BY <1>0, <2>1, <2>6, MatchedTail DEF Books
      <3>2. Matched(lock', pass')
        BY <2>4, <2>6, <3>1, MatchedAppend
      <3>. QED BY <2>1, <2>2, <2>3, <2>5, <2>6, <3>2, StoppedBooks
    <2>7. CASE /\ Head(lock).pass # None /\ pass' = [pass EXCEPT ![Head(lock).pass] = NoPass]
               /\ convergence' = IF convergence = Head(lock).pass THEN None ELSE convergence
      <3>1. Matched(Tail(lock), pass')
        BY <1>0, <2>1, <2>7, MatchedTail DEF Books
      <3>2. Matched(lock', pass')
        BY <2>4, <3>1, MatchedAppend
      <3>3. /\ convergence' \in {convergence, None}
            /\ convergence' # None => pass'[convergence'] = pass[convergence']
        BY <1>0, <2>7 DEF IInv, TypeOK
      <3>. QED BY <2>1, <2>2, <2>3, <2>5, <3>2, <3>3, StoppedBooks
    <2>8. CASE SyncFails
      <3>1. Head(lock).pass = None
        <4>1. 1 \in 1..Len(lock) /\ Head(lock) = lock[1] /\ Head(lock).kind = "sync"
          BY <1>0, <2>1, <2>8, TailPlaces DEF SyncFails, Holds
        <4>. QED BY <4>1 DEF Books, Matched
      <3>. QED BY <2>6, <2>8, <3>1 DEF SyncFails
    <2>. QED BY <1>2, <2>6, <2>7, <2>8 DEF ImportFails
  <1>3. ASSUME Holds("sync") \/ Holds("reset") PROVE lock # <<>> /\ Head(lock).pass = None
    <2>1. lock # <<>> /\ 1 \in 1..Len(lock) /\ Head(lock) = lock[1] /\ Head(lock).kind # "import"
      BY <1>0, <1>3, TailPlaces DEF Holds
    <2>. QED BY <2>1 DEF Books, Matched
  <1>4. CASE SyncApplies
    <2>1. lock # <<>> /\ Head(lock).pass = None /\ Head(lock).ops \subseteq Mine
      BY <1>0, <1>3, <1>4, OwnPlaces DEF SyncApplies, Holds, Books, OwnEdits
    <2>2. wal' \subseteq Mine
      BY <1>4, <2>1 DEF SyncApplies, Books, OwnEdits
    <2>. QED BY <1>4, <2>1, <2>2, LeavingBooks DEF SyncApplies, catchup, Books
  <1>5. CASE ResetSeeds \/ ResetSeedFails \/ ResetTimesOut
    <2>1. PICK c \in {cur, cur + 1}, d \in SUBSET Op : ResetDone(c, d) /\ (c = cur => d = doc)
      BY <1>0, <1>5 DEF IInv, TypeOK, ResetSeeds, ResetSeedFails, ResetTimesOut
    <2>2. lock # <<>> /\ Head(lock).pass = None
      BY <1>3, <2>1 DEF ResetDone
    <2>3. sub' <= cur' /\ (sub' = cur' => sub = cur /\ doc \subseteq doc')
      BY <1>0, <2>1 DEF ResetDone, Books
    <2>4. wal' \subseteq Mine
      BY <2>1 DEF ResetDone, Books, OwnEdits
    <2>. QED BY <2>1, <2>2, <2>3, <2>4, LeavingBooks DEF ResetDone, catchup
  <1>. QED BY <1>1, <1>2, <1>4, <1>5 DEF LockStep

\* What comes from elsewhere: an update is stored after its causes.
LEMMA ArrivalsBooks ==
  ASSUME IInv, Books, \/ \E o \in Op : RemoteEdit(o) \/ Gossip(o) \/ Edit(o) \/ WalDelivers(o)
                      \/ ConnectionLost \/ ConnectionOpens \/ Reconnect
  PROVE  Books'
  <1>. USE DEF life, manager, edits, catchup
  <1>0. lock \in Seq(TaskType) /\ doc \in SUBSET Op
    BY DEF IInv, TypeOK
  <1>1. ASSUME NEW o \in Op, RemoteEdit(o) \/ Gossip(o) \/ Edit(o) \/ WalDelivers(o) PROVE Books'
    <2>1. /\ Import({o}, None) \in TaskType /\ Import({o}, None).pass = None
          /\ Import({o}, None).kind = "import"
          /\ Sync(o) \in TaskType /\ Sync(o).pass = None /\ Sync(o).ops = {o}
      BY NewTasks DEF Import, Sync
    <2>2. ServerClosed'
      <3>1. server' = server \/ (server' = server \cup {o} /\ Deps[o] \subseteq server)
        BY <1>1, EngineAssumption DEF RemoteEdit, Gossip, Edit, WalDelivers, Books, OwnEdits
      <3>. QED BY <3>1 DEF Books, ServerClosed
    <2>3. UNCHANGED <<life, manager, wal, pass, convergence>>
      BY <1>1 DEF RemoteEdit, Gossip, Edit, WalDelivers
    <2>4. CASE RemoteEdit(o) \/ Gossip(o) \/ WalDelivers(o)
      <3>1. lock' = lock \/ lock' = Append(lock, Import({o}, None))
        BY <2>4 DEF RemoteEdit, Gossip, WalDelivers
      <3>. QED BY <2>1, <2>2, <2>3, <3>1, ArrivalBooks
    <2>5. CASE Edit(o)
      <3>1. lock' = Append(lock, Sync(o)) /\ {o} \subseteq Mine
        BY <2>5 DEF Edit
      <3>. QED BY <2>1, <2>2, <2>3, <3>1, ArrivalBooks
    <2>. QED BY <1>1, <2>4, <2>5
  <1>2. CASE ConnectionLost \/ ConnectionOpens
    <2>1. UNCHANGED <<server, running, lifecycleGeneration, sub, cur, doc, wal, lock, pass, convergence>>
      BY <1>2 DEF ConnectionLost, ConnectionOpens
    <2>. QED BY <2>1 DEF Books, OwnEdits, ServerClosed, ConvergenceIsCurrent, SinceBehind, Listening
  <1>3. CASE Reconnect
    <2>1. /\ ConvergeFromServer(TRUE, doc)
          /\ UNCHANGED <<server, running, lifecycleGeneration, sub, cur, doc, wal, lock>>
      BY <1>3 DEF Reconnect
    <2>2. Matched(lock, pass') /\ ConvergenceIsCurrent' /\ PassesFrom(doc)
      BY <1>0, <2>1, ConvergeBooks DEF Books
    <2>3. SinceBehind'
      BY <2>1, <2>2, SinceStays DEF Listening
    <2>. QED BY <2>1, <2>2, <2>3 DEF Books, OwnEdits, ServerClosed
  <1>. QED BY <1>1, <1>2, <1>3

\* The books are kept by every step.
LEMMA BooksKept == Spec => []Books
  <1>1. Init => Books
    <2>. SUFFICES ASSUME Init PROVE Books
      OBVIOUS
    <2>1. Len(lock) = 0 /\ \A i \in PassId : pass[i].stage = "off"
      BY DEF Init, NoPass
    <2>2. Matched(lock, pass) /\ OwnTasks(lock)
      BY <2>1 DEF Matched, OwnTasks
    <2>3. sub <= cur
      BY DEF Init, None
    <2>. QED BY <2>2, <2>3 DEF Init, Books, OwnEdits, ServerClosed, ConvergenceIsCurrent,
                               SinceBehind, Listening
  <1>2. IInv /\ Books /\ [Next]_vars => Books'
    <2>1. Books /\ UNCHANGED vars => Books'
      BY DEF vars, life, manager, edits, catchup, Books, OwnEdits, ServerClosed,
             ConvergenceIsCurrent, SinceBehind, Listening
    <2>. QED BY <2>1, LifeBooks, LockStepBooks, PassStepBooks, ArrivalsBooks DEF Next
  <1>. QED BY <1>1, <1>2, Invariance, PTL DEF Spec

-----------------------------------------------------------------------------
(* What is missing is on its way.                                          *)

AtLock(l, o, from) == \E k \in from..Len(l) : l[k].kind = "import" /\ o \in l[k].ops

\* The answer that the current pass waits for has, with what the pass asked
\* from, all that the service stores of others, or what came later is at the
\* lock behind it.
AnswerCovers ==
    Listening /\ link = "up" /\ Current /\ ~rerunRequested =>
        \A k \in 1..Len(lock) : lock[k].pass = convergence =>
            \A o \in server \ Mine :
                o \in lock[k].ops \cup pass[convergence].since \/ AtLock(lock, o, k + 1)

Supply == AnswerCovers /\ MissingIsOnItsWay

\* The places at the lock are numbered from one.
LEMMA OnItsWayAt ==
  ASSUME lock \in Seq(TaskType), NEW o
  PROVE  OnItsWay(o) <=> \/ /\ Current
                            /\ pass[convergence].stage \in {"asked", "paused"} \/ rerunRequested
                         \/ AtLock(lock, o, 1)
  <1>1. DOMAIN lock = 1..Len(lock)
    OBVIOUS
  <1>. QED BY <1>1 DEF OnItsWay, AtLock

\* What is at the lock is on its way.
LEMMA AtLockIsOnItsWay ==
  ASSUME lock' \in Seq(TaskType), NEW o, AtLock(lock', o, 1)
  PROVE  OnItsWay(o)'
  <1>1. DOMAIN lock' = 1..Len(lock')
    OBVIOUS
  <1>. QED BY <1>1 DEF OnItsWay, AtLock

\* A pass that has yet to ask supplies everything.
LEMMA FreshSupply ==
  ASSUME IInv', Books', Current', pass'[convergence'].stage \in {"asked", "paused"}
  PROVE  Supply'
  <1>1. \A k \in 1..Len(lock') : lock'[k].pass # convergence'
    BY DEF Books, Matched, Current
  <1>. QED BY <1>1 DEF Supply, AnswerCovers, MissingIsOnItsWay, OnItsWay

\* So does one that will be followed by another.
LEMMA MarkedSupply == Current' /\ rerunRequested' => Supply'
  BY DEF Supply, AnswerCovers, MissingIsOnItsWay, OnItsWay

\* A stopped, disconnected or deaf engine is owed nothing.
LEMMA NoSupply == ~running' \/ sub' # cur' \/ link' # "up" => Supply'
  BY DEF Supply, AnswerCovers, MissingIsOnItsWay, Listening

\* A task comes: all that was at the lock still is.
LEMMA AtLockAppend ==
  ASSUME NEW l \in Seq(TaskType), NEW t \in TaskType, NEW o, NEW from \in Nat \ {0}
  PROVE  /\ AtLock(l, o, from) => AtLock(Append(l, t), o, from)
         /\ t.kind = "import" /\ o \in t.ops /\ from <= Len(l) + 1 => AtLock(Append(l, t), o, from)
  <1>1. /\ Len(Append(l, t)) = Len(l) + 1 /\ Len(l) \in Nat /\ Append(l, t)[Len(l) + 1] = t
        /\ \A k \in 1..Len(l) : Append(l, t)[k] = l[k]
    BY AppendPlaces
  <1>2. \A k \in from..Len(l) : k \in from..(Len(l) + 1) /\ k \in 1..Len(l)
    BY <1>1
  <1>3. from <= Len(l) + 1 => Len(l) + 1 \in from..(Len(l) + 1)
    BY <1>1
  <1>. QED BY <1>1, <1>2, <1>3 DEF AtLock

\* The holder leaves: all behind it moves up.
LEMMA AtLockTail ==
  ASSUME NEW l \in Seq(TaskType), l # <<>>, NEW o, NEW from \in Nat \ {0}
  PROVE  /\ AtLock(l, o, from + 1) => AtLock(Tail(l), o, from)
         /\ AtLock(l, o, from) => AtLock(l, o, 1)
         /\ AtLock(l, o, 1) => \/ AtLock(Tail(l), o, 1)
                               \/ Head(l).kind = "import" /\ o \in Head(l).ops
  <1>1. /\ Len(Tail(l)) = Len(l) - 1 /\ Len(l) \in Nat \ {0} /\ Head(l) = l[1]
        /\ \A k \in 1..Len(Tail(l)) : Tail(l)[k] = l[k + 1]
    BY TailPlaces
  <1>2. ASSUME NEW n \in Nat \ {0}, AtLock(l, o, n + 1) PROVE AtLock(Tail(l), o, n)
    <2>1. PICK k \in (n + 1)..Len(l) : l[k].kind = "import" /\ o \in l[k].ops
      BY <1>2 DEF AtLock
    <2>2. k - 1 \in n..Len(Tail(l)) /\ Tail(l)[k - 1] = l[k]
      BY <1>1
    <2>. QED BY <2>1, <2>2 DEF AtLock
  <1>3. AtLock(l, o, from) => AtLock(l, o, 1)
    <2>1. \A k \in from..Len(l) : k \in 1..Len(l)
      BY <1>1
    <2>. QED BY <2>1 DEF AtLock
  <1>4. AtLock(l, o, 1) => AtLock(l, o, 1 + 1) \/ (Head(l).kind = "import" /\ o \in Head(l).ops)
    <2>1. \A k \in 1..Len(l) : k = 1 \/ k \in (1 + 1)..Len(l)
      BY <1>1
    <2>. QED BY <1>1, <2>1 DEF AtLock
  <1>. QED BY <1>2, <1>3, <1>4

\* A task that is no answer comes, with what the service stored of others.
LEMMA ArrivalSupply ==
  ASSUME IInv, IInv', Supply, NEW t \in TaskType, t.pass = None,
         lock' = lock \/ lock' = Append(lock, t),
         UNCHANGED <<life, manager, link, convergence, rerunRequested>>,
         convergence # None => pass'[convergence] = pass[convergence],
         running /\ link = "up" =>
            \A o \in server' \ Mine :
                o \in server \/ (lock' = Append(lock, t) /\ t.kind = "import" /\ o \in t.ops)
  PROVE  Supply'
  <1>. SUFFICES ASSUME Listening, link = "up" PROVE Supply'
    BY NoSupply DEF Listening, life, manager
  <1>. USE DEF life, manager
  <1>0. lock \in Seq(TaskType) /\ lock' \in Seq(TaskType) /\ Len(lock) \in Nat
    BY DEF IInv, TypeOK
  <1>1. \A o, from : AtLock(lock, o, from) /\ from \in Nat \ {0} => AtLock(lock', o, from)
    BY <1>0, AtLockAppend
  <1>2. ASSUME NEW o \in server' \ Mine, o \notin server, NEW from \in Nat \ {0}, from <= Len(lock) + 1
        PROVE  AtLock(lock', o, from)
    BY <1>0, <1>2, AtLockAppend DEF Listening
  <1>3. (Current' <=> Current) /\ (Current => pass'[convergence] = pass[convergence])
    BY DEF Current
  <1>4. AnswerCovers'
    <2>. SUFFICES ASSUME Current, ~rerunRequested, NEW k \in 1..Len(lock'), lock'[k].pass = convergence,
                         NEW o \in server' \ Mine
                  PROVE  \/ o \in lock'[k].ops \cup pass[convergence].since
                         \/ AtLock(lock', o, k + 1)
      BY <1>3 DEF AnswerCovers
    <2>1. k \in 1..Len(lock) /\ lock'[k] = lock[k]
      BY <1>0, AppendPlaces DEF Current
    <2>2. CASE o \in server
      <3>1. o \in lock[k].ops \cup pass[convergence].since \/ AtLock(lock, o, k + 1)
        BY <2>1, <2>2 DEF Supply, AnswerCovers
      <3>2. k + 1 \in Nat \ {0}
        BY <2>1
      <3>. QED BY <1>1, <2>1, <3>1, <3>2
    <2>3. CASE o \notin server
      BY <1>0, <1>2, <2>1, <2>3
    <2>. QED BY <2>2, <2>3
  <1>5. MissingIsOnItsWay'
    <2>. SUFFICES ASSUME NEW o \in server' \ Mine PROVE o \in Applied(doc) \/ OnItsWay(o)'
      BY DEF MissingIsOnItsWay
    <2>1. CASE o \in server
      <3>1. o \in Applied(doc) \/ OnItsWay(o)
        BY <2>1 DEF Supply, MissingIsOnItsWay, Listening
      <3>2. OnItsWay(o) => OnItsWay(o)'
        <4>1. CASE AtLock(lock, o, 1)
          <5>1. AtLock(lock', o, 1)
            BY <1>1, <4>1
          <5>. QED BY <1>0, <5>1, AtLockIsOnItsWay
        <4>2. CASE Current /\ (pass[convergence].stage \in {"asked", "paused"} \/ rerunRequested)
          BY <1>3, <4>2 DEF OnItsWay
        <4>. QED BY <1>0, <4>1, <4>2, OnItsWayAt
      <3>. QED BY <3>1, <3>2
    <2>2. CASE o \notin server
      <3>1. AtLock(lock', o, 1)
        BY <1>0, <1>2, <2>2
      <3>. QED BY <1>0, <3>1, AtLockIsOnItsWay
    <2>. QED BY <2>1, <2>2
  <1>. QED BY <1>4, <1>5 DEF Supply

\* The holder of the lock leaves the current pass as it is: what it brought is
\* applied, or the answer of that pass brings it again.
LEMMA LeavingSupply ==
  ASSUME IInv, IInv', Books, Supply, lock # <<>>, lock' = Tail(lock),
         UNCHANGED <<server, life, link, cur, convergence, rerunRequested>>,
         convergence # None => pass'[convergence] = pass[convergence] /\ Head(lock).pass # convergence,
         doc \subseteq doc',
         \/ Head(lock).kind # "import" \/ Head(lock).ops \subseteq Applied(doc') \/ Current
  PROVE  Supply'
  <1>. SUFFICES ASSUME Listening, link = "up" PROVE Supply'
    BY NoSupply DEF Listening, life
  <1>. USE DEF life
  <1>0. /\ lock \in Seq(TaskType) /\ lock' \in Seq(TaskType) /\ pass \in [PassId -> PassType]
        /\ convergence \in PassId \cup {None}
    BY DEF IInv, TypeOK
  <1>1. /\ Len(lock') = Len(lock) - 1 /\ Len(lock) \in Nat \ {0} /\ Head(lock) = lock[1]
        /\ \A k \in 1..Len(lock') : lock'[k] = lock[k + 1]
    BY <1>0, TailPlaces
  <1>2. (Current' <=> Current) /\ (Current => pass'[convergence] = pass[convergence])
    BY DEF Current
  <1>3. Applied(doc) \subseteq Applied(doc')
    BY AppliedGrows
  <1>4. AnswerCovers'
    <2>. SUFFICES ASSUME Current, ~rerunRequested, NEW k \in 1..Len(lock'), lock'[k].pass = convergence,
                         NEW o \in server \ Mine
                  PROVE  \/ o \in lock'[k].ops \cup pass[convergence].since
                         \/ AtLock(lock', o, k + 1)
      BY <1>2 DEF AnswerCovers
    <2>1. k + 1 \in 1..Len(lock) /\ lock'[k] = lock[k + 1] /\ k + 1 \in Nat \ {0}
      BY <1>1
    <2>2. o \in lock[k + 1].ops \cup pass[convergence].since \/ AtLock(lock, o, (k + 1) + 1)
      BY <2>1 DEF Supply, AnswerCovers
    <2>3. AtLock(lock, o, (k + 1) + 1) => AtLock(lock', o, k + 1)
      BY <1>0, <2>1, AtLockTail
    <2>. QED BY <2>1, <2>2, <2>3
  <1>5. MissingIsOnItsWay'
    <2>. SUFFICES ASSUME NEW o \in server \ Mine, o \notin Applied(doc') PROVE OnItsWay(o)'
      BY DEF MissingIsOnItsWay
    <2>1. o \notin Applied(doc) /\ OnItsWay(o)
      BY <1>3 DEF Supply, MissingIsOnItsWay, Listening
    <2>2. AtLock(lock', o, 1) => OnItsWay(o)'
      BY <1>0, AtLockIsOnItsWay
    <2>3. CASE Current /\ (pass[convergence].stage \in {"asked", "paused"} \/ rerunRequested)
      BY <1>2, <2>3 DEF OnItsWay
    <2>4. CASE Current /\ ~(pass[convergence].stage \in {"asked", "paused"} \/ rerunRequested)
      <3>1. /\ convergence \in PassId /\ pass[convergence].stage = "import"
            /\ pass[convergence] # NoPass /\ pass[convergence].gen = lifecycleGeneration
        BY <1>0, <2>4 DEF Current, Books, ConvergenceIsCurrent, PassType, NoPass
      <3>2. PICK k \in 1..Len(lock) : lock[k].pass = convergence
        BY <3>1 DEF Books, Matched
      <3>3. lock[k].kind = "import" /\ k # 1 /\ k \in Nat \ {0} /\ k + 1 \in Nat \ {0}
        BY <1>1, <2>4, <3>2 DEF Books, Matched, Current
      <3>4. o \notin pass[convergence].since
        BY <2>1, <3>1 DEF Books, SinceBehind
      <3>5. o \in lock[k].ops \/ AtLock(lock, o, k + 1)
        BY <2>4, <3>2, <3>4 DEF Supply, AnswerCovers
      <3>6. AtLock(lock, o, 1 + 1)
        <4>1. CASE o \in lock[k].ops
          <5>1. k \in (1 + 1)..Len(lock)
            BY <1>1, <3>3
          <5>. QED BY <3>3, <4>1, <5>1 DEF AtLock
        <4>2. CASE AtLock(lock, o, k + 1)
          <5>1. \A j \in (k + 1)..Len(lock) : j \in (1 + 1)..Len(lock)
            BY <1>1, <3>3
          <5>. QED BY <4>2, <5>1 DEF AtLock
        <4>. QED BY <3>5, <4>1, <4>2
      <3>7. AtLock(lock', o, 1)
        BY <1>0, <3>6, AtLockTail
      <3>. QED BY <2>2, <3>7
    <2>5. CASE ~Current
      <3>1. AtLock(lock, o, 1)
        BY <1>0, <2>1, <2>5, OnItsWayAt
      <3>2. ~(Head(lock).kind = "import" /\ o \in Head(lock).ops)
        BY <2>5
      <3>3. AtLock(lock', o, 1)
        BY <1>0, <3>1, <3>2, AtLockTail
      <3>. QED BY <2>2, <3>3
    <2>. QED BY <2>3, <2>4, <2>5
  <1>. QED BY <1>4, <1>5 DEF Supply

\* The answer of the current pass is imported and no rerun was asked for: what
\* the service has is applied, or came later and is at the lock.
LEMMA AnsweredSupply ==
  ASSUME IInv, IInv', Books, Supply, lock # <<>>, lock' = Tail(lock),
         UNCHANGED <<server, life, link, cur>>, convergence # None, convergence' = None,
         Head(lock).pass = convergence, doc' = doc \cup Head(lock).ops, ~rerunRequested
  PROVE  Supply'
  <1>. SUFFICES ASSUME Listening, link = "up" PROVE Supply'
    BY NoSupply DEF Listening, life
  <1>. USE DEF life
  <1>0. /\ lock \in Seq(TaskType) /\ lock' \in Seq(TaskType) /\ convergence \in PassId
        /\ doc \in SUBSET Op
    BY DEF IInv, TypeOK
  <1>1. Len(lock) \in Nat \ {0} /\ Head(lock) = lock[1] /\ 1 \in 1..Len(lock)
    BY <1>0, TailPlaces
  <1>2. Current /\ pass[convergence] # NoPass
    BY DEF Books, ConvergenceIsCurrent, Current, Listening, NoPass
  <1>3. pass[convergence].since \subseteq Applied(doc)
    BY <1>0, <1>2 DEF Books, SinceBehind, Current
  <1>4. \A o \in Head(lock).ops : Deps[o] \subseteq Head(lock).ops \cup pass[convergence].since
    BY <1>1 DEF Books, Matched
  <1>5. Head(lock).ops \subseteq Applied(doc')
    BY <1>3, <1>4 DEF Applied
  <1>6. Applied(doc) \subseteq Applied(doc')
    BY AppliedGrows
  <1>7. ASSUME NEW o \in server \ Mine PROVE o \in Applied(doc') \/ OnItsWay(o)'
    <2>1. o \in Head(lock).ops \cup pass[convergence].since \/ AtLock(lock, o, 1 + 1)
      BY <1>1, <1>2 DEF Supply, AnswerCovers
    <2>2. AtLock(lock, o, 1 + 1) => AtLock(lock', o, 1)
      BY <1>0, AtLockTail
    <2>3. AtLock(lock', o, 1) => OnItsWay(o)'
      BY <1>0, AtLockIsOnItsWay
    <2>. QED BY <1>3, <1>5, <1>6, <2>1, <2>2, <2>3
  <1>8. MissingIsOnItsWay'
    BY <1>7 DEF MissingIsOnItsWay
  <1>9. AnswerCovers'
    BY DEF AnswerCovers, Current
  <1>. QED BY <1>8, <1>9 DEF Supply

\* A pass that begins supplies everything.
LEMMA BeginSupply ==
  ASSUME IInv', Books', NEW others \in [PassId -> PassType], NEW d \in SUBSET Op,
         lifecycleGeneration' \in Nat, BeginPass(others, lifecycleGeneration', d)
  PROVE  Supply'
  <1>1. Current' /\ pass'[convergence'].stage = "asked"
    BY BeginFacts DEF Current
  <1>. QED BY <1>1, FreshSupply

\* A call of convergeFromServer supplies everything if it marks the pass.
LEMMA ReconnectSupply ==
  ASSUME IInv, IInv', Books', NEW d \in SUBSET Op, ConvergeFromServer(TRUE, d),
         UNCHANGED <<running, lifecycleGeneration>>
  PROVE  Supply'
  <1>1. CASE ~running
    BY <1>1, NoSupply
  <1>2. CASE BeginPass(pass, lifecycleGeneration, d)
    BY <1>2, BeginSupply DEF IInv, TypeOK
  <1>3. CASE Current /\ UNCHANGED <<pass, convergence>> /\ rerunRequested' = (rerunRequested \/ TRUE)
    BY <1>3, MarkedSupply DEF Current
  <1>. QED BY <1>1, <1>2, <1>3 DEF ConvergeFromServer, Current

\* The steps of a pass.  With no timeout while connected, it gives up only when
\* it is disconnected, and then the reconnect begins another.
LEMMA PassStepSupply ==
  ASSUME "request" \notin MayFail, IInv, IInv', Books, Books', Supply,
         NEW i \in PassId, PassStep(i)
  PROVE  Supply'
  <1>. USE DEF life, manager, edits
  <1>1. UNCHANGED <<server, link, life, manager>>
    BY DEF PassStep, PassAnswered, PassFails, PassResumes
  <1>. SUFFICES ASSUME Listening, link = "up" PROVE Supply'
    BY <1>1, NoSupply DEF Listening
  <1>0. /\ lock \in Seq(TaskType) /\ lock' \in Seq(TaskType) /\ pass \in [PassId -> PassType]
        /\ pass[i] \in PassType /\ server \in SUBSET Op
    BY DEF IInv, TypeOK
  <1>2. ~PassFails(i) /\ pass[i].stage \in {"asked", "paused"} /\ pass[i] # NoPass /\ i # None
    <2>1. ~PassFails(i)
      BY DEF PassFails
    <2>2. CASE PassAnswered(i)
      BY <2>1, <2>2 DEF PassAnswered, NoPass, PassId, None
    <2>3. CASE PassResumes(i)
      BY <2>1, <2>3 DEF PassResumes, NoPass, PassId, None
    <2>. QED BY <2>1, <2>2, <2>3 DEF PassStep
  <1>3. CASE ~Active(pass[i].gen)
    <2>1. convergence # i
      BY <1>2, <1>3 DEF Books, ConvergenceIsCurrent, Active, Listening
    <2>2. Settle(i, FALSE, doc) /\ lock' = lock
      BY <1>2, <1>3 DEF PassStep, PassAnswered, PassResumes
    <2>3. pass' = [pass EXCEPT ![i] = NoPass] /\ UNCHANGED <<convergence, rerunRequested>>
      BY <2>1, <2>2 DEF Settle, IInv, TypeOK
    <2>4. convergence # None => pass'[convergence] = pass[convergence]
      BY <1>0, <2>1, <2>3 DEF IInv, TypeOK
    <2>5. Import({}, None) \in TaskType /\ Import({}, None).pass = None
      BY NewTasks DEF Import
    <2>. QED BY <1>1, <2>2, <2>3, <2>4, <2>5, ArrivalSupply
  <1>4. CASE Active(pass[i].gen)
    <2>1. convergence = i /\ Current
      BY <1>2, <1>4 DEF IInv, PassesAreKnown, Active, Current
    <2>2. CASE PassResumes(i)
      <3>1. pass' = [pass EXCEPT ![i].stage = "asked"] /\ convergence' = convergence
        BY <1>4, <2>2 DEF PassResumes
      <3>2. Current' /\ pass'[convergence'].stage = "asked"
        BY <1>0, <1>1, <2>1, <3>1 DEF Current, PassType
      <3>. QED BY <3>2, FreshSupply
    <2>3. CASE PassAnswered(i)
      <3>. DEFINE ops == server \ pass[i].since
                  t == Import(ops, i)
      <3>1. /\ lock' = Append(lock, t) /\ pass' = [pass EXCEPT ![i].stage = "import"]
            /\ UNCHANGED <<convergence, rerunRequested>>
        BY <1>4, <2>3 DEF PassAnswered
      <3>2. /\ t \in TaskType /\ t.pass = i /\ t.kind = "import" /\ t.ops = ops
        BY <1>0, NewTasks DEF Import
      <3>3. /\ Len(lock') = Len(lock) + 1 /\ Len(lock) \in Nat /\ lock'[Len(lock) + 1] = t
            /\ \A k \in 1..Len(lock) : lock'[k] = lock[k]
        BY <1>0, <3>1, <3>2, AppendPlaces
      <3>4. pass'[i].since = pass[i].since /\ \A k \in 1..Len(lock) : lock[k].pass # i
        BY <1>0, <1>2, <3>1 DEF PassType, Books, Matched
      <3>5. AnswerCovers'
        <4>1. \A k \in 1..Len(lock') : lock'[k].pass = i => k = Len(lock) + 1
          BY <3>3, <3>4
        <4>. QED BY <1>1, <2>1, <3>1, <3>2, <3>3, <3>4, <4>1 DEF AnswerCovers
      <3>6. pass[i].since \subseteq Applied(doc)
        BY <1>2, <2>1 DEF Books, SinceBehind, Current
      <3>7. ASSUME NEW o \in server \ Mine PROVE o \in Applied(doc) \/ OnItsWay(o)'
        <4>1. CASE o \in ops
          <5>1. AtLock(lock', o, 1)
            <6>1. Len(lock) + 1 \in 1..Len(lock')
              BY <3>3
            <6>2. lock'[Len(lock) + 1].kind = "import" /\ o \in lock'[Len(lock) + 1].ops
              BY <3>2, <3>3, <4>1
            <6>. QED BY <6>1, <6>2 DEF AtLock
          <5>. QED BY <1>0, <5>1, AtLockIsOnItsWay
        <4>. QED BY <3>6, <4>1
      <3>8. MissingIsOnItsWay'
        BY <1>1, <3>7 DEF MissingIsOnItsWay
      <3>. QED BY <3>5, <3>8 DEF Supply
    <2>. QED BY <1>2, <2>2, <2>3 DEF PassStep
  <1>. QED BY <1>3, <1>4

\* An import: what it leaves pending, a pass fetches.
LEMMA ImportSupply ==
  ASSUME IInv, IInv', Books, Books', Supply, ImportUpdate
  PROVE  Supply'
  <1>. USE DEF life
  <1>1. /\ lock # <<>> /\ lock' = Tail(lock) /\ Head(lock).kind = "import"
        /\ Head(lock) \in TaskType /\ doc' = doc \cup Head(lock).ops /\ doc' \in SUBSET Op
        /\ UNCHANGED <<server, link, running, lifecycleGeneration, sub, cur>>
    BY HeadOfLock DEF ImportUpdate, Holds, IInv, TypeOK
  <1>. SUFFICES ASSUME Listening, link = "up" PROVE Supply'
    BY <1>1, NoSupply DEF Listening
  <1>0. pass \in [PassId -> PassType] /\ lifecycleGeneration \in Nat /\ running
    BY DEF IInv, TypeOK, Listening
  <1>. DEFINE pending == ~(Head(lock).ops \subseteq Applied(doc'))
  <1>2. CASE \E others \in [PassId -> PassType] : BeginPass(others, lifecycleGeneration, doc')
    BY <1>0, <1>1, <1>2, BeginSupply
  <1>3. CASE Head(lock).pass = None
    <2>1. convergence # None => Head(lock).pass # convergence
      BY <1>3
    <2>2. CASE ~pending /\ UNCHANGED catchup
      BY <1>1, <2>1, <2>2, LeavingSupply DEF catchup
    <2>3. CASE Current /\ UNCHANGED <<pass, convergence>> /\ rerunRequested' = (rerunRequested \/ FALSE)
      <3>1. rerunRequested' = rerunRequested
        BY <2>3 DEF IInv, TypeOK
      <3>. QED BY <1>1, <2>1, <2>3, <3>1, LeavingSupply
    <2>4. CASE pending /\ ConvergeFromServer(FALSE, doc')
      BY <1>0, <1>2, <2>3, <2>4 DEF ConvergeFromServer, Current
    <2>. QED BY <1>3, <2>2, <2>4 DEF ImportUpdate
  <1>4. CASE Head(lock).pass # None /\ Settle(Head(lock).pass, pending, doc')
    <2>. DEFINE i == Head(lock).pass
                others == [pass EXCEPT ![i] = NoPass]
    <2>1. i \in PassId /\ others \in [PassId -> PassType]
      BY <1>0, <1>1, <1>4, NoPassType DEF TaskType
    <2>2. CASE convergence = i /\ ~rerunRequested
      <3>1. convergence' = None
        BY <1>4, <2>2 DEF Settle
      <3>. QED BY <1>1, <1>4, <2>2, <3>1, AnsweredSupply
    <2>3. CASE convergence = i /\ rerunRequested
      BY <1>0, <1>2, <1>4, <2>1, <2>3 DEF Settle
    <2>4. CASE convergence # i
      <3>1. CASE pending /\ ~Current
        BY <1>0, <1>2, <1>4, <2>1, <2>4, <3>1 DEF Settle, Current
      <3>2. CASE ~pending \/ Current
        <4>1. /\ pass' = others /\ convergence' = convergence
              /\ rerunRequested' = (rerunRequested /\ TRUE)
          BY <1>0, <1>4, <2>4, <3>2 DEF Settle, Current
        <4>2. rerunRequested' = rerunRequested
          BY <4>1 DEF IInv, TypeOK
        <4>3. convergence # None => pass'[convergence] = pass[convergence] /\ i # convergence
          BY <1>0, <2>4, <4>1 DEF IInv, TypeOK
        <4>. QED BY <1>1, <3>2, <4>1, <4>2, <4>3, LeavingSupply
      <3>. QED BY <3>1, <3>2
    <2>. QED BY <2>2, <2>3, <2>4
  <1>. QED BY <1>3, <1>4 DEF ImportUpdate

\* Every step leaves what is missing on its way.
LEMMA SupplyKeeps ==
  ASSUME "request" \notin MayFail, IInv, IInv', Books, Books', Supply, Next
  PROVE  Supply'
  <1>. USE DEF life, manager, edits, catchup
  <1>0. /\ pass \in [PassId -> PassType] /\ doc \in SUBSET Op
        /\ lifecycleGeneration' \in Nat
    BY DEF IInv, TypeOK
  <1>1. CASE StartEngine
    BY <1>0, <1>1, BeginSupply DEF StartEngine
  <1>2. CASE Stop
    BY <1>2, NoSupply DEF Stop, StopEngine
  <1>3. ASSUME UNCHANGED <<server, link, life, manager, lock, catchup>> PROVE Supply'
    <2>1. Import({}, None) \in TaskType /\ Import({}, None).pass = None
      BY NewTasks DEF Import
    <2>. QED BY <1>3, <2>1, ArrivalSupply
  <1>4. CASE Start \/ Restart
    BY <1>1, <1>3, <1>4 DEF Start, Restart
  <1>5. CASE ImportFails \/ SyncFails
    <2>1. lock # <<>> /\ CallReset
      BY <1>5 DEF ImportFails, SyncFails, Holds
    <2>2. running' = FALSE
      BY <2>1, CallResetKeeps, Zenon
    <2>. QED BY <2>2, NoSupply
  <1>6. CASE SyncApplies \/ ResetSeeds \/ ResetSeedFails \/ ResetTimesOut
    <2>1. /\ lock # <<>> /\ lock' = Tail(lock) /\ Head(lock).kind # "import"
          /\ UNCHANGED <<server, life, link, convergence, rerunRequested, pass>>
      BY <1>6 DEF SyncApplies, ResetSeeds, ResetSeedFails, ResetTimesOut, ResetDone, Holds
    <2>2. convergence # None => Head(lock).pass # convergence
      <3>1. lock \in Seq(TaskType) /\ 1 \in 1..Len(lock) /\ Head(lock) = lock[1]
        BY <2>1, TailPlaces DEF IInv, TypeOK
      <3>. QED BY <2>1, <3>1 DEF Books, Matched
    <2>3. CASE cur' = cur
      <3>1. doc \subseteq doc'
        BY <1>6, <2>3 DEF SyncApplies, ResetSeeds, ResetSeedFails, ResetTimesOut, ResetDone, IInv, TypeOK
      <3>. QED BY <2>1, <2>2, <2>3, <3>1, LeavingSupply
    <2>4. CASE cur' = cur + 1
      <3>1. sub' # cur'
        BY <2>1, <2>4 DEF Books, IInv, TypeOK
      <3>. QED BY <3>1, NoSupply
    <2>. QED BY <1>6, <2>3, <2>4 DEF SyncApplies, ResetSeeds, ResetSeedFails, ResetTimesOut, ResetDone
  <1>7. ASSUME NEW o \in Op, RemoteEdit(o) \/ Gossip(o) \/ Edit(o) \/ WalDelivers(o) PROVE Supply'
    <2>1. /\ Import({o}, None) \in TaskType /\ Import({o}, None).pass = None
          /\ Import({o}, None).kind = "import" /\ Import({o}, None).ops = {o}
          /\ Sync(o) \in TaskType /\ Sync(o).pass = None
      BY NewTasks DEF Import, Sync
    <2>2. UNCHANGED <<life, manager, link, pass, convergence, rerunRequested>>
      BY <1>7 DEF RemoteEdit, Gossip, Edit, WalDelivers
    <2>3. CASE RemoteEdit(o)
      BY <2>1, <2>2, <2>3, ArrivalSupply DEF RemoteEdit
    <2>4. CASE Gossip(o)
      BY <2>1, <2>2, <2>4, ArrivalSupply DEF Gossip
    <2>5. CASE Edit(o)
      BY <2>1, <2>2, <2>5, ArrivalSupply DEF Edit
    <2>6. CASE WalDelivers(o)
      BY <2>1, <2>2, <2>6, ArrivalSupply DEF WalDelivers, Books, OwnEdits
    <2>. QED BY <1>7, <2>3, <2>4, <2>5, <2>6
  <1>8. CASE ConnectionLost \/ ConnectionOpens
    BY <1>8, NoSupply DEF ConnectionLost, ConnectionOpens
  <1>9. CASE Reconnect
    BY <1>0, <1>9, ReconnectSupply DEF Reconnect
  <1>. QED BY <1>2, <1>4, <1>5, <1>6, <1>7, <1>8, <1>9, ImportSupply, PassStepSupply DEF Next, LockStep

\* Where the service answers a connected engine in time, nothing it stores of
\* others is ever missing without being on its way: an answer that comes late,
\* a call that is coalesced, a rerun, an update that waits for its causes, a
\* reset between two tasks at the lock or a missed broadcast leaves no gap that
\* nothing fills.
THEOREM NothingIsLeftBehind ==
  ASSUME "request" \notin MayFail
  PROVE  Spec => []MissingIsOnItsWay
  <1>1. Init => Supply
    BY DEF Init, Supply, AnswerCovers, MissingIsOnItsWay, Listening
  <1>2. IInv /\ IInv' /\ Books /\ Books' /\ Supply /\ [Next]_vars => Supply'
    <2>1. Supply /\ UNCHANGED vars => Supply'
      BY DEF vars, life, manager, edits, catchup, Supply, AnswerCovers, MissingIsOnItsWay,
             Listening, Current, OnItsWay
    <2>. QED BY <2>1, SupplyKeeps
  <1>3. Supply => MissingIsOnItsWay
    BY DEF Supply
  <1>. QED BY <1>1, <1>2, <1>3, Invariance, BooksKept, PTL DEF Spec
=============================================================================
