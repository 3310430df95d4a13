--------------------------- MODULE SyncFaultProofs ---------------------------
(***************************************************************************)
(* What SyncSession keeps although calls fail: its state is well typed     *)
(* whatever happens, an object that waits for its next event owes nobody   *)
(* anything, and a saved snapshot never shrinks.  Each theorem assumes     *)
(* only that the calls succeed without which it would be false.            *)
(***************************************************************************)
EXTENDS SyncLedgerProofs

-----------------------------------------------------------------------------
(* Types.                                                                  *)

\* What RInv, which bounds content and tasks, leaves of TypeOK.
RestOK ==
    /\ docId \in BOOLEAN /\ alarm \in BOOLEAN /\ save \in {"never", "dirty", "clean"}
    /\ keys \in SUBSET Op
    /\ sockets \in SUBSET Client /\ synced \in SUBSET Client
    /\ sent \in [Client -> SUBSET Op]
    /\ waits \in SUBSET TaskType

\* RInv and RestOK bound every variable.
LEMMA TypeFromParts == RInv /\ RestOK => TypeOK
  BY DEF RInv, RestOK, TypeOK, TasksAreGood, GoodTask, ContentIsWritable, AcksAreRecorded,
         Writable

\* What is sent to a client is a set of updates.
LEMMA SendType ==
  ASSUME RestOK, NEW to, NEW ops \in SUBSET Op, Send(to, ops)
  PROVE  sent' \in [Client -> SUBSET Op]
  BY DEF RestOK, Send

\* Scheduling an alarm makes some of the parked tasks those it waits for.
LEMMA ScheduleType ==
  ASSUME TypeOK, Schedule PROVE alarm' \in BOOLEAN /\ waits' \in SUBSET TaskType
  BY DEF Schedule, TypeOK

\* Every step keeps the rest of the types.
LEMMA RestKeeps == ASSUME RInv, RestOK, Next PROVE RestOK'
  <1>. USE DEF durable, memory, peers
  <1>0. /\ TypeOK /\ active \in TaskType /\ active.batch \in SUBSET Op
        /\ Applied(doc) \in SUBSET Op /\ {} \in SUBSET Op
    BY TypeFromParts DEF TypeOK, TaskType, Applied
  <1>1. CASE Loading \/ KvDelivery
    BY <1>0, <1>1 DEF Loading, LoadCached, LoadFromSql, LoadFromKv, KvDelivery, KvAnswers,
                      KvFails, RestOK, TypeOK
  <1>2. CASE Requests
    BY <1>0, <1>2 DEF Requests, ConnectBegin, CloseSocket, InitializeBegin, ExistsBegin,
                      ReadBegin, RestOK, TypeOK
  <1>3. CASE ExistsDelivery
    <2>1. PICK t \in parked : ExistsEnd(t)
      BY <1>3 DEF ExistsDelivery
    <2>2. docId' \in BOOLEAN /\ keys' \in SUBSET Op
      <3>1. CASE docId' = TRUE /\ keys' = {}
        BY <3>1
      <3>2. CASE UNCHANGED <<docId, keys>>
        BY <3>2 DEF RestOK
      <3>. QED BY <2>1, <3>1, <3>2 DEF ExistsEnd
    <2>. QED BY <2>1, <2>2 DEF ExistsEnd, RestOK
  <1>4. CASE Initializing \/ ConnectWelcome
    <2>1. CASE \E t \in parked : InitializeRefused(t) \/ InitializeStore(t)
      BY <1>0, <2>1 DEF InitializeRefused, InitializeStore, RestOK
    <2>2. CASE InitializeAnnounce \/ ConnectWelcome
      <3>1. sent' \in [Client -> SUBSET Op]
        BY <1>0, <2>2, SendType DEF InitializeAnnounce, ConnectWelcome
      <3>. QED BY <2>2, <3>1 DEF InitializeAnnounce, ConnectWelcome, RestOK
    <2>. QED BY <1>4, <2>1, <2>2 DEF Initializing
  <1>5. CASE Messages
    BY <1>5 DEF Messages, UpdateBegin, QueryBegin, RestOK
  <1>6. CASE Handling
    <2>1. CASE \E o \in Op : ApplyOp(o) \/ ApplyOpFails(o)
      <3>1. save' \in {"never", "dirty", "clean"}
        BY <2>1 DEF ApplyOp, ApplyOpFails, Stamped
      <3>2. keys' \in SUBSET Op
        BY <2>1 DEF ApplyOp, ApplyOpFails, RestOK
      <3>3. UNCHANGED <<docId, alarm, sockets, synced, sent, waits>>
        BY <2>1 DEF ApplyOp, ApplyOpFails
      <3>. QED BY <3>1, <3>2, <3>3 DEF RestOK
    <2>2. CASE ImportFails \/ RecordOp \/ RecordOpFails \/ AckFails
      BY <2>2 DEF ImportFails, RecordOp, RecordOpFails, AckFails, RestOK
    <2>3. CASE AckAndBroadcast \/ Reply
      <3>1. sent' \in [Client -> SUBSET Op]
        BY <1>0, <2>3, SendType DEF AckAndBroadcast, Reply
      <3>. QED BY <2>3, <3>1 DEF AckAndBroadcast, Reply, RestOK
    <2>4. CASE BumpAlarm
      BY <1>0, <2>4, ScheduleType DEF BumpAlarm, RestOK
    <2>. QED BY <1>6, <2>1, <2>2, <2>3, <2>4 DEF Handling
  <1>7. CASE Alarms
    <2>1. CASE Rearm
      <3>1. alarm' \in BOOLEAN /\ waits' \in SUBSET TaskType
        BY <1>0, <2>1, ScheduleType DEF Rearm, RestOK
      <3>. QED BY <2>1, <3>1 DEF Rearm, RestOK
    <2>2. CASE AlarmBegin \/ SqlPutFails \/ ClearFails
      <3>1. alarm' \in BOOLEAN
        BY <2>2, Zenon DEF AlarmBegin, SqlPutFails, ClearFails
      <3>. QED BY <2>2, <3>1 DEF AlarmBegin, SqlPutFails, ClearFails, RestOK
    <2>3. CASE StoreSnapshot \/ NothingToSave \/ ClearAppliedOps
      BY <1>0, <2>3 DEF StoreSnapshot, NothingToSave, ClearAppliedOps, RestOK
    <2>. QED BY <1>7, <2>1, <2>2, <2>3 DEF Alarms
  <1>8. CASE Crash \/ Hibernate
    BY <1>0, <1>8 DEF Crash, Hibernate, Forget, RestOK
  <1>. QED BY <1>1, <1>2, <1>3, <1>4, <1>5, <1>6, <1>7, <1>8 DEF Next

\* The session's state is well typed, the tasks included, whatever fails,
\* whatever Worker KV holds and however often initialize is called.
THEOREM TypeCorrect == Spec => []TypeOK
  <1>1. Init => RestOK
    <2>. SUFFICES ASSUME Init PROVE RestOK
      OBVIOUS
    <2>1. docId \in BOOLEAN /\ alarm \in BOOLEAN
      BY Zenon DEF Init
    <2>. QED BY <2>1 DEF Init, RestOK
  <1>2. RInv /\ RestOK /\ [Next]_vars => RestOK'
    <2>1. RestOK /\ UNCHANGED vars => RestOK'
      BY DEF RestOK, vars, durable, memory, peers
    <2>. QED BY <2>1, RestKeeps
  <1>. QED BY <1>1, <1>2, TypeFromParts, RecordsAndRights, PTL DEF Spec

-----------------------------------------------------------------------------
(* A task past its load works on a loaded document, whatever fails.        *)

\* Where the tasks go that owe somebody something.
LEMMA AfterLoadOwes ==
  ASSUME NEW t \in TaskType
  PROVE  /\ t.kind = "alarm" => AfterLoad(t).pc = "store"
         /\ t.kind = "connect" => /\ AfterLoad(t).kind = "connect" /\ AfterLoad(t).pc = "welcome"
                                  /\ AfterLoad(t).who = t.who
         /\ t.kind = "init" => AfterLoad(t).kind = "init" /\ AfterLoad(t).pc = "announce"
  BY DEF AfterLoad, TaskType

\* No step empties the document except those that forget the task with it, and
\* no load ends with an empty one.
LEMMA DocStays == ASSUME TypeOK, TaskHasDoc, Next PROVE TaskHasDoc'
  <1>. USE DEF durable, memory, peers
  <1>0. active \in TaskType /\ parked \subseteq TaskType
    BY DEF TypeOK
  <1>1. CASE Loading \/ KvDelivery
    <2>1. doc' # {} \/ active' = Idle
      BY <1>1 DEF Loading, LoadCached, LoadFromSql, LoadFromKv, KvDelivery, KvAnswers, KvFails,
                  GateOpen
    <2>. QED BY <2>1, IdleTask DEF TaskHasDoc, LoadedPCs
  <1>2. CASE Requests \/ Messages
    <2>1. active'.pc \in {"done", "load"}
      BY <1>2 DEF Requests, ConnectBegin, CloseSocket, InitializeBegin, ExistsBegin, ReadBegin,
                  Messages, UpdateBegin, QueryBegin, Arrives, GateOpen, Idle, Task
    <2>. QED BY <2>1 DEF TaskHasDoc, LoadedPCs
  <1>3. CASE ExistsDelivery \/ ConnectWelcome \/ Initializing
    <2>1. active' = Idle \/ active'.pc = "load"
      BY <1>0, <1>3 DEF ExistsDelivery, ExistsEnd, ConnectWelcome, Initializing, TaskType,
                        InitializeRefused, InitializeStore, InitializeAnnounce, GateOpen
    <2>. QED BY <2>1, IdleTask DEF TaskHasDoc, LoadedPCs
  <1>4. CASE Handling
    <2>1. doc' # {} \/ active'.pc \in {"done", "bump"}
      <3>1. CASE \E o \in Op : ApplyOp(o) \/ ApplyOpFails(o)
        BY <3>1 DEF ApplyOp, ApplyOpFails
      <3>2. CASE RecordOp \/ AckAndBroadcast \/ Reply
        BY <3>2 DEF RecordOp, AckAndBroadcast, Reply, TaskHasDoc, LoadedPCs
      <3>3. CASE ImportFails \/ RecordOpFails \/ AckFails \/ BumpAlarm
        BY <3>3, IdleTask DEF ImportFails, RecordOpFails, AckFails, BumpAlarm
      <3>. QED BY <1>4, <3>1, <3>2, <3>3 DEF Handling
    <2>. QED BY <2>1 DEF TaskHasDoc, LoadedPCs
  <1>5. CASE Alarms
    <2>1. CASE AlarmBegin
      BY <2>1 DEF AlarmBegin, Task, TaskHasDoc, LoadedPCs
    <2>2. CASE StoreSnapshot \/ NothingToSave \/ ClearAppliedOps
      <3>1. doc' # {}
        BY <2>2 DEF StoreSnapshot, NothingToSave, ClearAppliedOps, TaskHasDoc, LoadedPCs
      <3>. QED BY <3>1 DEF TaskHasDoc
    <2>3. CASE SqlPutFails \/ ClearFails \/ Rearm
      BY <2>3, IdleTask DEF SqlPutFails, ClearFails, Rearm, TaskHasDoc, LoadedPCs
    <2>. QED BY <1>5, <2>1, <2>2, <2>3 DEF Alarms
  <1>6. CASE Crash \/ Hibernate
    BY <1>6, IdleTask DEF Crash, Hibernate, Forget, TaskHasDoc, LoadedPCs
  <1>. QED BY <1>1, <1>2, <1>3, <1>4, <1>5, <1>6 DEF Next

\* Past its load every task of every reachable state has a document.
LEMMA LoadedTasks == Spec => []TaskHasDoc
  <1>1. Init => TaskHasDoc
    BY IdleTask DEF Init, TaskHasDoc, LoadedPCs
  <1>2. TypeOK /\ TaskHasDoc /\ [Next]_vars => TaskHasDoc'
    <2>1. TaskHasDoc /\ UNCHANGED vars => TaskHasDoc'
      BY DEF TaskHasDoc, vars, memory
    <2>. QED BY <2>1, DocStays
  <1>. QED BY <1>1, <1>2, TypeCorrect, PTL DEF Spec

-----------------------------------------------------------------------------
(* An unsaved document has an alarm.                                       *)

\* The steps of a handler that scheduling an alarm, or a save, still follows.
SavePCs == {"apply", "record", "ack", "bump", "store", "clear"}

DirtyInv ==
    save = "dirty" =>
        /\ doc # {}
        /\ alarm \/ active.pc \in SavePCs \/ (active.kind = "alarm" /\ active.pc = "load")

\* An edit makes the document dirty before its handler schedules the alarm, and
\* the alarm is spent before its handler saves; neither is left half way.
LEMMA DirtyKeeps ==
  ASSUME MayFail \cap {"import", "put", "ack"} = {}, TypeOK, TaskHasDoc, DirtyInv, Next
  PROVE  DirtyInv'
  <1>. USE DEF durable, memory, peers
  <1>0. active \in TaskType /\ parked \subseteq TaskType
    BY DEF TypeOK
  <1>g. GateOpen => active.pc = "done"
    BY IdleTask DEF GateOpen
  <1>1. CASE Loading
    <2>1. CASE LoadCached
      BY <1>0, <2>1, AfterLoadOwes DEF LoadCached, DirtyInv, SavePCs
    <2>2. CASE LoadFromSql \/ LoadFromKv
      BY <2>2 DEF LoadFromSql, LoadFromKv, DirtyInv
    <2>. QED BY <1>1, <2>1, <2>2 DEF Loading
  <1>2. CASE KvDelivery
    BY <1>2, <1>g DEF KvDelivery, KvAnswers, KvFails, DirtyInv, SavePCs
  <1>3. CASE Requests \/ Messages \/ ExistsDelivery
    <2>1. GateOpen /\ UNCHANGED <<save, doc, alarm>>
      BY <1>3 DEF Requests, ConnectBegin, CloseSocket, InitializeBegin, ExistsBegin, ReadBegin,
                  Messages, UpdateBegin, QueryBegin, ExistsDelivery, ExistsEnd, Arrives
    <2>. QED BY <1>g, <2>1 DEF DirtyInv, SavePCs
  <1>4. CASE Initializing \/ ConnectWelcome
    <2>1. active.pc \in {"done", "announce", "welcome"} /\ UNCHANGED <<save, doc, alarm>>
      BY <1>4, <1>g DEF Initializing, InitializeRefused, InitializeStore, InitializeAnnounce,
                        ConnectWelcome
    <2>. QED BY <2>1 DEF DirtyInv, SavePCs
  <1>5. CASE Handling
    <2>1. ASSUME NEW o \in Op, ApplyOp(o) PROVE DirtyInv'
      BY <1>0, <2>1 DEF ApplyOp, DirtyInv, SavePCs, TaskType
    <2>2. CASE RecordOp \/ AckAndBroadcast
      <3>1. active'.pc \in SavePCs /\ UNCHANGED <<save, doc>>
        BY <1>0, <2>2 DEF RecordOp, AckAndBroadcast, SavePCs, TaskType
      <3>. QED BY <3>1 DEF DirtyInv
    <2>3. CASE Reply
      <3>1. active'.pc \in SavePCs /\ UNCHANGED <<save, doc>>
        BY <1>0, <2>3 DEF Reply, SavePCs, TaskType
      <3>. QED BY <3>1 DEF DirtyInv
    <2>4. CASE BumpAlarm
      BY <2>4 DEF BumpAlarm, Schedule, DirtyInv
    <2>5. ~ImportFails /\ ~RecordOpFails /\ ~AckFails /\ \A o \in Op : ~ApplyOpFails(o)
      BY DEF ImportFails, RecordOpFails, AckFails, ApplyOpFails
    <2>. QED BY <1>5, <2>1, <2>2, <2>3, <2>4, <2>5 DEF Handling
  <1>6. CASE Alarms
    <2>1. CASE AlarmBegin
      BY <2>1 DEF AlarmBegin, Task, DirtyInv
    <2>2. CASE StoreSnapshot
      BY <1>0, <2>2 DEF StoreSnapshot, DirtyInv, SavePCs, TaskType
    <2>3. CASE NothingToSave \/ ClearAppliedOps
      BY <2>3 DEF NothingToSave, ClearAppliedOps, ShouldSave, DirtyInv
    <2>4. CASE SqlPutFails \/ ClearFails
      BY <2>4 DEF SqlPutFails, ClearFails, DirtyInv
    <2>5. CASE Rearm
      BY <2>5 DEF Rearm, Schedule, DirtyInv, SavePCs
    <2>. QED BY <1>6, <2>1, <2>2, <2>3, <2>4, <2>5 DEF Alarms
  <1>7. CASE Crash \/ Hibernate
    BY <1>7 DEF Crash, Hibernate, Forget, DirtyInv
  <1>. QED BY <1>1, <1>2, <1>3, <1>4, <1>5, <1>6, <1>7 DEF Next

\* Where a batch that began is stored and acked (Loro imports all of it, puts
\* on the object's own storage and the send on the sender's socket succeed),
\* no edit waits unsaved for an alarm that nobody scheduled, even if saving
\* and clearing fail again and again.
THEOREM DirtyIsScheduled ==
  ASSUME MayFail \cap {"import", "put", "ack"} = {}
  PROVE  Spec => []DirtyHasAlarm
  <1>1. Init => DirtyInv
    BY DEF Init, DirtyInv
  <1>2. TypeOK /\ TaskHasDoc /\ DirtyInv /\ [Next]_vars => DirtyInv'
    <2>1. DirtyInv /\ UNCHANGED vars => DirtyInv'
      BY DEF DirtyInv, vars, durable, memory
    <2>. QED BY <2>1, DirtyKeeps
  <1>3. DirtyInv => DirtyHasAlarm
    BY IdleTask DEF DirtyInv, DirtyHasAlarm, GateOpen, SavePCs
  <1>. QED BY <1>1, <1>2, <1>3, TypeCorrect, LoadedTasks, PTL DEF Spec

-----------------------------------------------------------------------------
(* Every socket has had its initial sync.                                  *)

\* While there is a document, the only sockets without an initial sync are the
\* one that /connect is about to serve and those that /initialize is.
ServedInv ==
    (sqlSnap # {} \/ doc # {}) =>
        \/ sockets \subseteq synced
        \/ /\ active.kind = "connect" /\ active.pc \in {"load", "welcome"}
           /\ sockets \ {active.who} \subseteq synced
        \/ active.kind = "init" /\ active.pc \in {"load", "announce"}

\* A step outside those two handlers that brings no document into being.
LEMMA ServedStays ==
  ASSUME ServedInv, active.pc \notin {"load", "welcome", "announce"},
         (sqlSnap' # {} \/ doc' # {}) => (sqlSnap # {} \/ doc # {}),
         sockets \subseteq synced => sockets' \subseteq synced'
  PROVE  ServedInv'
  BY DEF ServedInv

\* A socket accepted before the document exists is served by initialize, one
\* accepted later by its own handler, whichever fails or is interrupted.
LEMMA ServedKeeps ==
  ASSUME LegacySnap = {}, TypeOK, TaskHasDoc, ServedInv, Next
  PROVE  ServedInv'
  <1>. USE DEF durable, memory, peers
  <1>0. active \in TaskType /\ parked \subseteq TaskType
    BY DEF TypeOK
  <1>g. GateOpen => active.pc = "done"
    BY IdleTask DEF GateOpen
  <1>1. CASE Loading
    <2>1. CASE LoadCached
      BY <1>0, <2>1, AfterLoadOwes DEF LoadCached, ServedInv
    <2>2. CASE LoadFromSql
      BY <1>0, <2>2, AfterLoadOwes DEF LoadFromSql, ServedInv
    <2>3. CASE LoadFromKv
      BY <2>3 DEF LoadFromKv, ServedInv
    <2>. QED BY <1>1, <2>1, <2>2, <2>3 DEF Loading
  <1>2. CASE KvDelivery \/ ExistsDelivery
    <2>1. GateOpen /\ UNCHANGED <<sqlSnap, doc, sockets, synced>>
      BY <1>2 DEF KvDelivery, KvAnswers, KvFails, ExistsDelivery, ExistsEnd
    <2>. QED BY <1>g, <2>1, ServedStays
  <1>3. CASE Requests
    <2>1. ASSUME NEW c \in Client, ConnectBegin(c) PROVE ServedInv'
      <3>1. /\ active'.kind = "connect" /\ active'.pc = "load" /\ active'.who = c
            /\ sockets' \ {c} \subseteq sockets /\ UNCHANGED <<sqlSnap, doc, synced>>
        BY <2>1 DEF ConnectBegin, Task
      <3>2. active.pc = "done"
        BY <1>g, <2>1 DEF ConnectBegin, Arrives
      <3>. QED BY <3>1, <3>2 DEF ServedInv
    <2>2. ASSUME NEW c \in Client, CloseSocket(c) PROVE ServedInv'
      BY <1>g, <2>2, ServedStays DEF CloseSocket, Arrives
    <2>3. CASE ExistsBegin \/ ReadBegin \/ \E i \in Initializer, s \in Seeds : InitializeBegin(i, s)
      <3>1. GateOpen /\ UNCHANGED <<sqlSnap, doc, sockets, synced>>
        BY <2>3 DEF ExistsBegin, ReadBegin, InitializeBegin, Arrives
      <3>. QED BY <1>g, <3>1, ServedStays
    <2>. QED BY <1>3, <2>1, <2>2, <2>3 DEF Requests
  <1>4. CASE Initializing \/ ConnectWelcome
    <2>1. ASSUME NEW t \in parked, InitializeRefused(t) PROVE ServedInv'
      BY <1>g, <2>1, ServedStays DEF InitializeRefused
    <2>2. ASSUME NEW t \in parked, InitializeStore(t) PROVE ServedInv'
      BY <1>0, <2>2 DEF InitializeStore, ServedInv, TaskType
    <2>3. CASE InitializeAnnounce
      BY <2>3 DEF InitializeAnnounce, ServedInv
    <2>4. CASE ConnectWelcome
      <3>1. sqlSnap # {} \/ doc # {}
        BY <2>4 DEF ConnectWelcome, TaskHasDoc, LoadedPCs
      <3>2. sockets \ {active.who} \subseteq synced
        BY <2>4, <3>1 DEF ConnectWelcome, ServedInv
      <3>. QED BY <2>4, <3>2 DEF ConnectWelcome, ServedInv
    <2>. QED BY <1>4, <2>1, <2>2, <2>3, <2>4 DEF Initializing
  <1>5. CASE Messages
    <2>1. GateOpen /\ UNCHANGED <<sqlSnap, doc, sockets, synced>>
      BY <1>5 DEF Messages, UpdateBegin, QueryBegin, Arrives
    <2>. QED BY <1>g, <2>1, ServedStays
  <1>6. CASE Handling
    <2>1. /\ active.pc \in {"apply", "record", "ack", "reply", "bump"}
          /\ UNCHANGED <<sqlSnap, sockets, synced>>
      BY <1>6 DEF Handling, ApplyOp, ApplyOpFails, ImportFails, RecordOp, RecordOpFails, AckAndBroadcast,
                  AckFails, Reply, BumpAlarm
    <2>2. active.pc = "apply" \/ doc' = doc
      BY <1>6 DEF Handling, ApplyOp, ApplyOpFails, ImportFails, RecordOp, RecordOpFails, AckAndBroadcast,
                  AckFails, Reply, BumpAlarm
    <2>3. active.pc = "apply" => doc # {}
      BY DEF TaskHasDoc, LoadedPCs
    <2>. QED BY <2>1, <2>2, <2>3, ServedStays
  <1>7. CASE Alarms
    <2>1. /\ active.pc \in {"done", "store", "clear", "rearm"}
          /\ UNCHANGED <<doc, sockets, synced>>
      BY <1>7, <1>g DEF Alarms, AlarmBegin, Arrives, StoreSnapshot, NothingToSave,
                        ClearAppliedOps, SqlPutFails, ClearFails, Rearm
    <2>2. active.pc = "store" \/ sqlSnap' = sqlSnap
      BY <1>7 DEF Alarms, AlarmBegin, StoreSnapshot, NothingToSave, ClearAppliedOps,
                  SqlPutFails, ClearFails, Rearm
    <2>3. active.pc = "store" => doc # {}
      BY DEF TaskHasDoc, LoadedPCs
    <2>. QED BY <2>1, <2>2, <2>3, ServedStays
  <1>8. CASE Crash
    BY <1>8 DEF Crash, ServedInv
  <1>9. CASE Hibernate
    BY <1>9, <1>g, ServedStays DEF Hibernate, Forget
  <1>. QED BY <1>1, <1>2, <1>3, <1>4, <1>5, <1>6, <1>7, <1>8, <1>9 DEF Next

\* Where no document is left in Worker KV, every socket the object holds while
\* it waits has had its initial sync, whichever import, put, delete, save or
\* ack fails, whatever is pushed and however often initialize is called.  (A
\* read of a stored snapshot and the send of the initial sync do not fail.)
THEOREM SocketsAreServed == ASSUME LegacySnap = {} PROVE Spec => []SocketsAreSynced
  <1>1. Init => ServedInv
    BY DEF Init, ServedInv
  <1>2. TypeOK /\ TaskHasDoc /\ ServedInv /\ [Next]_vars => ServedInv'
    <2>1. ServedInv /\ UNCHANGED vars => ServedInv'
      BY DEF ServedInv, vars, durable, memory, peers
    <2>. QED BY <2>1, ServedKeeps
  <1>3. ServedInv => SocketsAreSynced
    BY IdleTask DEF ServedInv, SocketsAreSynced, GateOpen
  <1>. QED BY <1>1, <1>2, <1>3, TypeCorrect, LoadedTasks, PTL DEF Spec

\* Both: an object between two handlers has nothing left to do for anybody.
THEOREM IdleObjectOwesNothing ==
  ASSUME LegacySnap = {}, MayFail \cap {"import", "put", "ack"} = {}
  PROVE  Spec => []IdleOwesNothing
  BY DirtyIsScheduled, SocketsAreServed, PTL DEF IdleOwesNothing

-----------------------------------------------------------------------------
(* A saved snapshot never shrinks, although puts and acks fail.            *)

\* Nothing wipes the snapshot that storing one replaces, initialize requests
\* come one at a time, and no document was left in Worker KV.
SnapshotDeployment ==
    /\ LegacySnap = {}
    /\ \A i, j \in Initializer : i = j
    /\ "sql" \notin MayFail

\* There is no document without a snapshot; the snapshot is causally complete,
\* and the document in memory, which failed puts may have put ahead of what is
\* stored, has all of it.
SnapInv ==
    /\ sqlSnap = {} => doc = {}
    /\ \A o \in sqlSnap : Deps[o] \subseteq sqlSnap
    /\ doc # {} => sqlSnap \subseteq doc
    /\ InitWaits

\* A step that saves nothing and starts no initialization.
LEMMA SnapStays ==
  ASSUME SnapInv, sqlSnap' = sqlSnap,
         doc' \in {doc, {}} \/ (sqlSnap # {} /\ sqlSnap \subseteq doc'),
         active'.kind = "init" => active.kind = "init",
         \A t \in parked' : t.kind = "init" => t \in parked
  PROVE  SnapInv'
  <1>1. InitWaits'
    BY DEF SnapInv, InitWaits
  <1>. QED BY <1>1 DEF SnapInv

\* An export of the document has all of a causally complete part of it, and is
\* causally complete itself.
LEMMA ExportCovers ==
  ASSUME doc \in SUBSET Op, NEW part \in SUBSET doc, \A o \in part : Deps[o] \subseteq part
  PROVE  part \subseteq Applied(doc) /\ \A o \in Applied(doc) : Deps[o] \subseteq Applied(doc)
  BY DepsAssumption DEF Applied

\* Every step keeps the invariant, and none takes from the snapshot.
LEMMA SnapKeeps ==
  ASSUME SnapshotDeployment, TypeOK, TaskHasDoc, SnapInv, Next
  PROVE  SnapInv' /\ sqlSnap \subseteq sqlSnap'
  <1>. USE DEF durable, memory, peers
  <1>0. active \in TaskType /\ parked \subseteq TaskType /\ doc \in SUBSET Op
    BY DEF TypeOK
  <1>1. CASE Loading \/ KvDelivery
    <2>1. active'.kind = "init" => active.kind = "init"
      BY <1>0, <1>1, AfterLoadTask, IdleTask
      DEF Loading, LoadCached, LoadFromSql, LoadFromKv, KvDelivery, KvAnswers, KvFails,
          SnapshotDeployment
    <2>2. \A t \in parked' : t.kind = "init" => t \in parked
      BY <1>1 DEF Loading, LoadCached, LoadFromSql, LoadFromKv, KvDelivery, KvAnswers, KvFails,
                  SnapInv, InitWaits, SnapshotDeployment
    <2>3. sqlSnap' = sqlSnap /\ (doc' = doc \/ (sqlSnap # {} /\ sqlSnap \subseteq doc'))
      BY <1>1 DEF Loading, LoadCached, LoadFromSql, LoadFromKv, KvDelivery, KvAnswers, KvFails,
                  SnapshotDeployment
    <2>. QED BY <2>1, <2>2, <2>3, SnapStays
  <1>2. CASE Requests
    <2>1. ASSUME NEW i \in Initializer, NEW s \in Seeds, InitializeBegin(i, s)
          PROVE  SnapInv' /\ sqlSnap' = sqlSnap
      <3> DEFINE new == Task("init", i, {s}, "check")
      <3>1. new.kind = "init" /\ new.who = i
        BY DEF Task
      <3>2. /\ \A t \in parked' : t \in parked \/ (sqlSnap = {} /\ t = new)
            /\ \A u \in parked : u.kind = "init" => u.who # i
            /\ UNCHANGED <<sqlSnap, doc, active>>
        BY <2>1 DEF InitializeBegin, MayAsk
      <3>3. \A t \in parked' : t.kind = "init" =>
              sqlSnap' = {} /\ \E j \in Initializer, r \in Seeds : t = Task("init", j, {r}, "check")
        BY <3>2 DEF SnapInv, InitWaits
      <3>4. \A t, u \in parked' : t.kind = "init" /\ u.kind = "init" /\ t.who = u.who => t = u
        <4> HIDE DEF new
        <4> QED BY <3>1, <3>2 DEF SnapInv, InitWaits
      <3>5. (active.kind = "init" => sqlSnap # {})'
        BY <3>2 DEF SnapInv, InitWaits
      <3>6. InitWaits'
        BY <3>3, <3>4, <3>5 DEF InitWaits
      <3> QED BY <3>2, <3>6 DEF SnapInv
    <2>2. CASE ExistsBegin \/ ReadBegin \/ \E c \in Client : ConnectBegin(c) \/ CloseSocket(c)
      <3>1. active'.kind # "init"
        BY <2>2 DEF ExistsBegin, ReadBegin, ConnectBegin, CloseSocket, Arrives, GateOpen, Idle,
                    Task
      <3>2. \A t \in parked' : t.kind = "init" => t \in parked
        BY <2>2 DEF ExistsBegin, ReadBegin, ConnectBegin, CloseSocket, Task
      <3>3. UNCHANGED <<sqlSnap, doc>>
        BY <2>2 DEF ExistsBegin, ReadBegin, ConnectBegin, CloseSocket
      <3>. QED BY <3>1, <3>2, <3>3, SnapStays
    <2>. QED BY <1>2, <2>1, <2>2 DEF Requests
  <1>3. CASE ExistsDelivery \/ ConnectWelcome \/ Messages
    <2>1. /\ active'.kind # "init" /\ parked' \subseteq parked
          /\ UNCHANGED <<sqlSnap, doc>>
      BY <1>3 DEF ExistsDelivery, ExistsEnd, ConnectWelcome, Messages, UpdateBegin, QueryBegin,
                  Arrives, GateOpen, Idle, Task
    <2>. QED BY <2>1, SnapStays
  <1>4. CASE Initializing
    <2>1. CASE InitializeAnnounce \/ \E t \in parked : InitializeRefused(t)
      <3>1. /\ active'.kind # "init" /\ parked' \subseteq parked
            /\ UNCHANGED <<sqlSnap, doc>>
        BY <2>1, IdleTask DEF InitializeAnnounce, InitializeRefused, GateOpen
      <3>. QED BY <3>1, SnapStays
    <2>2. ASSUME NEW t \in parked, InitializeStore(t) PROVE SnapInv' /\ sqlSnap = {}
      <3>1. /\ sqlSnap = {} /\ doc = {} /\ t.kind = "init"
            /\ \E i \in Initializer, s \in Seeds : t = Task("init", i, {s}, "check")
        BY <2>2 DEF InitializeStore, SnapInv, InitWaits
      <3>2. PICK i \in Initializer, s \in Seeds : t = Task("init", i, {s}, "check")
        BY <3>1
      <3>3. sqlSnap' = {s} /\ doc' = {} /\ Deps[s] = {}
        BY <2>2, <3>1, <3>2, DepsAssumption DEF InitializeStore, Task
      <3>4. \A u \in parked' : u.kind # "init"
        <4>. SUFFICES ASSUME NEW u \in parked', u.kind = "init" PROVE FALSE
          OBVIOUS
        <4>1. u \in parked /\ u # t
          BY <2>2 DEF InitializeStore
        <4>2. PICK j \in Initializer, r \in Seeds : u = Task("init", j, {r}, "check")
          BY <4>1 DEF SnapInv, InitWaits
        <4>3. u.who = j /\ t.who = i /\ i = j
          BY <3>2, <4>2 DEF Task, SnapshotDeployment
        <4>. QED BY <3>1, <4>1, <4>3 DEF SnapInv, InitWaits
      <3>. QED BY <3>1, <3>3, <3>4 DEF SnapInv, InitWaits
    <2>. QED BY <1>4, <2>1, <2>2 DEF Initializing
  <1>5. CASE Handling
    <2>1. active'.kind \in {active.kind, "none"} /\ parked' = parked /\ sqlSnap' = sqlSnap
      BY <1>0, <1>5, IdleTask DEF Handling, ApplyOp, ApplyOpFails, ImportFails, RecordOp, RecordOpFails,
                        AckAndBroadcast, AckFails, Reply, BumpAlarm, TaskType
    <2>2. doc' = doc \/ (active.pc = "apply" /\ doc \subseteq doc')
      BY <1>5 DEF Handling, ApplyOp, ApplyOpFails, ImportFails, RecordOp, RecordOpFails, AckAndBroadcast,
                  AckFails, Reply, BumpAlarm
    <2>3. active.pc = "apply" => doc # {}
      BY DEF TaskHasDoc, LoadedPCs
    <2>4. doc' = doc \/ (sqlSnap # {} /\ sqlSnap \subseteq doc')
      BY <2>2, <2>3 DEF SnapInv
    <2>. QED BY <2>1, <2>4, SnapStays
  <1>6. CASE Alarms
    <2>1. active'.kind = "init" => active.kind = "init"
      BY <1>0, <1>6, IdleTask DEF Alarms, AlarmBegin, Task, StoreSnapshot, NothingToSave,
                        ClearAppliedOps, SqlPutFails, ClearFails, Rearm, TaskType
    <2>2. CASE StoreSnapshot
      <3>1. doc # {} /\ sqlSnap # {} /\ sqlSnap \in SUBSET doc
        BY <2>2 DEF StoreSnapshot, TaskHasDoc, LoadedPCs, SnapInv
      <3>2. sqlSnap \subseteq Applied(doc) /\ \A o \in Applied(doc) : Deps[o] \subseteq Applied(doc)
        BY <1>0, <3>1, ExportCovers DEF SnapInv
      <3>3. sqlSnap' = Applied(doc) /\ UNCHANGED <<doc, parked>> /\ Applied(doc) \subseteq doc
        BY <2>2 DEF StoreSnapshot, Applied
      <3>. QED BY <2>1, <3>1, <3>2, <3>3 DEF SnapInv, InitWaits
    <2>3. CASE ~StoreSnapshot
      <3>1. UNCHANGED <<sqlSnap, doc, parked>>
        BY <1>6, <2>3 DEF Alarms, AlarmBegin, NothingToSave, ClearAppliedOps, SqlPutFails,
                          ClearFails, Rearm, SnapshotDeployment
      <3>. QED BY <2>1, <3>1, SnapStays
    <2>. QED BY <2>2, <2>3
  <1>7. CASE Crash \/ Hibernate
    BY <1>7, IdleTask, SnapStays DEF Crash, Hibernate, Forget
  <1>. QED BY <1>1, <1>2, <1>3, <1>4, <1>5, <1>6, <1>7 DEF Next

\* A saved snapshot is only ever replaced by one that includes it, although
\* imports, puts to the logs and acks fail and clients push over gaps: alarm()
\* never saves less than it loaded, and initialize_handler, called again after
\* it stored one, does not overwrite.
THEOREM SnapshotsGrow == ASSUME SnapshotDeployment PROVE Spec => SnapshotGrows
  <1>1. Init => SnapInv
    BY IdleTask DEF Init, SnapInv, InitWaits
  <1>2. TypeOK /\ TaskHasDoc /\ SnapInv /\ [Next]_vars => SnapInv'
    <2>1. SnapInv /\ UNCHANGED vars => SnapInv'
      BY DEF SnapInv, InitWaits, vars, durable, memory
    <2>. QED BY <2>1, SnapKeeps
  <1>3. TypeOK /\ TaskHasDoc /\ SnapInv /\ [Next]_vars => [sqlSnap \subseteq sqlSnap']_sqlSnap
    BY SnapKeeps DEF vars, durable
  <1>. QED BY <1>1, <1>2, <1>3, TypeCorrect, LoadedTasks, PTL DEF Spec, SnapshotGrows
=============================================================================
