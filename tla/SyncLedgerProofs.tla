-------------------------- MODULE SyncLedgerProofs --------------------------
(***************************************************************************)
(* Further proofs about SyncSession: what holds of records and rights      *)
(* whatever fails and however often a document is initialized, that nobody *)
(* misses an update, and that the session implements its ledger.           *)
(***************************************************************************)
EXTENDS SyncSessionProofs

Writable == Op \ UNION {Own(c) : c \in ReadOnly}

\* A task handles updates that its client's log may hold, of editors only.
GoodTask(t) ==
    /\ t \in TaskType
    /\ t.todo \subseteq t.batch /\ t.batch \subseteq Writable
    /\ t.kind = "update" \/ t.pc \in {"apply", "record", "ack"} => t.batch \subseteq Rows(t.who)

TasksAreGood == GoodTask(active) /\ \A t \in parked : GoodTask(t)

\* Updates of clients that may edit, and nothing else, are anywhere.
ContentIsWritable ==
    /\ doc \subseteq Writable /\ sqlSnap \subseteq Writable
    /\ opLog \subseteq Writable /\ allLog \subseteq Writable
    /\ \A c \in Client : sent[c] \subseteq Writable

\* A batch is acked when all of it is in the record of operations.
AcksAreRecorded ==
    /\ acked \subseteq allLog
    /\ active.pc = "ack" => active.batch \subseteq allLog

RInv == TasksAreGood /\ ContentIsWritable /\ AcksAreRecorded

-----------------------------------------------------------------------------
LEMMA SeedsAreWritable == Seeds \subseteq Writable
  BY OpAssumption DEF Writable, Own

LEMMA GoodIdle == GoodTask(Idle) /\ Idle.pc = "done"
  <1>1. Idle \in TaskType /\ Idle.kind = "none" /\ Idle.pc = "done" /\ Idle.todo = {} /\ Idle.batch = {}
    BY NewTask DEF Idle, Kinds, PCs
  <1> QED BY <1>1 DEF GoodTask

LEMMA GoodNew ==
  ASSUME NEW kind \in Kinds, NEW who \in Client \cup Initializer \cup {Nobody}, NEW batch \in SUBSET Writable,
         NEW pc \in {"load", "check"}, kind = "update" => batch \subseteq Rows(who)
  PROVE  GoodTask(Task(kind, who, batch, pc)) /\ Task(kind, who, batch, pc).pc = pc
  <1>1. batch \in SUBSET Op /\ pc \in PCs
    BY DEF Writable, PCs
  <1>2. /\ Task(kind, who, batch, pc) \in TaskType /\ Task(kind, who, batch, pc).kind = kind
        /\ Task(kind, who, batch, pc).who = who /\ Task(kind, who, batch, pc).batch = batch
        /\ Task(kind, who, batch, pc).todo = batch /\ Task(kind, who, batch, pc).pc = pc
    BY <1>1, NewTask
  <1> QED BY <1>2 DEF GoodTask

LEMMA GoodMove ==
  ASSUME NEW t, GoodTask(t), NEW pc \in PCs,
         pc \in {"apply", "record", "ack"} =>
            t.kind = "update" \/ t.pc \in {"apply", "record", "ack"}
  PROVE  /\ GoodTask([t EXCEPT !.pc = pc]) /\ [t EXCEPT !.pc = pc].pc = pc
         /\ [t EXCEPT !.pc = pc].batch = t.batch
  <1>1. t \in TaskType
    BY DEF GoodTask
  <1>2. /\ [t EXCEPT !.pc = pc] \in TaskType /\ [t EXCEPT !.pc = pc].pc = pc
        /\ [t EXCEPT !.pc = pc].kind = t.kind /\ [t EXCEPT !.pc = pc].who = t.who
        /\ [t EXCEPT !.pc = pc].batch = t.batch /\ [t EXCEPT !.pc = pc].todo = t.todo
    BY <1>1, MoveTask
  <1> QED BY <1>2 DEF GoodTask

LEMMA GoodAfterLoad ==
  ASSUME NEW t, GoodTask(t)
  PROVE  GoodTask(AfterLoad(t)) /\ AfterLoad(t).pc # "ack"
  <1>1. t \in TaskType
    BY DEF GoodTask
  <1>2. AfterLoad(t).pc # "ack"
    BY <1>1, AfterLoadTask
  <1>3. CASE t.kind = "update"
    <2>1. AfterLoad(t) = [t EXCEPT !.pc = "apply"] /\ "apply" \in PCs
      BY <1>3 DEF AfterLoad, PCs
    <2>2. GoodTask([t EXCEPT !.pc = "apply"])
      BY <1>3, <2>1, GoodMove
    <2> QED BY <1>2, <2>1, <2>2
  <1>4. CASE t.kind \notin {"update", "pull", "note", "alarm", "connect", "init"}
    <2>1. AfterLoad(t) = Idle
      BY <1>4 DEF AfterLoad
    <2> QED BY <1>2, <2>1, GoodIdle
  <1>5. CASE t.kind \in {"pull", "note", "alarm", "connect", "init"}
    <2>1. PICK pc \in {"reply", "bump", "store", "welcome", "announce"} :
            AfterLoad(t) = [t EXCEPT !.pc = pc]
      BY <1>5 DEF AfterLoad
    <2>2. pc \in PCs /\ pc \notin {"apply", "record", "ack"}
      BY <2>1 DEF PCs
    <2>3. GoodTask([t EXCEPT !.pc = pc])
      BY <2>2, GoodMove
    <2> QED BY <1>2, <2>1, <2>3
  <1> QED BY <1>3, <1>4, <1>5

\* A step that sends nothing and records nothing.
LEMMA PlainStep ==
  ASSUME RInv, UNCHANGED <<allLog, acked, sent>>, GoodTask(active'), active'.pc # "ack",
         \A t \in parked' : t \in parked \/ GoodTask(t),
         doc' \subseteq Writable, sqlSnap' \subseteq Writable, opLog' \subseteq Writable
  PROVE  RInv'
  <1>1. TasksAreGood'
    BY DEF RInv, TasksAreGood, GoodTask
  <1>2. ContentIsWritable' /\ AcksAreRecorded'
    BY DEF RInv, ContentIsWritable, AcksAreRecorded
  <1> QED BY <1>1, <1>2 DEF RInv

LEMMA LoadsRecord == RInv /\ (Loading \/ KvDelivery) => RInv'
  <1> SUFFICES ASSUME RInv, Loading \/ KvDelivery PROVE RInv'
    OBVIOUS
  <1> USE DEF durable, memory, peers
  <1>0. /\ doc \subseteq Writable /\ sqlSnap \subseteq Writable /\ opLog \subseteq Writable
        /\ GoodTask(active) /\ \A t \in parked : GoodTask(t) /\ GoodTask(AfterLoad(t))
        /\ \A t \in parked : AfterLoad(t).pc # "ack"
    BY GoodAfterLoad DEF RInv, ContentIsWritable, TasksAreGood
  <1>1. GoodTask(AfterLoad(active)) /\ AfterLoad(active).pc # "ack"
    BY <1>0, GoodAfterLoad
  <1>2. CASE LoadCached
    BY <1>0, <1>1, <1>2, PlainStep DEF LoadCached
  <1>3. CASE LoadFromSql
    BY <1>0, <1>1, <1>3, PlainStep DEF LoadFromSql
  <1>4. CASE LoadFromKv
    BY <1>0, <1>4, GoodIdle, PlainStep DEF LoadFromKv
  <1>5. ASSUME NEW t \in parked, KvAnswers(t) PROVE RInv'
    <2>1. LegacySnap \subseteq Writable
      BY OpAssumption, SeedsAreWritable
    <2> QED BY <1>0, <1>5, <2>1, PlainStep DEF KvAnswers
  <1>6. ASSUME NEW t \in parked, KvFails(t) PROVE RInv'
    BY <1>0, <1>6, GoodIdle, PlainStep DEF KvFails, GateOpen
  <1> QED BY <1>2, <1>3, <1>4, <1>5, <1>6 DEF Loading, KvDelivery

LEMMA RequestsRecord == RInv /\ (Requests \/ ExistsDelivery) => RInv'
  <1> SUFFICES ASSUME RInv, Requests \/ ExistsDelivery PROVE RInv'
    OBVIOUS
  <1> USE DEF durable, memory, peers
  <1>0. /\ doc \subseteq Writable /\ sqlSnap \subseteq Writable /\ opLog \subseteq Writable
        /\ {} \in SUBSET Writable
    BY DEF RInv, ContentIsWritable
  <1>1. ASSUME NEW c \in Client, ConnectBegin(c) PROVE RInv'
    <2>1. GoodTask(active') /\ active'.pc # "ack"
      BY <1>0, <1>1, GoodNew DEF ConnectBegin, Kinds
    <2> QED BY <1>0, <1>1, <2>1, PlainStep DEF ConnectBegin
  <1>2. Nobody \in Client \cup Initializer \cup {Nobody} /\ "load" \in Kinds /\ "init" \in Kinds /\ "exists" \in Kinds
    BY DEF Kinds
  <1>3. GoodTask(Task("load", Nobody, {}, "load")) /\ Task("load", Nobody, {}, "load").pc = "load"
    BY <1>0, <1>2, GoodNew
  <1>4. ASSUME NEW c \in Client, CloseSocket(c) PROVE RInv'
    <2>1. GoodTask(active') /\ active'.pc # "ack"
      BY <1>3, <1>4, GoodIdle DEF CloseSocket
    <2> QED BY <1>0, <1>4, <2>1, PlainStep DEF CloseSocket
  <1>5. ASSUME NEW i \in Initializer, NEW s \in Seeds, InitializeBegin(i, s) PROVE RInv'
    <2>1. {s} \in SUBSET Writable
      BY SeedsAreWritable
    <2>2. GoodTask(Task("init", i, {s}, "check"))
      BY <1>2, <2>1, GoodNew
    <2>3. active' = Idle /\ \A t \in parked' : t \in parked \/ GoodTask(t)
      BY <1>5, <2>2 DEF InitializeBegin, Arrives, GateOpen
    <2> QED BY <1>0, <1>5, <2>3, GoodIdle, PlainStep DEF InitializeBegin
  <1>6. ASSUME ExistsBegin PROVE RInv'
    <2>1. GoodTask(Task("exists", Nobody, {}, "check"))
      BY <1>0, <1>2, GoodNew
    <2>2. active' = Idle /\ \A t \in parked' : t \in parked \/ GoodTask(t)
      BY <1>6, <2>1 DEF ExistsBegin, Arrives, GateOpen
    <2> QED BY <1>0, <1>6, <2>2, GoodIdle, PlainStep DEF ExistsBegin
  <1>7. ASSUME ReadBegin PROVE RInv'
    BY <1>0, <1>3, <1>7, PlainStep DEF ReadBegin
  <1>8. ASSUME NEW t \in parked, ExistsEnd(t) PROVE RInv'
    BY <1>0, <1>8, GoodIdle, PlainStep DEF ExistsEnd, GateOpen
  <1> QED BY <1>1, <1>4, <1>5, <1>6, <1>7, <1>8 DEF Requests, ExistsDelivery

\* What can be exported of the document is in it.
LEMMA SendsAreWritable ==
  ASSUME RInv, NEW to, NEW ops \in SUBSET Writable, Send(to, ops)
  PROVE  \A c \in Client : sent'[c] \subseteq Writable
  BY DEF RInv, ContentIsWritable, Send

LEMMA InitializingRecords == RInv /\ (Initializing \/ ConnectWelcome) => RInv'
  <1> SUFFICES ASSUME RInv, Initializing \/ ConnectWelcome PROVE RInv'
    OBVIOUS
  <1> USE DEF durable, memory, peers
  <1>0. /\ doc \subseteq Writable /\ sqlSnap \subseteq Writable /\ opLog \subseteq Writable
        /\ Applied(doc) \in SUBSET Writable /\ \A t \in parked : GoodTask(t)
    BY DEF RInv, ContentIsWritable, TasksAreGood, Applied
  <1>1. ASSUME NEW t \in parked, InitializeRefused(t) PROVE RInv'
    BY <1>0, <1>1, GoodIdle, PlainStep DEF InitializeRefused, GateOpen
  <1>2. ASSUME NEW t \in parked, InitializeStore(t) PROVE RInv'
    <2>1. GoodTask(t) /\ "load" \in PCs
      BY <1>0 DEF PCs
    <2>2. GoodTask(active') /\ active'.pc # "ack"
      BY <1>2, <2>1, GoodMove DEF InitializeStore
    <2> QED BY <1>0, <1>2, <2>1, <2>2, PlainStep DEF InitializeStore, GoodTask
  <1>3. ASSUME InitializeAnnounce \/ ConnectWelcome PROVE RInv'
    <2>1. active' = Idle /\ UNCHANGED <<doc, sqlSnap, opLog, allLog, acked, parked>>
      BY <1>3 DEF InitializeAnnounce, ConnectWelcome
    <2>2. \A c \in Client : sent'[c] \subseteq Writable
      BY <1>0, <1>3, SendsAreWritable DEF InitializeAnnounce, ConnectWelcome
    <2> QED BY <1>0, <2>1, <2>2, GoodIdle
            DEF RInv, TasksAreGood, ContentIsWritable, AcksAreRecorded, GoodTask
  <1> QED BY <1>1, <1>2, <1>3 DEF Initializing

LEMMA MessagesRecord == RInv /\ Messages => RInv'
  <1> SUFFICES ASSUME RInv, Messages PROVE RInv'
    OBVIOUS
  <1> USE DEF durable, memory, peers
  <1>0. /\ doc \subseteq Writable /\ sqlSnap \subseteq Writable /\ opLog \subseteq Writable
        /\ {} \in SUBSET Writable
        /\ "note" \in Kinds /\ "pull" \in Kinds /\ "update" \in Kinds
    BY DEF RInv, ContentIsWritable, Kinds
  <1>1. ASSUME NEW c \in Client, NEW batch \in SUBSET Rows(c), UpdateBegin(c, batch) PROVE RInv'
    <2>1. CASE c \in ReadOnly
      <3>1. GoodTask(active') /\ active'.pc # "ack"
        BY <1>0, <1>1, <2>1, GoodNew DEF UpdateBegin
      <3> QED BY <1>0, <1>1, <3>1, PlainStep DEF UpdateBegin
    <2>2. CASE c \notin ReadOnly
      <3>1. batch \in SUBSET Writable
        BY <2>2, OpAssumption DEF Own, Rows, Writable
      <3>2. GoodTask(active') /\ active'.pc # "ack"
        BY <1>0, <1>1, <2>2, <3>1, GoodNew DEF UpdateBegin
      <3> QED BY <1>0, <1>1, <3>2, PlainStep DEF UpdateBegin
    <2> QED BY <2>1, <2>2
  <1>2. ASSUME NEW c \in Client, NEW kind \in {"pull", "note"}, QueryBegin(c, kind) PROVE RInv'
    <2>1. GoodTask(active') /\ active'.pc # "ack"
      BY <1>0, <1>2, GoodNew DEF QueryBegin
    <2> QED BY <1>0, <1>2, <2>1, PlainStep DEF QueryBegin
  <1> QED BY <1>1, <1>2 DEF Messages

LEMMA HandlingRecords == RInv /\ Handling => RInv'
  <1> SUFFICES ASSUME RInv, Handling PROVE RInv'
    OBVIOUS
  <1> USE DEF durable, memory, peers
  <1>0. /\ doc \subseteq Writable /\ sqlSnap \subseteq Writable /\ opLog \subseteq Writable
        /\ allLog \subseteq Writable /\ GoodTask(active) /\ active \in TaskType
        /\ active.todo \subseteq active.batch /\ active.batch \subseteq Writable
        /\ Applied(doc) \in SUBSET Writable
    BY DEF RInv, ContentIsWritable, TasksAreGood, GoodTask, Applied
  <1>1. ASSUME NEW o \in Op, ApplyOp(o) PROVE RInv'
    <2>1. o \in Writable
      BY <1>0, <1>1 DEF ApplyOp, NextInBatch
    <2>2. /\ active' \in TaskType /\ active'.pc = "record"
          /\ active'.kind = active.kind /\ active'.who = active.who
          /\ active'.batch = active.batch /\ active'.todo = active.todo \ {o}
      BY <1>0, <1>1 DEF ApplyOp, TaskType
    <2>3. GoodTask(active')
      BY <1>0, <1>1, <2>2 DEF ApplyOp, GoodTask
    <2> QED BY <1>0, <1>1, <2>1, <2>2, <2>3, PlainStep DEF ApplyOp
  <1>2. ASSUME NEW o \in Op, ApplyOpFails(o) PROVE RInv'
    <2>1. o \in Writable
      BY <1>0, <1>2 DEF ApplyOpFails, NextInBatch
    <2> QED BY <1>0, <1>2, <2>1, GoodIdle, PlainStep DEF ApplyOpFails
  <1>3. ASSUME RecordOp PROVE RInv'
    <2> DEFINE pc == IF active.todo = {} THEN "ack" ELSE "apply"
    <2>1. GoodTask(active') /\ active'.pc = pc /\ active'.batch = active.batch
      <3>1. pc \in PCs /\ active' = [active EXCEPT !.pc = pc] /\ active.pc = "record"
        BY <1>3 DEF RecordOp, PCs
      <3> HIDE DEF pc
      <3> QED BY <1>0, <3>1, GoodMove
    <2>2. /\ allLog' = allLog \cup (active.batch \ active.todo)
          /\ UNCHANGED <<doc, sqlSnap, opLog, sent, acked, parked>>
      BY <1>3 DEF RecordOp
    <2> QED BY <1>0, <2>1, <2>2
            DEF RInv, TasksAreGood, ContentIsWritable, AcksAreRecorded, GoodTask
  <1>4. ASSUME ImportFails \/ RecordOpFails \/ AckFails \/ BumpAlarm PROVE RInv'
    <2>1. active' = Idle /\ UNCHANGED <<doc, sqlSnap, opLog, allLog, acked, sent, parked>>
      BY <1>4 DEF ImportFails, RecordOpFails, AckFails, BumpAlarm
    <2> QED BY <1>0, <2>1, GoodIdle, PlainStep
  <1>5. GoodTask([active EXCEPT !.pc = "bump"]) /\ [active EXCEPT !.pc = "bump"].pc = "bump"
    <2>1. "bump" \in PCs
      BY DEF PCs
    <2> QED BY <1>0, <2>1, GoodMove
  <1>6. ASSUME AckAndBroadcast PROVE RInv'
    <2>1. /\ active' = [active EXCEPT !.pc = "bump"] /\ acked' = acked \cup active.batch
          /\ UNCHANGED <<doc, sqlSnap, opLog, allLog, parked>>
          /\ active.batch \subseteq allLog
      BY <1>6 DEF AckAndBroadcast, RInv, AcksAreRecorded
    <2>2. \A c \in Client : sent'[c] \subseteq Writable
      BY <1>0, <1>6, SendsAreWritable DEF AckAndBroadcast
    <2> QED BY <1>0, <1>5, <2>1, <2>2
            DEF RInv, TasksAreGood, ContentIsWritable, AcksAreRecorded, GoodTask
  <1>7. ASSUME Reply PROVE RInv'
    <2>1. /\ active' = [active EXCEPT !.pc = "bump"]
          /\ UNCHANGED <<doc, sqlSnap, opLog, allLog, acked, parked>>
      BY <1>7 DEF Reply
    <2>2. \A c \in Client : sent'[c] \subseteq Writable
      BY <1>0, <1>7, SendsAreWritable DEF Reply
    <2> QED BY <1>0, <1>5, <2>1, <2>2
            DEF RInv, TasksAreGood, ContentIsWritable, AcksAreRecorded, GoodTask
  <1> QED BY <1>1, <1>2, <1>3, <1>4, <1>6, <1>7 DEF Handling

LEMMA AlarmsRecord == RInv /\ (Alarms \/ Crash \/ Hibernate) => RInv'
  <1> SUFFICES ASSUME RInv, Alarms \/ Crash \/ Hibernate PROVE RInv'
    OBVIOUS
  <1> USE DEF durable, memory, peers
  <1>0. /\ doc \subseteq Writable /\ sqlSnap \subseteq Writable /\ opLog \subseteq Writable
        /\ GoodTask(active) /\ Applied(doc) \subseteq Writable /\ {} \in SUBSET Writable
    BY DEF RInv, ContentIsWritable, TasksAreGood, Applied
  <1>1. \A pc \in {"clear", "rearm"} :
          GoodTask([active EXCEPT !.pc = pc]) /\ [active EXCEPT !.pc = pc].pc = pc
    <2> SUFFICES ASSUME NEW pc \in {"clear", "rearm"}
                 PROVE  GoodTask([active EXCEPT !.pc = pc]) /\ [active EXCEPT !.pc = pc].pc = pc
      OBVIOUS
    <2>1. pc \in PCs
      BY DEF PCs
    <2> QED BY <1>0, <2>1, GoodMove
  <1>2. ASSUME AlarmBegin PROVE RInv'
    <2>1. GoodTask(active') /\ active'.pc # "ack"
      BY <1>0, <1>2, GoodNew DEF AlarmBegin, Kinds
    <2> QED BY <1>0, <1>2, <2>1, PlainStep DEF AlarmBegin
  <1>3. ASSUME StoreSnapshot \/ NothingToSave \/ ClearAppliedOps PROVE RInv'
    <2>1. \E pc \in {"clear", "rearm"} : active' = [active EXCEPT !.pc = pc]
      BY <1>3 DEF StoreSnapshot, NothingToSave, ClearAppliedOps
    <2>2. GoodTask(active') /\ active'.pc # "ack"
      BY <1>1, <2>1
    <2>3. /\ UNCHANGED <<allLog, acked, sent, parked>>
          /\ doc' \subseteq Writable /\ sqlSnap' \subseteq Writable /\ opLog' \subseteq Writable
      BY <1>0, <1>3 DEF StoreSnapshot, NothingToSave, ClearAppliedOps
    <2> QED BY <2>2, <2>3, PlainStep
  <1>4. ASSUME SqlPutFails \/ ClearFails \/ Rearm \/ Crash \/ Hibernate PROVE RInv'
    <2>1. /\ UNCHANGED <<allLog, acked, sent>> /\ active' = Idle /\ parked' \subseteq parked
          /\ doc' \subseteq Writable /\ sqlSnap' \subseteq Writable /\ opLog' \subseteq Writable
      BY <1>0, <1>4 DEF SqlPutFails, ClearFails, Rearm, Crash, Hibernate, Forget
    <2> QED BY <2>1, GoodIdle, PlainStep
  <1> QED BY <1>2, <1>3, <1>4 DEF Alarms

LEMMA RecordsAndRights == Spec => []RInv
  <1>1. Init => RInv
    BY GoodIdle DEF Init, RInv, TasksAreGood, ContentIsWritable, AcksAreRecorded
  <1>2. RInv /\ [Next]_vars => RInv'
    <2>1. RInv /\ UNCHANGED vars => RInv'
      BY DEF RInv, TasksAreGood, GoodTask, ContentIsWritable, AcksAreRecorded,
             vars, durable, memory, peers
    <2> QED BY <2>1, LoadsRecord, RequestsRecord, InitializingRecords, MessagesRecord,
               HandlingRecords, AlarmsRecord DEF Next
  <1> QED BY <1>1, <1>2, PTL DEF Spec

\* Every acknowledged update is in the record of all operations, whatever
\* fails, whatever was in Worker KV and however often initialize is called.
THEOREM AcksAreOnRecord == Spec => []AckedRecorded
  <1>1. RInv => AckedRecorded
    BY DEF RInv, AcksAreRecorded, AckedRecorded
  <1> QED BY <1>1, RecordsAndRights, PTL

\* can_edit keeps the updates of a client that may not edit out of memory, of
\* storage and of everybody's sockets, under the same faults.
THEOREM ReadersLeaveNothing == Spec => []ReadOnlyLeavesNothing
  <1>1. RInv => ReadOnlyLeavesNothing
    <2> SUFFICES ASSUME RInv, NEW c \in ReadOnly
                 PROVE  Own(c) \cap (doc \cup Recoverable \cup allLog
                                       \cup UNION {sent[d] : d \in Client}) = {}
      BY DEF ReadOnlyLeavesNothing
    <2>1. Own(c) \cap Writable = {}
      BY DEF Writable
    <2>2. LegacySnap \subseteq Writable
      BY OpAssumption, SeedsAreWritable
    <2>3. Recoverable \subseteq Writable
      BY <2>2 DEF RInv, ContentIsWritable, Recoverable
    <2>4. UNION {sent[d] : d \in Client} \subseteq Writable
      BY DEF RInv, ContentIsWritable
    <2> QED BY <2>1, <2>3, <2>4 DEF RInv, ContentIsWritable
  <1> QED BY <1>1, RecordsAndRights, PTL

-----------------------------------------------------------------------------
(* Nobody misses an update.                                                *)

AtWork == {"apply", "record", "ack"}

\* What the batch at work has stored and not yet sent to anybody.
Pending == IF active.pc \in AtWork THEN active.batch \ active.todo ELSE {}

PeerInv ==
    /\ synced \subseteq sockets
    /\ sqlSnap = {} => synced = {}
    /\ \A c \in synced : Stored \subseteq sent[c] \cup Own(c) \cup Pending

\* A step that stores nothing new, outside a batch.
LEMMA QuietPeers ==
  ASSUME PeerInv, active.pc \notin AtWork, Stored' = Stored, sqlSnap \subseteq sqlSnap', sent' = sent,
         synced' \subseteq synced, synced' \subseteq sockets'
  PROVE  PeerInv'
  <1>1. Pending = {}
    BY DEF Pending
  <1> QED BY <1>1 DEF PeerInv

LEMMA PeersKeep ==
  ASSUME SoundDeployment, MayFail \cap {"ack", "import"} = {}, IInv, PeerInv, Next
  PROVE  PeerInv'
  <1> USE DEF durable, memory, peers
  <1>0. /\ TypeOK /\ active \in TaskType /\ synced \subseteq sockets /\ sockets \subseteq Client
    BY DEF IInv, TypeOK, PeerInv
  <1>i. GateOpen => active.pc \notin AtWork
    BY IdleTask DEF GateOpen, AtWork
  <1>1. CASE Loading \/ KvDelivery \/ ExistsDelivery
    <2>1. active.pc \notin AtWork /\ UNCHANGED <<sqlSnap, opLog, sent, synced, sockets>>
      BY <1>1, <1>i DEF Loading, KvDelivery, LoadCached, LoadFromSql, LoadFromKv, KvAnswers,
                        KvFails, AtWork, ExistsDelivery, ExistsEnd
    <2> QED BY <1>0, <2>1, QuietPeers DEF Stored
  <1>2. CASE Requests
    <2>1. /\ active.pc \notin AtWork /\ UNCHANGED <<sqlSnap, opLog, sent>>
          /\ synced' \subseteq synced /\ synced' \subseteq sockets'
      BY <1>0, <1>2, <1>i DEF Requests, ConnectBegin, CloseSocket, InitializeBegin, ExistsBegin,
                              ReadBegin, Arrives
    <2> QED BY <2>1, QuietPeers DEF Stored
  <1>3. CASE Initializing \/ ConnectWelcome
    <2>1. ASSUME NEW t \in parked, InitializeRefused(t) PROVE PeerInv'
      <3>1. active.pc \notin AtWork /\ UNCHANGED <<sqlSnap, opLog, sent, synced, sockets>>
        BY <1>i, <2>1 DEF InitializeRefused
      <3> QED BY <1>0, <3>1, QuietPeers DEF Stored
    <2>2. ASSUME NEW t \in parked, InitializeStore(t) PROVE PeerInv'
      <3>1. sqlSnap = {} /\ UNCHANGED synced
        BY <2>2 DEF InitializeStore, IInv, InitWaits
      <3> QED BY <3>1 DEF PeerInv
    <2>3. ASSUME InitializeAnnounce \/ ConnectWelcome PROVE PeerInv'
      <3>1. doc # {} /\ active.pc \notin AtWork
        BY <2>3 DEF IInv, TaskHasDoc, LoadedPCs, InitializeAnnounce, ConnectWelcome, AtWork
      <3>2. Applied(doc) = Stored /\ sqlSnap # {} /\ Pending = {}
        BY <3>1, ExportIsStored, DocMeansSnapshot DEF Pending
      <3>3. UNCHANGED <<sqlSnap, opLog, sockets>> /\ Stored' = Stored
        BY <2>3 DEF InitializeAnnounce, ConnectWelcome, Stored
      <3>4. CASE InitializeAnnounce
        <4>1. synced' = sockets /\ \A c \in sockets : sent'[c] = sent[c] \cup Stored
          BY <1>0, <3>2, <3>4 DEF InitializeAnnounce, Send
        <4> QED BY <3>2, <3>3, <4>1 DEF PeerInv
      <3>5. CASE ConnectWelcome
        <4>1. /\ synced' = synced \cup ({active.who} \cap sockets)
              /\ \A c \in sockets : sent'[c] = IF c = active.who THEN sent[c] \cup Stored ELSE sent[c]
          BY <1>0, <3>2, <3>5 DEF ConnectWelcome, Send
        <4> QED BY <1>0, <3>2, <3>3, <4>1 DEF PeerInv
      <3> QED BY <2>3, <3>4, <3>5
    <2> QED BY <1>3, <2>1, <2>2, <2>3 DEF Initializing
  <1>4. CASE Messages
    <2>1. active.pc \notin AtWork /\ UNCHANGED <<sqlSnap, opLog, sent, synced, sockets>>
      BY <1>4, <1>i DEF Messages, UpdateBegin, QueryBegin, Arrives
    <2> QED BY <1>0, <2>1, QuietPeers DEF Stored
  <1>5. CASE Handling
    <2>1. ~ImportFails /\ ~RecordOpFails /\ ~AckFails /\ \A o \in Op : ~ApplyOpFails(o)
      BY DEF SoundDeployment, ImportFails, RecordOpFails, AckFails, ApplyOpFails
    <2>2. ASSUME NEW o \in Op, ApplyOp(o) PROVE PeerInv'
      <3>1. active'.pc = "record" /\ active'.batch = active.batch /\ active'.todo = active.todo \ {o}
        BY <1>0, <2>2 DEF ApplyOp, TaskType
      <3>2. o \in active.batch /\ active.pc = "apply"
        BY <2>2 DEF ApplyOp, NextInBatch, IInv, BatchInOrder
      <3>3. Pending \cup {o} \subseteq Pending'
        BY <3>1, <3>2 DEF Pending, AtWork
      <3>4. Stored' = Stored \cup {o} /\ UNCHANGED <<sqlSnap, sent, synced, sockets>>
        BY <2>2 DEF ApplyOp, Stored
      <3> QED BY <3>3, <3>4 DEF PeerInv
    <2>3. ASSUME RecordOp PROVE PeerInv'
      <3>1. /\ active'.pc \in AtWork /\ active.pc \in AtWork
            /\ active'.batch = active.batch /\ active'.todo = active.todo
        BY <1>0, <2>3 DEF RecordOp, TaskType, AtWork
      <3>2. Pending' = Pending
        BY <3>1 DEF Pending
      <3>3. Stored' = Stored /\ UNCHANGED <<sqlSnap, sent, synced, sockets>>
        BY <2>3 DEF RecordOp, Stored
      <3> QED BY <3>2, <3>3 DEF PeerInv
    <2>4. ASSUME AckAndBroadcast PROVE PeerInv'
      <3>1. Pending = active.batch
        BY <2>4 DEF AckAndBroadcast, Pending, AtWork, IInv, BatchInOrder
      <3>2. \A c \in sockets : sent'[c] = sent[c] \cup active.batch
        BY <1>0, <2>4 DEF AckAndBroadcast, Send
      <3>3. Stored' = Stored /\ UNCHANGED <<sqlSnap, synced, sockets>>
        BY <2>4 DEF AckAndBroadcast, Stored
      <3> QED BY <1>0, <3>1, <3>2, <3>3 DEF PeerInv
    <2>5. ASSUME Reply PROVE PeerInv'
      <3>1. Pending = {}
        BY <2>5 DEF Reply, Pending, AtWork
      <3>2. \A c \in sockets : sent[c] \subseteq sent'[c]
        BY <1>0, <2>5 DEF Reply, Send
      <3>3. Stored' = Stored /\ UNCHANGED <<sqlSnap, synced, sockets>>
        BY <2>5 DEF Reply, Stored
      <3> QED BY <1>0, <3>1, <3>2, <3>3 DEF PeerInv
    <2>6. ASSUME BumpAlarm PROVE PeerInv'
      <3>1. active.pc \notin AtWork /\ UNCHANGED <<sqlSnap, opLog, sent, synced, sockets>>
        BY <2>6 DEF BumpAlarm, AtWork
      <3> QED BY <1>0, <3>1, QuietPeers DEF Stored
    <2> QED BY <1>5, <2>1, <2>2, <2>3, <2>4, <2>5, <2>6 DEF Handling
  <1>6. CASE Alarms
    <2>1. ~SqlPutFails
      BY DEF SoundDeployment, SqlPutFails
    <2>2. active.pc \notin AtWork /\ UNCHANGED <<sent, synced, sockets>>
      BY <1>6, <1>i, <2>1 DEF Alarms, AlarmBegin, Arrives, StoreSnapshot, NothingToSave,
                              ClearAppliedOps, ClearFails, Rearm, AtWork
    <2>3. Stored' = Stored /\ sqlSnap \subseteq sqlSnap'
      <3>1. CASE StoreSnapshot
        <4>1. doc # {}
          BY <3>1 DEF StoreSnapshot, IInv, TaskHasDoc, LoadedPCs
        <4> QED BY <3>1, <4>1, ExportIsStored DEF StoreSnapshot, Stored
      <3>2. CASE ClearAppliedOps
        BY <3>2 DEF ClearAppliedOps, IInv, ClearIsCovered, Stored
      <3>3. CASE AlarmBegin \/ NothingToSave \/ ClearFails \/ Rearm
        BY <3>3 DEF AlarmBegin, NothingToSave, ClearFails, Rearm, Stored
      <3> QED BY <1>6, <2>1, <3>1, <3>2, <3>3 DEF Alarms
    <2> QED BY <1>0, <2>2, <2>3, QuietPeers
  <1>7. CASE Crash
    BY <1>7 DEF Crash, PeerInv
  <1>8. CASE Hibernate
    <2>1. active.pc \notin AtWork /\ UNCHANGED <<sqlSnap, opLog, sent, synced, sockets>>
      BY <1>8, <1>i DEF Hibernate
    <2> QED BY <1>0, <2>1, QuietPeers DEF Stored
  <1> QED BY <1>1, <1>2, <1>3, <1>4, <1>5, <1>6, <1>7, <1>8 DEF Next

\* Where a batch that began is broadcast (Loro imports all of it, and the ack
\* reaches its socket), no socket that had its initial sync misses an update: not one stored while it connected, while the
\* object slept, or by a batch whose handler other events wait for.
THEOREM NobodyMissesAnUpdate ==
  ASSUME SoundDeployment, MayFail \cap {"ack", "import"} = {}
  PROVE  Spec => []StoredReachesPeers
  <1>1. Init => PeerInv
    BY DEF Init, PeerInv
  <1>2. IInv /\ PeerInv /\ [Next]_vars => PeerInv'
    <2>1. PeerInv /\ UNCHANGED vars => PeerInv'
      BY DEF PeerInv, Stored, Pending, vars, durable, memory, peers
    <2> QED BY <2>1, PeersKeep
  <1>3. IInv /\ PeerInv => StoredReachesPeers
    <2> SUFFICES ASSUME IInv, PeerInv, GateOpen, NEW c \in synced
                 PROVE  Recoverable \subseteq sent[c] \cup Own(c)
      BY DEF StoredReachesPeers
    <2>1. Pending = {}
      BY IdleTask DEF GateOpen, Pending, AtWork
    <2>2. Recoverable = Stored
      BY DEF Recoverable, Stored, SoundDeployment
    <2> QED BY <2>1, <2>2 DEF PeerInv
  <1> QED BY <1>1, <1>2, <1>3, Invariance, PTL DEF Spec

-----------------------------------------------------------------------------
(* The session implements its ledger.                                      *)

LEMMA StepsOfTheLedger ==
  ASSUME SoundDeployment, IInv, RInv, [Next]_vars
  PROVE  [Ledger!Next]_(Ledger!ledger)
  <1> USE DEF durable, memory, peers
  <1>0. /\ active \in TaskType /\ sockets \subseteq Client
        /\ Recoverable = Stored /\ Recoverable' = Stored'
    BY DEF IInv, TypeOK, Recoverable, Stored, SoundDeployment
  <1>1. ASSUME NEW o \in Op, o \in Writable, Deps[o] \subseteq Stored, Stored' = Stored \cup {o},
               UNCHANGED <<acked, sent>>
        PROVE  Ledger!Next
    <2>1. Ledger!Accept(o)
      BY <1>0, <1>1 DEF Ledger!Accept, Writable
    <2> QED BY <2>1 DEF Ledger!Next
  <1>2. ASSUME NEW to \in SUBSET Client, NEW ops \in SUBSET Stored, Stored' = Stored, acked' = acked,
               sent' = [c \in Client |-> IF c \in to THEN sent[c] \cup ops ELSE sent[c]]
        PROVE  Ledger!Next
    <2>1. Ledger!Show(to, ops)
      BY <1>0, <1>2 DEF Ledger!Show
    <2> QED BY <1>0, <2>1 DEF Ledger!Next
  <1>3. CASE \E t \in parked : InitializeStore(t)
    <2>1. PICK t \in parked : InitializeStore(t)
      BY <1>3
    <2>2. sqlSnap = {} /\ \E i \in Initializer, s \in Seeds : t = Task("init", i, {s}, "check")
      BY <2>1 DEF InitializeStore, IInv, InitWaits
    <2>3. PICK i \in Initializer, s \in Seeds : t = Task("init", i, {s}, "check")
      BY <2>2
    <2>4. s \in Op /\ s \in Writable /\ Deps[s] = {} /\ opLog = {}
      BY <2>2, OpAssumption, DepsAssumption, SeedsAreWritable DEF IInv, EmptyBefore
    <2>5. sqlSnap' = {s} /\ UNCHANGED <<opLog, acked, sent>>
      BY <2>1, <2>3 DEF InitializeStore, Task
    <2> QED BY <1>1, <2>2, <2>4, <2>5 DEF Stored
  <1>4. CASE \E o \in Op : ApplyOp(o)
    <2>1. PICK o \in Op : ApplyOp(o)
      BY <1>4
    <2>2. /\ active.who \in Client /\ o \in active.batch
          /\ \A p \in Deps[o] : p \in active.batch \/ \E c \in Client : p \in sent[c]
          /\ active.batch \ active.todo \subseteq Stored
          /\ Deps[o] \cap active.todo = {}
      BY <2>1 DEF ApplyOp, NextInBatch, IInv, BatchInOrder, Causal
    <2>3. Deps[o] \subseteq Stored
      BY <2>2 DEF IInv, ShownIsStored
    <2>4. o \in Writable
      BY <2>2 DEF RInv, TasksAreGood, GoodTask
    <2>5. Stored' = Stored \cup {o} /\ UNCHANGED <<acked, sent>>
      BY <2>1 DEF ApplyOp, Stored
    <2> QED BY <1>1, <2>3, <2>4, <2>5
  <1>5. CASE InitializeAnnounce \/ ConnectWelcome \/ Reply
    <2>1. doc # {} /\ UNCHANGED <<sqlSnap, opLog, acked>>
      BY <1>5 DEF IInv, TaskHasDoc, LoadedPCs, InitializeAnnounce, ConnectWelcome, Reply
    <2>2. Applied(doc) = Stored /\ Stored' = Stored
      BY <2>1, ExportIsStored DEF Stored
    <2>3. PICK to : Send(to, Stored)
      BY <1>5, <2>2 DEF InitializeAnnounce, ConnectWelcome, Reply
    <2>4. to \cap sockets \in SUBSET Client
      BY <1>0
    <2> QED BY <1>2, <2>1, <2>2, <2>3, <2>4 DEF Send
  <1>6. CASE AckAndBroadcast
    <2>1. /\ active.who \in Client /\ active.batch \subseteq Stored
          /\ active.batch \subseteq Rows(active.who)
      BY <1>6 DEF AckAndBroadcast, IInv, BatchInOrder, RInv, TasksAreGood, GoodTask
    <2>2. /\ UNCHANGED <<sqlSnap, opLog>> /\ acked' = acked \cup active.batch
          /\ Send(sockets \cup {active.who}, active.batch)
      BY <1>6 DEF AckAndBroadcast
    <2>3. Stored' = Stored
      BY <2>2 DEF Stored
    <2>4. (sockets \cup {active.who}) \cap sockets \in SUBSET Client
      BY <1>0
    <2>5. Ledger!Acknowledge(active.who, (sockets \cup {active.who}) \cap sockets, active.batch)
      BY <1>0, <2>1, <2>2, <2>3 DEF Ledger!Acknowledge, Send
    <2> QED BY <1>0, <2>1, <2>4, <2>5 DEF Ledger!Next
  <1>7. ASSUME Stored' = Stored, UNCHANGED <<acked, sent>> PROVE UNCHANGED Ledger!ledger
    BY <1>0, <1>7 DEF Ledger!ledger
  <1>8. CASE StoreSnapshot \/ ClearAppliedOps
    <2>1. CASE StoreSnapshot
      <3>1. doc # {}
        BY <2>1 DEF StoreSnapshot, IInv, TaskHasDoc, LoadedPCs
      <3> QED BY <1>7, <2>1, <3>1, ExportIsStored DEF StoreSnapshot, Stored
    <2>2. CASE ClearAppliedOps
      BY <1>7, <2>2 DEF ClearAppliedOps, IInv, ClearIsCovered, Stored
    <2> QED BY <1>8, <2>1, <2>2
  <1>9. CASE UNCHANGED <<sqlSnap, opLog, acked, sent>>
    BY <1>7, <1>9 DEF Stored
  <1>10. CASE Loading \/ KvDelivery \/ Requests \/ ExistsDelivery \/ Messages
    BY <1>9, <1>10 DEF Loading, LoadCached, LoadFromSql, LoadFromKv, KvDelivery, KvAnswers,
                       KvFails, Requests, ConnectBegin, CloseSocket, InitializeBegin,
                       ExistsBegin, ReadBegin, ExistsDelivery, ExistsEnd, Messages,
                       UpdateBegin, QueryBegin
  <1>11. CASE Initializing
    <2>1. CASE \E t \in parked : InitializeRefused(t)
      BY <1>9, <2>1 DEF InitializeRefused
    <2> QED BY <1>3, <1>5, <1>11, <2>1 DEF Initializing
  <1>12. CASE Handling
    <2>1. CASE ImportFails \/ RecordOp \/ AckFails \/ BumpAlarm
      BY <1>9, <2>1 DEF ImportFails, RecordOp, AckFails, BumpAlarm
    <2>2. ~RecordOpFails /\ \A o \in Op : ~ApplyOpFails(o)
      BY DEF SoundDeployment, RecordOpFails, ApplyOpFails
    <2> QED BY <1>4, <1>5, <1>6, <1>12, <2>1, <2>2 DEF Handling
  <1>13. CASE Alarms
    <2>1. CASE AlarmBegin \/ NothingToSave \/ ClearFails \/ Rearm
      BY <1>9, <2>1 DEF AlarmBegin, NothingToSave, ClearFails, Rearm
    <2>2. ~SqlPutFails
      BY DEF SoundDeployment, SqlPutFails
    <2> QED BY <1>8, <1>13, <2>1, <2>2 DEF Alarms
  <1>14. CASE Crash \/ Hibernate \/ UNCHANGED vars
    BY <1>9, <1>14 DEF Crash, Hibernate, vars
  <1> QED BY <1>5, <1>10, <1>11, <1>12, <1>13, <1>14 DEF Next

\* The session of one document, with its memory, logs, snapshots, alarms and
\* crashes, implements the ledger: what it stores only grows and in causal
\* order, and it shows and acknowledges nothing else.
THEOREM SessionImplementsLedger == ASSUME SoundDeployment PROVE Spec => ImplementsLedger
  <1>1. Init => Ledger!Init
    BY DEF Init, Ledger!Init, Recoverable, SoundDeployment
  <1>2. IInv /\ RInv /\ [Next]_vars => [Ledger!Next]_(Ledger!ledger)
    BY StepsOfTheLedger
  <1> QED BY <1>1, <1>2, Invariance, RecordsAndRights, PTL DEF Spec, ImplementsLedger, Ledger!Spec
=============================================================================
