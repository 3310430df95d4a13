------------------------- MODULE SyncSessionProofs -------------------------
(***************************************************************************)
(* Proofs about SyncSession for every set of updates, clients and requests.*)
(*                                                                         *)
(* SoundDeployment is what they rest on: the document was never kept in    *)
(* Worker KV, initialize requests come one after the other, clients push   *)
(* nothing over a gap, and puts on the object's storage succeed or bring   *)
(* the object down.  The run SyncSessionPutFails shows that the last       *)
(* cannot be spared.                                                       *)
(***************************************************************************)
EXTENDS SyncSession, TLAPS

SoundDeployment ==
    /\ LegacySnap = {}
    /\ \A i, j \in Initializer : i = j
    /\ CausalClients
    /\ "put" \notin MayFail /\ "sql" \notin MayFail

-----------------------------------------------------------------------------
(* The inductive invariant, by parts.                                      *)

Stored == sqlSnap \cup opLog

\* Before initialize there is nothing anywhere.
EmptyBefore ==
    sqlSnap = {} => /\ opLog = {} /\ doc = {} /\ acked = {}
                    /\ \A c \in Client : sent[c] = {}

\* What is stored is causally complete.
StoredClosed == \A o \in Stored : Deps[o] \subseteq Stored

\* A loaded document is exactly what is stored.
DocIsStored == doc # {} => doc = Stored

\* What clients were shown or promised is stored.
ShownIsStored ==
    /\ acked \subseteq Stored
    /\ \A c \in Client : sent[c] \subseteq Stored

\* Past its load, a task works on a loaded document.
LoadedPCs == {"apply", "record", "ack", "reply", "store", "clear", "welcome",
              "announce"}
TaskHasDoc == active.pc \in LoadedPCs => doc # {}

\* The log is cleared only when the snapshot covers it.
ClearIsCovered == active.pc = "clear" => opLog \subseteq sqlSnap

\* A batch being applied: what is done is stored, what is not builds on it.
BatchInOrder ==
    active.pc \in {"apply", "record", "ack"} \/ active.kind = "update" =>
        /\ active.who \in Client
        /\ active.todo \subseteq active.batch
        /\ Causal(active.batch)
        /\ active.pc = "load" => active.todo = active.batch
        /\ active.pc \in {"apply", "record", "ack"} =>
              active.batch \ active.todo \subseteq Stored
        /\ active.pc = "ack" => active.todo = {}

\* While an initialize request waits there is no snapshot and no other request
\* of its caller; once it goes on there is one.
InitWaits ==
    /\ \A t, u \in parked : t.kind = "init" /\ u.kind = "init" /\ t.who = u.who => t = u
    /\ \A t \in parked :
          t.kind = "init" =>
              /\ sqlSnap = {}
              /\ \E i \in Initializer, s \in Seeds : t = Task("init", i, {s}, "check")
    /\ active.kind = "init" => sqlSnap # {}

IInv ==
    /\ TypeOK /\ EmptyBefore /\ StoredClosed /\ DocIsStored /\ ShownIsStored
    /\ TaskHasDoc /\ ClearIsCovered /\ BatchInOrder /\ InitWaits

-----------------------------------------------------------------------------
(* Tasks as records.                                                       *)

Kinds == {"none", "update", "pull", "note", "alarm", "connect", "load",
          "init", "exists"}
PCs   == {"done", "load", "check", "apply", "record", "ack", "reply", "bump",
          "store", "clear", "rearm", "welcome", "announce"}

\* What a new task looks like.
LEMMA NewTask ==
  ASSUME NEW kind \in Kinds, NEW who \in Client \cup Initializer \cup {Nobody},
         NEW batch \in SUBSET Op, NEW pc \in PCs
  PROVE  /\ Task(kind, who, batch, pc) \in TaskType
         /\ Task(kind, who, batch, pc).kind = kind
         /\ Task(kind, who, batch, pc).who = who
         /\ Task(kind, who, batch, pc).batch = batch
         /\ Task(kind, who, batch, pc).todo = batch
         /\ Task(kind, who, batch, pc).pc = pc
  BY DEF Task, TaskType, Kinds, PCs

\* The idle object's task.
LEMMA IdleTask ==
  /\ Idle \in TaskType
  /\ Idle.kind = "none" /\ Idle.pc = "done"
  BY NewTask DEF Idle, Kinds, PCs

\* Moving a task to another step changes nothing else of it.
LEMMA MoveTask ==
  ASSUME NEW t \in TaskType, NEW pc \in PCs
  PROVE  /\ [t EXCEPT !.pc = pc] \in TaskType
         /\ [t EXCEPT !.pc = pc].pc = pc
         /\ [t EXCEPT !.pc = pc].kind = t.kind
         /\ [t EXCEPT !.pc = pc].who = t.who
         /\ [t EXCEPT !.pc = pc].batch = t.batch
         /\ [t EXCEPT !.pc = pc].todo = t.todo
  BY DEF TaskType, PCs

\* Where a task goes after its load.
LEMMA AfterLoadTask ==
  ASSUME NEW t \in TaskType
  PROVE  /\ AfterLoad(t) \in TaskType
         /\ AfterLoad(t).pc \notin {"load", "record", "ack", "clear"}
         /\ AfterLoad(t).kind \in {t.kind, "none"}
         /\ AfterLoad(t).kind = "update" \/ AfterLoad(t).pc = "apply" =>
               /\ t.kind = "update"
               /\ AfterLoad(t) = [t EXCEPT !.pc = "apply"]
  <1>1. CASE t.kind = "update"
    BY <1>1, MoveTask DEF AfterLoad, PCs
  <1>2. CASE t.kind = "pull"
    <2>1. AfterLoad(t) = [t EXCEPT !.pc = "reply"]
      BY <1>2 DEF AfterLoad
    <2>2. /\ AfterLoad(t) \in TaskType
          /\ AfterLoad(t).pc = "reply" /\ AfterLoad(t).kind = t.kind
      BY <2>1 DEF TaskType
    <2>. QED BY <1>2, <2>2
  <1>3. CASE t.kind = "note"
    <2>1. AfterLoad(t) = [t EXCEPT !.pc = "bump"]
      BY <1>3 DEF AfterLoad
    <2>2. /\ AfterLoad(t) \in TaskType
          /\ AfterLoad(t).pc = "bump" /\ AfterLoad(t).kind = t.kind
      BY <2>1 DEF TaskType
    <2>. QED BY <1>3, <2>2
  <1>4. CASE t.kind = "alarm"
    <2>1. AfterLoad(t) = [t EXCEPT !.pc = "store"]
      BY <1>4 DEF AfterLoad
    <2>2. /\ AfterLoad(t) \in TaskType
          /\ AfterLoad(t).pc = "store" /\ AfterLoad(t).kind = t.kind
      BY <2>1 DEF TaskType
    <2>. QED BY <1>4, <2>2
  <1>5. CASE t.kind = "connect"
    <2>1. AfterLoad(t) = [t EXCEPT !.pc = "welcome"]
      BY <1>5 DEF AfterLoad
    <2>2. /\ AfterLoad(t) \in TaskType
          /\ AfterLoad(t).pc = "welcome" /\ AfterLoad(t).kind = t.kind
      BY <2>1 DEF TaskType
    <2>. QED BY <1>5, <2>2
  <1>6. CASE t.kind = "init"
    <2>1. AfterLoad(t) = [t EXCEPT !.pc = "announce"]
      BY <1>6 DEF AfterLoad
    <2>2. /\ AfterLoad(t) \in TaskType
          /\ AfterLoad(t).pc = "announce" /\ AfterLoad(t).kind = t.kind
      BY <2>1 DEF TaskType
    <2>. QED BY <1>6, <2>2
  <1>7. CASE t.kind \in {"none", "load", "exists"}
    <2>1. AfterLoad(t) = Idle
      BY <1>7 DEF AfterLoad
    <2>. QED BY <2>1, IdleTask
  <1>. QED BY <1>1, <1>2, <1>3, <1>4, <1>5, <1>6, <1>7 DEF TaskType

-----------------------------------------------------------------------------
(* The initial state and the runtime.                                      *)

\* Nothing is stored, shown or running in the initial state.
LEMMA InitEstablishes == Init => IInv
  <1>. SUFFICES ASSUME Init PROVE IInv
    OBVIOUS
  <1>. USE DEF Init
  <1>1. TypeOK
    BY IdleTask DEF TypeOK
  <1>2. EmptyBefore /\ StoredClosed /\ DocIsStored /\ ShownIsStored
    BY DEF EmptyBefore, StoredClosed, DocIsStored, ShownIsStored, Stored
  <1>3. TaskHasDoc /\ ClearIsCovered /\ BatchInOrder /\ InitWaits
    BY IdleTask
    DEF TaskHasDoc, ClearIsCovered, BatchInOrder, InitWaits, LoadedPCs
  <1>. QED BY <1>1, <1>2, <1>3 DEF IInv

\* A step that changes no variable keeps the invariant.
LEMMA StutterKeeps == IInv /\ UNCHANGED vars => IInv'
  BY DEF IInv, TypeOK, EmptyBefore, StoredClosed, DocIsStored, ShownIsStored,
      TaskHasDoc, ClearIsCovered, BatchInOrder, Causal, InitWaits, Stored, LoadedPCs,
      vars, durable, memory, peers

\* A crash or an eviction loses memory and tasks, and nothing that is stored.
LEMMA ForgetKeeps == IInv /\ (Crash \/ Hibernate) => IInv'
  BY DEF IInv, TypeOK, EmptyBefore, StoredClosed, DocIsStored, ShownIsStored,
      TaskHasDoc, ClearIsCovered, BatchInOrder, InitWaits, Stored, LoadedPCs,
      Crash, Hibernate, Forget, GateOpen, Idle, Task, TaskType, durable, memory,
      peers
-----------------------------------------------------------------------------
(* Loading.                                                                *)

\* A load builds in memory exactly what is stored; a task past it has a
\* document to work on.
LEMMA LoadingKeeps == SoundDeployment /\ IInv /\ Loading => IInv'
  <1>. SUFFICES ASSUME SoundDeployment, IInv, Loading PROVE IInv'
    OBVIOUS
  <1>. USE DEF IInv, durable, memory, peers
  <1>0. active \in TaskType
    BY DEF TypeOK
  <1>1. CASE LoadCached
    <2>1. TypeOK'
      BY <1>0, <1>1, AfterLoadTask DEF LoadCached, TypeOK
    <2>2. (EmptyBefore /\ StoredClosed /\ DocIsStored /\ ShownIsStored)'
      BY <1>1 DEF LoadCached, EmptyBefore, StoredClosed, DocIsStored,
                  ShownIsStored, Stored
    <2>3. (TaskHasDoc /\ ClearIsCovered /\ InitWaits)'
      BY <1>0, <1>1, AfterLoadTask
      DEF LoadCached, TaskHasDoc, ClearIsCovered, InitWaits
    <2>4. BatchInOrder'
      BY <1>0, <1>1, AfterLoadTask DEF LoadCached, BatchInOrder, Causal, TaskType
    <2>. QED BY <2>1, <2>2, <2>3, <2>4
  <1>2. CASE LoadFromSql
    <2>1. TypeOK'
      BY <1>0, <1>2, AfterLoadTask DEF LoadFromSql, TypeOK
    <2>2. (EmptyBefore /\ StoredClosed /\ DocIsStored /\ ShownIsStored)'
      BY <1>2 DEF LoadFromSql, EmptyBefore, StoredClosed, DocIsStored,
                  ShownIsStored, Stored
    <2>3. (TaskHasDoc /\ ClearIsCovered /\ InitWaits)'
      BY <1>0, <1>2, AfterLoadTask
      DEF LoadFromSql, TaskHasDoc, ClearIsCovered, InitWaits
    <2>4. BatchInOrder'
      BY <1>0, <1>2, AfterLoadTask DEF LoadFromSql, BatchInOrder, Causal, TaskType
    <2>. QED BY <2>1, <2>2, <2>3, <2>4
  <1>3. CASE LoadFromKv
    <2>1. TypeOK'
      BY <1>0, <1>3, IdleTask DEF LoadFromKv, TypeOK
    <2>2. (EmptyBefore /\ StoredClosed /\ DocIsStored /\ ShownIsStored)'
      BY <1>3 DEF LoadFromKv, EmptyBefore, StoredClosed, DocIsStored,
                  ShownIsStored, Stored
    <2>3. (TaskHasDoc /\ ClearIsCovered /\ BatchInOrder)'
      BY <1>3, IdleTask
      DEF LoadFromKv, TaskHasDoc, ClearIsCovered, BatchInOrder, LoadedPCs
    <2>4. InitWaits'
      BY <1>3, IdleTask DEF LoadFromKv, InitWaits
    <2>. QED BY <2>1, <2>2, <2>3, <2>4
  <1>. QED BY <1>1, <1>2, <1>3 DEF Loading

\* Without a legacy snapshot an answer from KV only ends a task.
LEMMA KvDeliveryKeeps == SoundDeployment /\ IInv /\ KvDelivery => IInv'
  <1>. SUFFICES ASSUME SoundDeployment, IInv,
                       NEW t \in parked, KvFails(t)
                PROVE  IInv'
    BY DEF KvDelivery, KvAnswers, SoundDeployment
  <1>. USE DEF IInv, KvFails, durable, memory, peers
  <1>1. TypeOK'
    BY DEF TypeOK
  <1>2. (EmptyBefore /\ StoredClosed /\ DocIsStored /\ ShownIsStored)'
    BY DEF EmptyBefore, StoredClosed, DocIsStored, ShownIsStored, Stored
  <1>3. (TaskHasDoc /\ ClearIsCovered /\ BatchInOrder /\ InitWaits)'
    BY DEF TaskHasDoc, ClearIsCovered, BatchInOrder, Causal, InitWaits, Stored
  <1>. QED BY <1>1, <1>2, <1>3
-----------------------------------------------------------------------------
(* Requests.                                                               *)

\* What a step must show when it touches neither storage nor memory nor what
\* clients were shown.
LEMMA QuietStep ==
  ASSUME IInv, UNCHANGED <<sqlSnap, opLog, doc, acked, sent>>,
         TypeOK',
         active'.pc \notin LoadedPCs, active'.kind # "update",
         active'.kind # "init",
         \A t \in parked' : t.kind = "init" =>
              \/ t \in parked
              \/ /\ sqlSnap = {} /\ \A u \in parked : u.kind = "init" => u.who # t.who
                 /\ \E i \in Initializer, s \in Seeds : t = Task("init", i, {s}, "check"),
         \A t, u \in parked' : t \in parked \/ u \in parked \/ t = u
  PROVE  IInv'
  <1>. USE DEF IInv
  <1>1. (EmptyBefore /\ StoredClosed /\ DocIsStored /\ ShownIsStored)'
    BY DEF EmptyBefore, StoredClosed, DocIsStored, ShownIsStored, Stored
  <1>2. (TaskHasDoc /\ ClearIsCovered /\ BatchInOrder)'
    BY DEF TaskHasDoc, ClearIsCovered, BatchInOrder, LoadedPCs
  <1>3. InitWaits'
    BY DEF InitWaits
  <1>. QED BY <1>1, <1>2, <1>3

\* Connecting, asking to initialize, looking for the document, reading and
\* leaving start tasks; they store nothing.
LEMMA RequestsKeep == SoundDeployment /\ IInv /\ Requests => IInv'
  <1>. SUFFICES ASSUME SoundDeployment, IInv, Requests PROVE IInv'
    OBVIOUS
  <1>. USE DEF durable, memory, peers, LoadedPCs
  <1>0. TypeOK
    BY DEF IInv
  <1>1. ASSUME NEW c \in Client, ConnectBegin(c) PROVE IInv'
    <2>1. /\ active' \in TaskType
          /\ active'.kind = "connect" /\ active'.pc = "load"
      BY <1>1, NewTask DEF ConnectBegin, Kinds, PCs
    <2>2. TypeOK'
      BY <1>0, <1>1, <2>1 DEF ConnectBegin, TypeOK
    <2>. QED BY <1>1, <2>1, <2>2, QuietStep DEF ConnectBegin
  <1>2. ASSUME NEW c \in Client, CloseSocket(c) PROVE IInv'
    <2>1. /\ active' \in TaskType
          /\ active'.kind \in {"none", "load"} /\ active'.pc \in {"done", "load"}
      BY <1>2, NewTask, IdleTask DEF CloseSocket, Kinds, PCs
    <2>2. TypeOK'
      BY <1>0, <1>2, <2>1 DEF CloseSocket, TypeOK
    <2>. QED BY <1>2, <2>1, <2>2, QuietStep DEF CloseSocket
  <1>3. ASSUME NEW i \in Initializer, NEW s \in Seeds, InitializeBegin(i, s) PROVE IInv'
    <2>1. /\ Task("init", i, {s}, "check") \in TaskType
          /\ Task("init", i, {s}, "check").who = i
      BY NewTask, OpAssumption DEF Kinds, PCs
    <2>2. TypeOK'
      BY <1>0, <1>3, <2>1 DEF InitializeBegin, TypeOK
    <2>3. active' = Idle
      BY <1>3 DEF InitializeBegin, Arrives, GateOpen
    <2>4. /\ \A t \in parked' : t \in parked \/ (sqlSnap = {} /\ t = Task("init", i, {s}, "check"))
          /\ \A u \in parked : u.kind = "init" => u.who # i
      BY <1>3 DEF InitializeBegin, MayAsk
    <2>5. \A t \in parked' : t.kind = "init" =>
            \/ t \in parked
            \/ /\ sqlSnap = {} /\ \A u \in parked : u.kind = "init" => u.who # t.who
               /\ \E j \in Initializer, r \in Seeds : t = Task("init", j, {r}, "check")
      BY <2>1, <2>4
    <2>6. \A t, u \in parked' : t \in parked \/ u \in parked \/ t = u
      BY <2>4
    <2>7. UNCHANGED <<sqlSnap, opLog, doc, acked, sent>>
      BY <1>3 DEF InitializeBegin
    <2>. QED BY <2>2, <2>3, <2>5, <2>6, <2>7, IdleTask, QuietStep
  <1>4. ASSUME ExistsBegin PROVE IInv'
    <2>1. /\ Task("exists", Nobody, {}, "check") \in TaskType
          /\ Task("exists", Nobody, {}, "check").kind = "exists"
      BY NewTask DEF Kinds, PCs
    <2>2. TypeOK'
      BY <1>0, <1>4, <2>1 DEF ExistsBegin, TypeOK
    <2>3. active' = Idle
      BY <1>4 DEF ExistsBegin, Arrives, GateOpen
    <2>. QED BY <1>4, <2>1, <2>2, <2>3, IdleTask, QuietStep DEF ExistsBegin
  <1>5. ASSUME ReadBegin PROVE IInv'
    <2>1. /\ active' \in TaskType
          /\ active'.kind = "load" /\ active'.pc = "load"
      BY <1>5, NewTask DEF ReadBegin, Kinds, PCs
    <2>2. TypeOK'
      BY <1>0, <1>5, <2>1 DEF ReadBegin, TypeOK
    <2>. QED BY <1>5, <2>1, <2>2, QuietStep DEF ReadBegin
  <1>. QED BY <1>1, <1>2, <1>3, <1>4, <1>5 DEF Requests

\* The answer to exists() changes which SessionStorage is used, no more.
LEMMA ExistsDeliveryKeeps == SoundDeployment /\ IInv /\ ExistsDelivery => IInv'
  <1>. SUFFICES ASSUME IInv, NEW t \in parked, ExistsEnd(t) PROVE IInv'
    BY DEF ExistsDelivery
  <1>. USE DEF ExistsEnd, peers
  <1>1. active' = Idle
    BY DEF GateOpen
  <1>2. docId' \in BOOLEAN /\ keys' \in SUBSET Op
    <2>1. docId \in BOOLEAN /\ keys \in SUBSET Op
      BY DEF IInv, TypeOK
    <2>2. CASE docId' = TRUE /\ keys' = {}
      BY <2>2
    <2>3. CASE UNCHANGED <<docId, keys>>
      BY <2>1, <2>3
    <2>. QED BY <2>2, <2>3
  <1>3. TypeOK'
    BY <1>1, <1>2, IdleTask DEF IInv, TypeOK
  <1>. QED BY <1>1, <1>3, IdleTask, QuietStep DEF LoadedPCs

-----------------------------------------------------------------------------
(* Initializing, and the first thing a socket is sent.                     *)

\* Everything stored is applied, so an export is what is stored.
LEMMA ExportIsStored ==
  ASSUME IInv, doc # {}
  PROVE  Applied(doc) = Stored
  BY DEF IInv, DocIsStored, StoredClosed, Applied

\* A step that only sends what is stored to some clients.
LEMMA SendStep ==
  ASSUME IInv, TypeOK', UNCHANGED <<sqlSnap, opLog, doc, parked>>,
         NEW ops \in SUBSET Stored, NEW to,
         Send(to, ops), sqlSnap # {},
         acked' \subseteq Stored,
         active'.pc \notin LoadedPCs, active'.pc # "load", active'.kind # "init",
         active'.kind = "update" =>
            active.kind = "update" /\ \E pc \in PCs : active' = [active EXCEPT !.pc = pc]
  PROVE  IInv'
  <1>. USE DEF IInv
  <1>0. \A c \in Client : sent[c] \subseteq sent'[c] /\ sent'[c] \subseteq Stored
    BY DEF Send, ShownIsStored, TypeOK
  <1>1. (EmptyBefore /\ StoredClosed /\ DocIsStored /\ ShownIsStored)'
    BY <1>0 DEF EmptyBefore, StoredClosed, DocIsStored, ShownIsStored, Stored
  <1>2. (TaskHasDoc /\ ClearIsCovered /\ InitWaits)'
    BY DEF TaskHasDoc, ClearIsCovered, InitWaits, LoadedPCs
  <1>3. BatchInOrder'
    <2>1. CASE active'.kind # "update"
      BY <2>1 DEF BatchInOrder, LoadedPCs
    <2>2. CASE active'.kind = "update"
      <3>1. active'.batch = active.batch /\ active'.todo = active.todo
            /\ active'.who = active.who
        BY <2>2 DEF TypeOK, TaskType
      <3>. QED BY <1>0, <2>2, <3>1 DEF BatchInOrder, Causal, LoadedPCs
    <2>. QED BY <2>1, <2>2
  <1>. QED BY <1>1, <1>2, <1>3

\* A loaded document means the document was initialized.
LEMMA DocMeansSnapshot ==
  ASSUME IInv, doc # {}
  PROVE  sqlSnap # {}
  BY DEF IInv, EmptyBefore

\* The initial sync is an export of what is stored.
LEMMA WelcomeKeeps == IInv /\ (ConnectWelcome \/ InitializeAnnounce) => IInv'
  <1>. SUFFICES ASSUME IInv, ConnectWelcome \/ InitializeAnnounce PROVE IInv'
    OBVIOUS
  <1>. USE DEF durable, memory
  <1>1. doc # {}
    BY DEF IInv, TaskHasDoc, LoadedPCs, ConnectWelcome, InitializeAnnounce
  <1>2. Applied(doc) = Stored /\ sqlSnap # {}
    BY <1>1, ExportIsStored, DocMeansSnapshot
  <1>3. active' = Idle /\ \E to : Send(to, Stored)
    BY <1>2 DEF ConnectWelcome, InitializeAnnounce
  <1>4. TypeOK'
    BY <1>2, <1>3, IdleTask
    DEF IInv, TypeOK, TaskType, ConnectWelcome, InitializeAnnounce, Send, Stored
  <1>5. acked' \subseteq Stored /\ UNCHANGED <<sqlSnap, opLog, doc, parked>>
    BY DEF IInv, ShownIsStored, ConnectWelcome, InitializeAnnounce
  <1>. QED BY <1>2, <1>3, <1>4, <1>5, IdleTask, SendStep DEF LoadedPCs

\* The one initialize request that is let through finds nothing stored.
LEMMA InitializingKeeps == SoundDeployment /\ IInv /\ Initializing => IInv'
  <1>. SUFFICES ASSUME SoundDeployment, IInv, Initializing PROVE IInv'
    OBVIOUS
  <1>. USE DEF durable, memory, peers
  <1>1. ASSUME NEW t \in parked, InitializeRefused(t) PROVE IInv'
    <2>1. active' = Idle
      BY <1>1 DEF InitializeRefused, GateOpen
    <2>2. TypeOK'
      BY <1>1 DEF InitializeRefused, IInv, TypeOK
    <2>. QED BY <1>1, <2>1, <2>2, IdleTask, QuietStep DEF InitializeRefused, LoadedPCs
  <1>2. ASSUME NEW t \in parked, InitializeStore(t) PROVE IInv'
    <2>. USE DEF InitializeStore
    <2>0. t \in TaskType /\ t.kind = "init" /\ sqlSnap = {}
      BY <1>2 DEF IInv, TypeOK, InitWaits
    <2>1. PICK i \in Initializer, s \in Seeds : t = Task("init", i, {s}, "check")
      BY <1>2, <2>0 DEF IInv, InitWaits
    <2>2. t.batch = {s} /\ sqlSnap' = {s} /\ s \in Op
      BY <1>2, <2>1, OpAssumption DEF Task
    <2>3. opLog' = {} /\ doc' = {} /\ acked' = {} /\ \A c \in Client : sent'[c] = {}
      BY <1>2, <2>0 DEF IInv, EmptyBefore
    <2>4. active' \in TaskType /\ active'.kind = "init" /\ active'.pc = "load"
      BY <1>2, <2>0 DEF TaskType
    <2>5. TypeOK'
      BY <1>2, <2>2, <2>4 DEF IInv, TypeOK
    <2>6. (EmptyBefore /\ StoredClosed /\ DocIsStored /\ ShownIsStored)'
      BY <2>2, <2>3, DepsAssumption
      DEF EmptyBefore, StoredClosed, DocIsStored, ShownIsStored, Stored
    <2>7. (TaskHasDoc /\ ClearIsCovered /\ BatchInOrder)'
      BY <2>4 DEF TaskHasDoc, ClearIsCovered, BatchInOrder, LoadedPCs
    <2>8. \A u \in parked' : u.kind # "init"
      <3>. SUFFICES ASSUME NEW u \in parked', u.kind = "init" PROVE FALSE
        OBVIOUS
      <3>1. u \in parked /\ u # t
        BY <1>2
      <3>2. PICK j \in Initializer, r \in Seeds : u = Task("init", j, {r}, "check")
        BY <3>1 DEF IInv, InitWaits
      <3>3. u.who = j /\ t.who = i /\ i = j
        BY <2>1, <3>2 DEF Task, SoundDeployment
      <3>. QED BY <2>0, <3>1, <3>3 DEF IInv, InitWaits
    <2>9. InitWaits'
      BY <2>2, <2>8 DEF InitWaits
    <2>. QED BY <2>5, <2>6, <2>7, <2>9 DEF IInv
  <1>. QED BY <1>1, <1>2, WelcomeKeeps DEF Initializing

-----------------------------------------------------------------------------
(* Messages and their handling.                                            *)

\* What a client pushes builds on what was sent to some client and on itself.
LEMMA MessagesKeep == SoundDeployment /\ IInv /\ Messages => IInv'
  <1>. SUFFICES ASSUME SoundDeployment, IInv, Messages PROVE IInv'
    OBVIOUS
  <1>. USE DEF durable, memory, peers
  <1>1. ASSUME NEW c \in Client, NEW batch \in SUBSET Rows(c), UpdateBegin(c, batch),
               c \in ReadOnly
        PROVE  IInv'
    <2>1. /\ active' \in TaskType
          /\ active'.kind = "note" /\ active'.pc = "load"
      BY <1>1, NewTask DEF UpdateBegin, Kinds, PCs
    <2>2. TypeOK'
      BY <1>1, <2>1 DEF IInv, UpdateBegin, TypeOK
    <2>. QED BY <1>1, <2>1, <2>2, QuietStep DEF UpdateBegin, LoadedPCs
  <1>2. ASSUME NEW c \in Client, NEW batch \in SUBSET Rows(c), UpdateBegin(c, batch),
               c \notin ReadOnly
        PROVE  IInv'
    <2>0. batch \in SUBSET Op
      BY DEF Own, Rows
    <2>1. /\ active' \in TaskType
          /\ active'.kind = "update" /\ active'.pc = "load" /\ active'.who = c
          /\ active'.batch = batch /\ active'.todo = batch
      BY <1>2, <2>0, NewTask DEF UpdateBegin, Kinds, PCs
    <2>2. UNCHANGED <<sqlSnap, opLog, doc, acked, sent, parked>>
      BY <1>2 DEF UpdateBegin
    <2>3. TypeOK'
      BY <1>2, <2>1 DEF IInv, UpdateBegin, TypeOK
    <2>4. (EmptyBefore /\ StoredClosed /\ DocIsStored /\ ShownIsStored)'
      BY <2>2 DEF IInv, EmptyBefore, StoredClosed, DocIsStored, ShownIsStored, Stored
    <2>5. (TaskHasDoc /\ ClearIsCovered /\ InitWaits)'
      BY <2>1, <2>2 DEF IInv, TaskHasDoc, ClearIsCovered, InitWaits, LoadedPCs
    <2>6. Causal(batch)
      BY <1>2 DEF UpdateBegin, MayPush, SoundDeployment
    <2>7. BatchInOrder'
      BY <2>1, <2>2, <2>6 DEF BatchInOrder, Causal
    <2>. QED BY <2>3, <2>4, <2>5, <2>7 DEF IInv
  <1>3. ASSUME NEW c \in Client, NEW kind \in {"pull", "note"}, QueryBegin(c, kind)
        PROVE  IInv'
    <2>1. /\ active' \in TaskType
          /\ active'.kind = kind /\ active'.pc = "load"
      BY <1>3, NewTask DEF QueryBegin, Kinds, PCs
    <2>2. TypeOK'
      BY <1>3, <2>1 DEF IInv, QueryBegin, TypeOK
    <2>. QED BY <1>3, <2>1, <2>2, QuietStep DEF QueryBegin, LoadedPCs
  <1>. QED BY <1>1, <1>2, <1>3 DEF Messages

\* An update is stored only after everything it depends on.
LEMMA ApplyOpKeeps ==
  ASSUME IInv, NEW o \in Op, ApplyOp(o)
  PROVE  IInv'
  <1>. USE DEF ApplyOp, peers
  <1>0. active \in TaskType /\ doc # {} /\ sqlSnap # {}
    BY DocMeansSnapshot DEF IInv, TypeOK, TaskHasDoc, LoadedPCs
  <1>1. /\ active' \in TaskType /\ active'.pc = "record"
        /\ active'.kind = active.kind /\ active'.who = active.who
        /\ active'.batch = active.batch /\ active'.todo = active.todo \ {o}
    BY <1>0 DEF TaskType
  <1>2. Stored' = Stored \cup {o} /\ doc' = Stored'
    BY <1>0 DEF IInv, DocIsStored, Stored
  <1>3. TypeOK'
    <2>1. save' \in {"never", "dirty", "clean"}
      BY DEF Stamped
    <2>. QED BY <1>1, <2>1 DEF IInv, TypeOK
  <1>4. Deps[o] \subseteq Stored
    <2>1. /\ o \in active.batch /\ Causal(active.batch)
          /\ active.batch \ active.todo \subseteq Stored
      BY DEF IInv, BatchInOrder, NextInBatch
    <2>2. \A c \in Client : sent[c] \subseteq Stored
      BY DEF IInv, ShownIsStored
    <2>3. Deps[o] \in SUBSET Op
      BY DepsAssumption
    <2>. QED BY <2>1, <2>2, <2>3 DEF NextInBatch, Causal
  <1>5. StoredClosed'
    BY <1>2, <1>4 DEF IInv, StoredClosed
  <1>6. (EmptyBefore /\ DocIsStored /\ ShownIsStored)'
    BY <1>0, <1>2 DEF IInv, EmptyBefore, DocIsStored, ShownIsStored
  <1>7. (TaskHasDoc /\ ClearIsCovered /\ InitWaits)'
    BY <1>0, <1>1 DEF IInv, TaskHasDoc, ClearIsCovered, InitWaits
  <1>8. BatchInOrder'
    BY <1>1, <1>2 DEF IInv, BatchInOrder, Causal, NextInBatch
  <1>. QED BY <1>3, <1>5, <1>6, <1>7, <1>8 DEF IInv

\* Recording an update in the other log lets the batch go on.
LEMMA RecordOpKeeps == IInv /\ RecordOp => IInv'
  <1>. SUFFICES ASSUME IInv, RecordOp PROVE IInv'
    OBVIOUS
  <1>. USE DEF RecordOp, memory, peers
  <1>0. active \in TaskType /\ doc # {}
    BY DEF IInv, TypeOK, TaskHasDoc, LoadedPCs
  <1>1. /\ active' \in TaskType
        /\ active'.pc = IF active.todo = {} THEN "ack" ELSE "apply"
        /\ active'.kind = active.kind /\ active'.who = active.who
        /\ active'.batch = active.batch /\ active'.todo = active.todo
    BY <1>0 DEF TaskType
  <1>2. allLog' \in SUBSET Op
    BY <1>0 DEF IInv, TypeOK, TaskType
  <1>3. TypeOK'
    BY <1>1, <1>2 DEF IInv, TypeOK
  <1>4. (EmptyBefore /\ StoredClosed /\ DocIsStored /\ ShownIsStored)'
    BY DEF IInv, EmptyBefore, StoredClosed, DocIsStored, ShownIsStored, Stored
  <1>5. (TaskHasDoc /\ ClearIsCovered /\ InitWaits)'
    BY <1>0, <1>1 DEF IInv, TaskHasDoc, ClearIsCovered, InitWaits
  <1>6. BatchInOrder'
    BY <1>1 DEF IInv, BatchInOrder, Causal, Stored
  <1>. QED BY <1>3, <1>4, <1>5, <1>6 DEF IInv

\* An ack and a broadcast name updates that are stored.
LEMMA AckKeeps == IInv /\ AckAndBroadcast => IInv'
  <1>. SUFFICES ASSUME IInv, AckAndBroadcast PROVE IInv'
    OBVIOUS
  <1>. USE DEF AckAndBroadcast, durable, memory
  <1>1. active \in TaskType /\ doc # {} /\ sqlSnap # {}
    BY DocMeansSnapshot DEF IInv, TypeOK, TaskHasDoc, LoadedPCs
  <1>2. active.batch \subseteq Stored
    BY DEF IInv, BatchInOrder
  <1>3. /\ active' \in TaskType /\ active'.pc = "bump"
        /\ active'.kind = active.kind /\ active.batch \in SUBSET Op
    BY <1>1 DEF TaskType
  <1>4. TypeOK'
    BY <1>3 DEF IInv, TypeOK, Send
  <1>5. acked' \subseteq Stored
    BY <1>2 DEF IInv, ShownIsStored
  <1>6. Stored' = Stored /\ UNCHANGED <<sqlSnap, opLog, doc, parked>>
    BY DEF Stored
  <1>7. \A c \in Client : sent[c] \subseteq sent'[c] /\ sent'[c] \subseteq Stored
    BY <1>2 DEF Send, IInv, ShownIsStored, TypeOK
  <1>8. (EmptyBefore /\ StoredClosed /\ DocIsStored /\ ShownIsStored)'
    BY <1>1, <1>5, <1>6, <1>7
    DEF IInv, EmptyBefore, StoredClosed, DocIsStored, ShownIsStored
  <1>9. (TaskHasDoc /\ ClearIsCovered /\ InitWaits)'
    BY <1>1, <1>3, <1>6 DEF IInv, TaskHasDoc, ClearIsCovered, InitWaits
  <1>10. BatchInOrder'
    <2>1. /\ active'.batch = active.batch /\ active'.todo = active.todo
          /\ active'.who = active.who
      BY <1>1 DEF TaskType
    <2>. QED BY <1>3, <1>7, <2>1 DEF IInv, BatchInOrder, Causal
  <1>. QED BY <1>4, <1>8, <1>9, <1>10 DEF IInv

\* A catch-up answers with an export of what is stored.
LEMMA ReplyKeeps == IInv /\ Reply => IInv'
  <1>. SUFFICES ASSUME IInv, Reply PROVE IInv'
    OBVIOUS
  <1>. USE DEF Reply, durable, memory
  <1>1. active \in TaskType /\ doc # {}
    BY DEF IInv, TypeOK, TaskHasDoc, LoadedPCs
  <1>2. Applied(doc) = Stored /\ sqlSnap # {}
    BY <1>1, ExportIsStored, DocMeansSnapshot
  <1>3. /\ active' \in TaskType /\ active'.pc = "bump"
        /\ active'.kind = active.kind /\ active'.who = active.who
        /\ active'.batch = active.batch /\ active'.todo = active.todo
    BY <1>1 DEF TaskType
  <1>4. Stored \in SUBSET Op
    BY DEF IInv, TypeOK, Stored
  <1>5. TypeOK'
    BY <1>2, <1>3, <1>4 DEF IInv, TypeOK, Send
  <1>6. \A c \in Client : sent[c] \subseteq sent'[c] /\ sent'[c] \subseteq Stored
    BY <1>2 DEF Send, IInv, ShownIsStored, TypeOK
  <1>7. Stored' = Stored /\ UNCHANGED <<sqlSnap, opLog, doc, parked, acked>>
    BY DEF Stored
  <1>8. (EmptyBefore /\ StoredClosed /\ DocIsStored /\ ShownIsStored)'
    BY <1>2, <1>6, <1>7
    DEF IInv, EmptyBefore, StoredClosed, DocIsStored, ShownIsStored
  <1>9. (TaskHasDoc /\ ClearIsCovered /\ InitWaits)'
    BY <1>1, <1>3, <1>7 DEF IInv, TaskHasDoc, ClearIsCovered, InitWaits
  <1>10. BatchInOrder'
    BY <1>3, <1>6 DEF IInv, BatchInOrder, Causal
  <1>. QED BY <1>5, <1>8, <1>9, <1>10 DEF IInv

\* Every step of a message handler keeps the invariant.
LEMMA HandlingKeeps == SoundDeployment /\ IInv /\ Handling => IInv'
  <1>. SUFFICES ASSUME SoundDeployment, IInv, Handling PROVE IInv'
    OBVIOUS
  <1>1. ~RecordOpFails /\ \A o \in Op : ~ApplyOpFails(o)
    BY DEF SoundDeployment, RecordOpFails, ApplyOpFails
  <1>2. ASSUME AckFails \/ ImportFails PROVE IInv'
    <2>1. /\ active' = Idle /\ UNCHANGED <<durable, memory, parked, peers, waits>>
      BY <1>2 DEF AckFails, ImportFails
    <2>2. TypeOK'
      BY <2>1, IdleTask DEF IInv, TypeOK, durable, memory, peers
    <2>. QED BY <2>1, <2>2, IdleTask, QuietStep DEF LoadedPCs, durable, memory, peers
  <1>3. ASSUME BumpAlarm PROVE IInv'
    <2>1. TypeOK'
      BY <1>3, IdleTask DEF BumpAlarm, Schedule, IInv, TypeOK, memory, peers
    <2>. QED BY <1>3, <2>1, IdleTask, QuietStep
             DEF BumpAlarm, LoadedPCs, memory, peers
  <1>. QED BY <1>1, <1>2, <1>3, ApplyOpKeeps, RecordOpKeeps, AckKeeps, ReplyKeeps
           DEF Handling

-----------------------------------------------------------------------------
(* The alarm.                                                              *)

\* The snapshot saved is what is stored, so that the log it replaces may go.
LEMMA StoreSnapshotKeeps == IInv /\ StoreSnapshot => IInv'
  <1>. SUFFICES ASSUME IInv, StoreSnapshot PROVE IInv'
    OBVIOUS
  <1>. USE DEF StoreSnapshot, memory, peers
  <1>1. active \in TaskType /\ doc # {}
    BY DEF IInv, TypeOK, TaskHasDoc, LoadedPCs
  <1>2. sqlSnap' = Stored /\ Stored' = Stored /\ sqlSnap # {}
    BY <1>1, ExportIsStored, DocMeansSnapshot DEF Stored
  <1>3. /\ active' \in TaskType /\ active'.pc = "clear"
        /\ active'.kind = active.kind /\ active'.who = active.who
        /\ active'.batch = active.batch /\ active'.todo = active.todo
    BY <1>1 DEF TaskType
  <1>4. Stored \in SUBSET Op /\ sqlSnap \subseteq Stored /\ opLog \subseteq Stored
    BY DEF IInv, TypeOK, Stored
  <1>5. TypeOK'
    BY <1>2, <1>3, <1>4 DEF IInv, TypeOK
  <1>6. (EmptyBefore /\ StoredClosed /\ DocIsStored /\ ShownIsStored)'
    BY <1>2, <1>4 DEF IInv, EmptyBefore, StoredClosed, DocIsStored, ShownIsStored
  <1>7. (TaskHasDoc /\ ClearIsCovered)'
    BY <1>1, <1>2, <1>3, <1>4 DEF TaskHasDoc, ClearIsCovered
  <1>8. InitWaits'
    BY <1>2, <1>3, <1>4 DEF IInv, InitWaits
  <1>9. BatchInOrder'
    BY <1>2, <1>3 DEF IInv, BatchInOrder, Causal
  <1>. QED BY <1>2, <1>4, <1>5, <1>6, <1>7, <1>8, <1>9 DEF IInv

\* The log entries that go are in the snapshot.
LEMMA ClearAppliedOpsKeeps == IInv /\ ClearAppliedOps => IInv'
  <1>. SUFFICES ASSUME IInv, ClearAppliedOps PROVE IInv'
    OBVIOUS
  <1>. USE DEF ClearAppliedOps, peers
  <1>1. active \in TaskType /\ doc # {} /\ sqlSnap # {}
    BY DocMeansSnapshot DEF IInv, TypeOK, TaskHasDoc, LoadedPCs
  <1>2. opLog \subseteq sqlSnap
    BY DEF IInv, ClearIsCovered
  <1>3. Stored' = Stored
    BY <1>2 DEF Stored
  <1>4. /\ active' \in TaskType /\ active'.pc = "rearm"
        /\ active'.kind = active.kind /\ active'.who = active.who
        /\ active'.batch = active.batch /\ active'.todo = active.todo
    BY <1>1 DEF TaskType
  <1>5. TypeOK'
    BY <1>4 DEF IInv, TypeOK
  <1>6. (EmptyBefore /\ StoredClosed /\ DocIsStored /\ ShownIsStored)'
    BY <1>1, <1>3 DEF IInv, EmptyBefore, StoredClosed, DocIsStored, ShownIsStored
  <1>7. (TaskHasDoc /\ ClearIsCovered /\ InitWaits)'
    BY <1>1, <1>4 DEF IInv, TaskHasDoc, ClearIsCovered, InitWaits
  <1>8. BatchInOrder'
    BY <1>3, <1>4 DEF IInv, BatchInOrder, Causal
  <1>. QED BY <1>5, <1>6, <1>7, <1>8 DEF IInv

\* Every step of the alarm keeps the invariant.
LEMMA AlarmsKeep == SoundDeployment /\ IInv /\ Alarms => IInv'
  <1>. SUFFICES ASSUME SoundDeployment, IInv, Alarms PROVE IInv'
    OBVIOUS
  <1>. USE DEF durable, memory, peers
  <1>0. TypeOK /\ active \in TaskType
    BY DEF IInv, TypeOK
  <1>1. ~SqlPutFails
    BY DEF SoundDeployment, SqlPutFails
  <1>2. ASSUME AlarmBegin PROVE IInv'
    <2>1. /\ active' \in TaskType
          /\ active'.kind = "alarm" /\ active'.pc = "load"
      BY <1>2, NewTask DEF AlarmBegin, Kinds, PCs
    <2>2. TypeOK'
      BY <1>0, <1>2, <2>1 DEF AlarmBegin, TypeOK
    <2>. QED BY <1>2, <2>1, <2>2, QuietStep DEF AlarmBegin, LoadedPCs
  <1>3. ASSUME NothingToSave PROVE IInv'
    <2>1. /\ active' \in TaskType /\ active'.pc = "rearm"
          /\ active'.kind = active.kind /\ active'.who = active.who
          /\ active'.batch = active.batch /\ active'.todo = active.todo
      BY <1>0, <1>3 DEF NothingToSave, TaskType
    <2>2. UNCHANGED <<sqlSnap, opLog, doc, acked, sent, parked>>
      BY <1>3 DEF NothingToSave
    <2>3. TypeOK'
      BY <1>0, <1>3, <2>1 DEF NothingToSave, TypeOK
    <2>4. (EmptyBefore /\ StoredClosed /\ DocIsStored /\ ShownIsStored)'
      BY <2>2 DEF IInv, EmptyBefore, StoredClosed, DocIsStored, ShownIsStored, Stored
    <2>5. (TaskHasDoc /\ ClearIsCovered /\ InitWaits)'
      BY <2>1, <2>2 DEF IInv, TaskHasDoc, ClearIsCovered, InitWaits, LoadedPCs
    <2>6. BatchInOrder'
      BY <2>1, <2>2 DEF IInv, BatchInOrder, Causal
    <2>. QED BY <2>3, <2>4, <2>5, <2>6 DEF IInv
  <1>4. ASSUME ClearFails PROVE IInv'
    <2>1. TypeOK'
      BY <1>0, <1>4, IdleTask DEF ClearFails, TypeOK
    <2>. QED BY <1>4, <2>1, IdleTask, QuietStep DEF ClearFails, LoadedPCs
  <1>5. ASSUME Rearm PROVE IInv'
    <2>1. alarm' \in BOOLEAN /\ waits' \in SUBSET TaskType
      BY <1>0, <1>5 DEF Rearm, Schedule, TypeOK
    <2>2. TypeOK'
      BY <1>0, <1>5, <2>1, IdleTask DEF Rearm, TypeOK
    <2>. QED BY <1>5, <2>2, IdleTask, QuietStep DEF Rearm, LoadedPCs
  <1>. QED BY <1>1, <1>2, <1>3, <1>4, <1>5, StoreSnapshotKeeps, ClearAppliedOpsKeeps
           DEF Alarms

-----------------------------------------------------------------------------
(* The theorems.                                                           *)

\* Every step of the session keeps the invariant.
LEMMA NextKeeps == SoundDeployment /\ IInv /\ [Next]_vars => IInv'
  BY LoadingKeeps, KvDeliveryKeeps, RequestsKeep, InitializingKeeps,
     ExistsDeliveryKeeps, WelcomeKeeps, MessagesKeep, HandlingKeeps, AlarmsKeep,
     ForgetKeeps, StutterKeeps
  DEF Next

\* The invariant holds in every reachable state of a sound deployment.
THEOREM Invariance == ASSUME SoundDeployment PROVE Spec => []IInv
  BY InitEstablishes, NextKeeps, PTL DEF Spec

\* An acknowledged update survives every crash, eviction and compaction
\* (RemoteUpdateAck, sent only once apply_op stored the whole batch), where
\* clients push nothing over a gap, initialize is called by one caller that
\* waits for its answers, nothing is left in Worker KV and puts succeed.
THEOREM AcksAreDurable == ASSUME SoundDeployment PROVE Spec => []AckedDurable
  <1>1. IInv => AckedDurable
    BY DEF IInv, ShownIsStored, Stored, AckedDurable, Recoverable, EmptyBefore
  <1>. QED BY <1>1, Invariance, PTL

\* In the same deployment, causal clients included, no client was ever shown an
\* update that a restart could take back.
THEOREM ShownIsDurable == ASSUME SoundDeployment PROVE Spec => []SentIsRecoverable
  <1>1. IInv => SentIsRecoverable
    BY DEF IInv, ShownIsStored, Stored, EmptyBefore, Recoverable, SentIsRecoverable
  <1>. QED BY <1>1, Invariance, PTL
=============================================================================
