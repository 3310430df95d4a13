---------------------------- MODULE SyncSession ----------------------------
(***************************************************************************)
(* The document session of the sync service: one Cloudflare Durable Object *)
(* per document (services/sync-service/src/durable_object.rs) with its     *)
(* message handler (websocket.rs), its in-memory Loro document (state.rs)  *)
(* and its storage (storage.rs, storage/backends).                         *)
(*                                                                         *)
(* A handler is a task that advances from one await to the next.  The      *)
(* runtime keeps the object's input gate shut while an operation on the    *)
(* object's own storage is outstanding, so no other event or completion is *)
(* delivered then: the task that holds the gate is `active'.  Awaiting     *)
(* anything else (Worker KV, a request body) opens the gate and the task   *)
(* is `parked' until that answer is delivered.  The object may crash       *)
(* between any two steps, and is evicted from memory when it is idle.      *)
(*                                                                         *)
(* An update is a member of Op; a snapshot, a document and the operation   *)
(* log are sets of updates.  Loro holds an imported update back until      *)
(* everything it depends on is there, and exports only what it applied.    *)
(***************************************************************************)
EXTENDS Naturals, FiniteSets

CONSTANTS
    Op,             \* updates, the seeds included
    Seeds,          \* contents that POST /initialize requests carry
    Client,         \* editors, each with at most one socket to the object
    ReadOnly,       \* clients whose token gives no right to edit
    Deps,           \* Deps[o]: the updates o causally depends on
    Author,         \* Author[o]: the client that made update o
    Initializer,    \* callers of POST /initialize, each with one request at a time
    LegacySnap,     \* the snapshot left in Worker KV ({} if there is none)
    CausalClients,  \* whether clients only push what leaves no gap, see Causal
    MayFail,        \* what may fail: "import", "put", "delete", "sql", "ack"
    MaxParked,      \* bound on the tasks parked when another begins
    Nobody          \* stands for the runtime where a client is expected

ASSUME OpAssumption ==
    /\ Seeds \subseteq Op /\ LegacySnap \subseteq Seeds
    /\ ReadOnly \subseteq Client
    /\ Author \in [Op \ Seeds -> Client]

\* Dependencies are transitive, as version vectors are, and acyclic; every
\* update is made on top of a document, which some seed began.
ASSUME DepsAssumption ==
    /\ Deps \in [Op -> SUBSET Op]
    /\ \A s \in Seeds : Deps[s] = {}
    /\ \A o \in Op \ Seeds : Deps[o] \cap Seeds # {}
    /\ \A o \in Op : o \notin Deps[o]
    /\ \A o \in Op : \A p \in Deps[o] : Deps[p] \subseteq Deps[o]

ASSUME RuntimeAssumption ==
    /\ MayFail \subseteq {"import", "put", "delete", "sql", "ack"}
    /\ MaxParked \in Nat /\ CausalClients \in BOOLEAN
    /\ Nobody \notin Client

VARIABLES
    sqlSnap,   \* durable: the snapshot in the object's SQL table ({}: none)
    opLog,     \* durable: updates under the pending-operation prefix "o/"
    allLog,    \* durable: updates under "a/", kept for good
    docId,     \* durable: whether DOCUMENT_ID has been written
    alarm,     \* durable: whether an alarm is scheduled
    doc,       \* memory: updates imported into document_state ({}: not loaded)
    save,      \* memory: last_update against last_export, see ShouldSave
    keys,      \* memory: applied_keys of the current SessionStorage
    active,    \* the task that holds the input gate
    parked,    \* the tasks that wait for something outside the object
    sockets,   \* clients with an accepted socket
    synced,    \* those whose socket was sent an initial sync
    sent,      \* sent[c]: updates the object ever sent to, or acked for, c
    acked,     \* updates acknowledged to a client that pushed them
    waits      \* KV answers awaited since before the alarm was scheduled

durable  == <<sqlSnap, opLog, allLog, docId, alarm>>
memory   == <<doc, save, keys>>
peers    == <<sockets, synced, sent, acked>>
vars     == <<durable, memory, active, parked, peers, waits>>

Own(c) == {o \in Op \ Seeds : Author[o] = c}

\* Loro: what of the imported updates is applied, visible and exported.
Applied(ops) == {o \in ops : Deps[o] \subseteq ops}

Task(kind, who, batch, pc) ==
    [kind |-> kind, who |-> who, batch |-> batch, todo |-> batch, pc |-> pc]

Idle == Task("none", Nobody, {}, "done")

TaskType ==
    [kind : {"none", "update", "pull", "note", "alarm", "connect", "load",
             "init", "exists"},
     who  : Client \cup Initializer \cup {Nobody},
     batch : SUBSET Op, todo : SUBSET Op,
     pc   : {"done", "load", "check", "apply", "record", "ack", "reply", "bump",
             "store", "clear", "rearm", "welcome", "announce"}]

\* What a handler does once document_state() has answered.
AfterLoad(t) ==
    CASE t.kind = "update"  -> [t EXCEPT !.pc = "apply"]
      [] t.kind = "pull"    -> [t EXCEPT !.pc = "reply"]
      [] t.kind = "note"    -> [t EXCEPT !.pc = "bump"]
      [] t.kind = "alarm"   -> [t EXCEPT !.pc = "store"]
      [] t.kind = "connect" -> [t EXCEPT !.pc = "welcome"]
      [] t.kind = "init"    -> [t EXCEPT !.pc = "announce"]
      [] OTHER              -> Idle

\* The document as a load would build it: the SQL snapshot, or else the
\* legacy one, with the pending operations replayed on top.
Recoverable == (IF sqlSnap # {} THEN sqlSnap ELSE LegacySnap) \cup opLog

\* last_update > last_export, with None below every instant.
ShouldSave == save = "dirty"

-----------------------------------------------------------------------------
Init ==
    /\ sqlSnap = {} /\ opLog = {} /\ allLog = {} /\ docId = FALSE /\ alarm = FALSE
    /\ doc = {} /\ save = "never" /\ keys = {}
    /\ active = Idle /\ parked = {}
    /\ sockets = {} /\ synced = {} /\ acked = {}
    /\ sent = [c \in Client |-> {}]
    /\ waits = {}

GateOpen == active = Idle

\* An event is delivered to the object: the gate is open.
Arrives == GateOpen /\ Cardinality(parked) < MaxParked

-----------------------------------------------------------------------------
(* Loading the document: document_state(), load_document_state().          *)

LoadCached ==
    /\ active.pc = "load" /\ doc # {}
    /\ active' = AfterLoad(active)
    /\ UNCHANGED <<durable, memory, parked, peers, waits>>

\* The SQL snapshot is read without leaving the gate; so is the log.
LoadFromSql ==
    /\ active.pc = "load" /\ doc = {} /\ sqlSnap # {}
    /\ doc'  = sqlSnap \cup opLog
    /\ save' = "never"
    /\ keys' = keys \cup opLog
    /\ active' = AfterLoad(active)
    /\ UNCHANGED <<durable, parked, peers, waits>>

\* No SQL snapshot: ask Worker KV, which opens the gate.
LoadFromKv ==
    /\ active.pc = "load" /\ doc = {} /\ sqlSnap = {}
    /\ parked' = parked \cup {active}
    /\ active' = Idle
    /\ UNCHANGED <<durable, memory, peers, waits>>

\* KV answers.  The loaded state is installed whatever happened meanwhile:
\* a snapshot older than the last one saved is only logged.
KvAnswers(t) ==
    /\ GateOpen /\ t.pc = "load" /\ LegacySnap # {}
    /\ doc'  = LegacySnap \cup opLog
    /\ save' = "never"
    /\ keys' = keys \cup opLog
    /\ parked' = parked \ {t} /\ waits' = waits \ {t}
    /\ active' = AfterLoad(t)
    /\ UNCHANGED <<durable, peers>>

\* No snapshot there either, or the 4.5 s timeout: the handler gives up.  A
\* connecting socket stays open without its initial sync; a message is
\* dropped; an alarm returns without scheduling another.
KvFails(t) ==
    /\ GateOpen /\ t.pc = "load"
    /\ parked' = parked \ {t} /\ waits' = waits \ {t}
    /\ UNCHANGED <<durable, memory, active, peers>>

-----------------------------------------------------------------------------
(* Requests: /connect, /initialize, /exists and the read endpoints.        *)

ConnectBegin(c) ==
    /\ Arrives /\ c \notin sockets
    /\ sockets' = sockets \cup {c}
    /\ docId' = TRUE
    /\ active' = Task("connect", c, {}, "load")
    /\ UNCHANGED <<sqlSnap, opLog, allLog, alarm, memory, parked, synced, sent, acked,
                   waits>>

\* What the object sends to a set of clients, over the sockets still open.
Send(to, ops) ==
    sent' = [c \in Client |-> IF c \in to \cap sockets
                              THEN sent[c] \cup ops ELSE sent[c]]

\* Mutant: the initial sync is the stored snapshot, not the document.
ConnectWelcomeStale ==
    /\ active.kind = "connect" /\ active.pc = "welcome"
    /\ Send({active.who}, sqlSnap)
    /\ synced' = synced \cup ({active.who} \cap sockets)
    /\ active' = Idle
    /\ UNCHANGED <<durable, memory, parked, sockets, acked, waits>>

ConnectWelcome ==
    /\ active.kind = "connect" /\ active.pc = "welcome"
    /\ Send({active.who}, Applied(doc))
    /\ synced' = synced \cup ({active.who} \cap sockets)
    /\ active' = Idle
    /\ UNCHANGED <<durable, memory, parked, sockets, acked, waits>>

\* A caller of initialize waits for the answer before it asks again.
MayAsk(i) == \A t \in parked : t.kind = "init" => t.who # i

\* Mutant: has_snapshot() looks only in Worker KV.
InitializeBeginKvOnly(i, s) ==
    /\ Arrives /\ MayAsk(i)
    /\ parked' = parked \cup {Task("init", i, {s}, "check")}
    /\ UNCHANGED <<durable, memory, active, peers, waits>>

\* has_snapshot(): SQL first, then KV and the request body, both outside.
\* Nothing looks again afterwards: every request that got past SQL before the
\* first was stored is stored too.
InitializeBegin(i, s) ==
    /\ Arrives /\ MayAsk(i)
    /\ parked' = IF sqlSnap # {} THEN parked
                 ELSE parked \cup {Task("init", i, {s}, "check")}
    /\ UNCHANGED <<durable, memory, active, peers, waits>>

\* KV has a snapshot, or the KV call or the body failed.
InitializeRefused(t) ==
    /\ GateOpen /\ t.kind = "init" /\ t.pc = "check"
    /\ parked' = parked \ {t}
    /\ UNCHANGED <<durable, memory, active, peers, waits>>

\* Mutant: the request's envelope is stored in place of its snapshot.
InitializeStoreEnvelope(t) ==
    /\ GateOpen /\ t.kind = "init" /\ t.pc = "check" /\ LegacySnap = {}
    /\ sqlSnap' = {t.batch}
    /\ docId' = TRUE
    /\ keys' = {}
    /\ parked' = parked \ {t}
    /\ active' = [t EXCEPT !.pc = "load"]
    /\ UNCHANGED <<opLog, allLog, alarm, doc, save, peers, waits>>

\* The snapshot is stored and a new SessionStorage takes the old one's place;
\* a document already in memory stays.
InitializeStore(t) ==
    /\ GateOpen /\ t.kind = "init" /\ t.pc = "check" /\ LegacySnap = {}
    /\ sqlSnap' = t.batch
    /\ docId' = TRUE
    /\ keys' = {}
    /\ parked' = parked \ {t}
    /\ active' = [t EXCEPT !.pc = "load"]
    /\ UNCHANGED <<opLog, allLog, alarm, doc, save, peers, waits>>

\* Mutant: sockets that connected too early are not told.
InitializeSilent ==
    /\ active.kind = "init" /\ active.pc = "announce"
    /\ active' = Idle
    /\ UNCHANGED <<durable, memory, parked, peers, waits>>

\* The delayed initial sync, to every socket that connected too early.
InitializeAnnounce ==
    /\ active.kind = "init" /\ active.pc = "announce"
    /\ Send(sockets, Applied(doc))
    /\ synced' = sockets
    /\ active' = Idle
    /\ UNCHANGED <<durable, memory, parked, sockets, acked, waits>>

\* exists(): only an object that does not know its document looks for a
\* snapshot; finding one it installs a new SessionStorage.
ExistsBegin ==
    /\ Arrives /\ ~docId
    /\ IF sqlSnap # {}
       THEN docId' = TRUE /\ keys' = {} /\ UNCHANGED parked
       ELSE /\ parked' = parked \cup {Task("exists", Nobody, {}, "check")}
            /\ UNCHANGED <<docId, keys>>
    /\ UNCHANGED <<sqlSnap, opLog, allLog, alarm, doc, save, active, peers, waits>>

ExistsEnd(t) ==
    /\ GateOpen /\ t.kind = "exists"
    /\ parked' = parked \ {t}
    /\ \/ LegacySnap # {} /\ docId' = TRUE /\ keys' = {}
       \/ UNCHANGED <<docId, keys>>
    /\ UNCHANGED <<sqlSnap, opLog, allLog, alarm, doc, save, active, peers, waits>>

\* /raw, /snapshot, /metadata, /wakeup and the last-leave report only load.
ReadBegin ==
    /\ Arrives /\ docId
    /\ active' = Task("load", Nobody, {}, "load")
    /\ UNCHANGED <<durable, memory, parked, peers, waits>>

CloseSocket(c) ==
    /\ Arrives /\ c \in sockets
    /\ sockets' = sockets \ {c}
    /\ synced' = synced \ {c}
    /\ active' = IF sockets = {c} THEN Task("load", Nobody, {}, "load") ELSE Idle
    /\ UNCHANGED <<durable, memory, parked, sent, acked, waits>>

-----------------------------------------------------------------------------
(* Messages: websocket_message, process_message.                           *)

\* What the log of c's browser may hold, and c may therefore push: its own
\* updates and those of other editors, whose tabs may share that log.
Rows(c) ==
    Own(c) \cup (IF c \in ReadOnly THEN {}
                 ELSE UNION {Own(d) : d \in Client \ ReadOnly})

\* A batch leaves no gap: what it builds on it brings along, or the object has
\* sent it to some client.  The object does not ask for that; the client's log
\* sees to it while its tab stays open (PushIsCausal of WalSyncer).
Causal(batch) ==
    \A o \in batch : \A p \in Deps[o] : p \in batch \/ \E c \in Client : p \in sent[c]

MayPush(c, batch) ==
    /\ batch # {} /\ batch \subseteq Rows(c)
    /\ CausalClients => Causal(batch)

\* Mutant: can_edit is not asked.
UpdateBeginUnchecked(c, batch) ==
    /\ Arrives /\ c \in sockets /\ MayPush(c, batch)
    /\ active' = Task("update", c, batch, "load")
    /\ UNCHANGED <<durable, memory, parked, peers, waits>>

UpdateBegin(c, batch) ==
    /\ Arrives /\ c \in sockets /\ MayPush(c, batch)
    /\ active' = IF c \in ReadOnly THEN Task("note", c, {}, "load")
                 ELSE Task("update", c, batch, "load")
    /\ UNCHANGED <<durable, memory, parked, peers, waits>>

\* PeerRequestSince and PeerRequestSnapshot; PeerAwareness, PeerRegisterId.
QueryBegin(c, kind) ==
    /\ Arrives /\ c \in sockets
    /\ active' = Task(kind, c, {}, "load")
    /\ UNCHANGED <<durable, memory, parked, peers, waits>>

\* import() stamps last_update.  A stamp in the same clock tick as the last
\* export leaves should_save false, for the comparison is strict.
Stamped == IF save = "clean" THEN {"dirty", "clean"} ELSE {"dirty"}

\* Mutant: the operations of a batch are applied in any order.
NextInBatchAny(o) == o \in active.todo

NextInBatch(o) == o \in active.todo /\ Deps[o] \cap active.todo = {}

\* apply_op: import, put under "o/", remember the key, put under "a/".
ApplyOp(o) ==
    /\ active.pc = "apply" /\ NextInBatch(o)
    /\ doc' = doc \cup {o}
    /\ save' \in Stamped
    /\ opLog' = opLog \cup {o}
    /\ keys' = keys \cup {o}
    /\ active' = [active EXCEPT !.todo = @ \ {o}, !.pc = "record"]
    /\ UNCHANGED <<sqlSnap, allLog, docId, alarm, parked, peers, waits>>

\* Mutant: the batch is acked once its first operation is stored.
RecordOpAcksEarly ==
    /\ active.pc = "record"
    /\ allLog' = allLog \cup (active.batch \ active.todo)
    /\ active' = [active EXCEPT !.pc = "ack"]
    /\ UNCHANGED <<sqlSnap, opLog, docId, alarm, memory, parked, peers, waits>>

RecordOp ==
    /\ active.pc = "record"
    /\ allLog' = allLog \cup (active.batch \ active.todo)
    /\ active' = [active EXCEPT !.pc = IF active.todo = {} THEN "ack" ELSE "apply"]
    /\ UNCHANGED <<sqlSnap, opLog, docId, alarm, memory, parked, peers, waits>>

\* Loro refuses an update: the handler ends, with the updates of the batch that
\* came before it stored, and none acked, broadcast or followed by bump_alarm.
ImportFails ==
    /\ "import" \in MayFail /\ active.pc = "apply"
    /\ active' = Idle
    /\ UNCHANGED <<durable, memory, parked, peers, waits>>

\* So does a rejected put, the update being in memory already.
ApplyOpFails(o) ==
    /\ "put" \in MayFail /\ active.pc = "apply" /\ NextInBatch(o)
    /\ doc' = doc \cup {o}
    /\ save' \in Stamped
    /\ active' = Idle
    /\ UNCHANGED <<durable, keys, parked, peers, waits>>

\* Mutant: a rejected put under "a/" is swallowed.
RecordErrorSwallowed ==
    /\ "put" \in MayFail /\ active.pc = "record"
    /\ active' = [active EXCEPT !.pc = IF active.todo = {} THEN "ack" ELSE "apply"]
    /\ UNCHANGED <<durable, memory, parked, peers, waits>>

RecordOpFails ==
    /\ "put" \in MayFail /\ active.pc = "record"
    /\ active' = Idle
    /\ UNCHANGED <<durable, memory, parked, peers, waits>>

\* The ack to the sender, then the broadcast to everyone else.
AckAndBroadcast ==
    /\ active.pc = "ack"
    /\ acked' = acked \cup active.batch
    /\ Send(sockets \cup {active.who}, active.batch)
    /\ active' = [active EXCEPT !.pc = "bump"]
    /\ UNCHANGED <<durable, memory, parked, sockets, synced, waits>>

\* send_with_bytes on the sender's socket throws: the handler ends there.
AckFails ==
    /\ "ack" \in MayFail /\ active.pc = "ack"
    /\ active' = Idle
    /\ UNCHANGED <<durable, memory, parked, peers, waits>>

Reply ==
    /\ active.pc = "reply"
    /\ Send({active.who}, Applied(doc))
    /\ active' = [active EXCEPT !.pc = "bump"]
    /\ UNCHANGED <<durable, memory, parked, sockets, synced, acked, waits>>

\* bump_alarm: unless one is scheduled, in 5 s.  A KV call times out in 4.5 s,
\* so those outstanding now end before that alarm.
Schedule ==
    /\ alarm' = TRUE
    /\ waits' = IF alarm THEN waits ELSE {t \in parked : t.pc = "load"}

\* Mutant: an edit schedules no alarm.
BumpAlarmForgotten ==
    /\ active.pc = "bump"
    /\ active' = Idle
    /\ UNCHANGED <<durable, memory, parked, peers, waits>>

BumpAlarm ==
    /\ active.pc = "bump"
    /\ Schedule
    /\ active' = Idle
    /\ UNCHANGED <<sqlSnap, opLog, allLog, docId, memory, parked, peers>>

-----------------------------------------------------------------------------
(* The alarm: save the document if it changed, drop the log it covers.     *)

AlarmBegin ==
    /\ Arrives /\ alarm /\ waits = {}
    /\ \A t \in parked : t.kind # "alarm"
    /\ alarm' = FALSE
    /\ active' = Task("alarm", Nobody, {}, "load")
    /\ UNCHANGED <<sqlSnap, opLog, allLog, docId, memory, parked, peers, waits>>

StoreSnapshot ==
    /\ active.pc = "store" /\ ShouldSave
    /\ sqlSnap' = Applied(doc)
    /\ active' = [active EXCEPT !.pc = "clear"]
    /\ UNCHANGED <<opLog, allLog, docId, alarm, memory, parked, peers, waits>>

\* Mutant: the log is cleared whether or not a snapshot was saved.
NothingToSaveClears ==
    /\ active.pc = "store" /\ ~ShouldSave
    /\ active' = [active EXCEPT !.pc = "clear"]
    /\ UNCHANGED <<durable, memory, parked, peers, waits>>

NothingToSave ==
    /\ active.pc = "store" /\ ~ShouldSave
    /\ active' = [active EXCEPT !.pc = "rearm"]
    /\ UNCHANGED <<durable, memory, parked, peers, waits>>

\* clear_applied_ops, then mark_exported.
ClearAppliedOps ==
    /\ active.pc = "clear"
    /\ opLog' = opLog \ keys
    /\ keys' = {}
    /\ save' = "clean"
    /\ active' = [active EXCEPT !.pc = "rearm"]
    /\ UNCHANGED <<sqlSnap, allLog, docId, alarm, doc, parked, peers, waits>>

\* A handler that returns an error is retried by the runtime.  The rows of
\* the old snapshot are deleted before those of the new one are inserted.
SqlPutFails ==
    /\ "sql" \in MayFail /\ active.pc = "store" /\ ShouldSave
    /\ sqlSnap' = {}
    /\ alarm' = TRUE
    /\ active' = Idle
    /\ UNCHANGED <<opLog, allLog, docId, memory, parked, peers, waits>>

ClearFails ==
    /\ "delete" \in MayFail /\ active.pc = "clear"
    /\ alarm' = TRUE
    /\ active' = Idle
    /\ UNCHANGED <<sqlSnap, opLog, allLog, docId, memory, parked, peers, waits>>

Rearm ==
    /\ active.pc = "rearm"
    /\ IF sockets # {} THEN Schedule ELSE UNCHANGED <<alarm, waits>>
    /\ active' = Idle
    /\ UNCHANGED <<sqlSnap, opLog, allLog, docId, memory, parked, peers>>

-----------------------------------------------------------------------------
(* The runtime.                                                            *)

Forget ==
    /\ doc' = {} /\ save' = "never" /\ keys' = {}
    /\ active' = Idle /\ parked' = {} /\ waits' = {}

\* The object dies between two steps and takes its sockets with it.
Crash ==
    /\ Forget
    /\ sockets' = {} /\ synced' = {}
    /\ UNCHANGED <<durable, sent, acked>>

\* An idle object leaves memory; its hibernating sockets stay open.
Hibernate ==
    /\ GateOpen /\ parked = {}
    /\ Forget
    /\ UNCHANGED <<durable, peers>>

-----------------------------------------------------------------------------
Loading == LoadCached \/ LoadFromSql \/ LoadFromKv

KvDelivery == \E t \in parked : KvAnswers(t) \/ KvFails(t)

Requests ==
    \/ \E c \in Client : ConnectBegin(c) \/ CloseSocket(c)
    \/ \E i \in Initializer, s \in Seeds : InitializeBegin(i, s)
    \/ ExistsBegin \/ ReadBegin

Initializing ==
    \/ \E t \in parked : InitializeRefused(t) \/ InitializeStore(t)
    \/ InitializeAnnounce

ExistsDelivery == \E t \in parked : ExistsEnd(t)

Messages ==
    \/ \E c \in Client : \E batch \in SUBSET Rows(c) : UpdateBegin(c, batch)
    \/ \E c \in Client : \E kind \in {"pull", "note"} : QueryBegin(c, kind)

Handling ==
    \/ \E o \in Op : ApplyOp(o) \/ ApplyOpFails(o)
    \/ ImportFails \/ RecordOp \/ RecordOpFails
    \/ AckAndBroadcast \/ AckFails \/ Reply \/ BumpAlarm

Alarms ==
    \/ AlarmBegin \/ StoreSnapshot \/ NothingToSave \/ ClearAppliedOps
    \/ SqlPutFails \/ ClearFails \/ Rearm

Next ==
    \/ Loading \/ KvDelivery \/ Requests \/ Initializing \/ ExistsDelivery
    \/ ConnectWelcome \/ Messages \/ Handling \/ Alarms
    \/ Crash \/ Hibernate

\* The runtime runs a task it started, delivers what a parked one waits for
\* and fires a scheduled alarm, however busy the object is: events queue at
\* the gate and each gets its turn.  Nobody is obliged to send anything.
Fairness ==
    /\ WF_vars(Loading) /\ WF_vars(ConnectWelcome)
    /\ WF_vars(Handling) /\ WF_vars(InitializeAnnounce)
    /\ SF_vars(KvDelivery) /\ SF_vars(AlarmBegin)
    /\ WF_vars(StoreSnapshot \/ NothingToSave)
    /\ SF_vars(ClearAppliedOps) /\ WF_vars(Rearm)

Spec == Init /\ [][Next]_vars /\ Fairness

-----------------------------------------------------------------------------
\* Type correctness of the session's state.
TypeOK ==
    /\ sqlSnap \in SUBSET Op /\ opLog \in SUBSET Op /\ allLog \in SUBSET Op
    /\ docId \in BOOLEAN /\ alarm \in BOOLEAN
    /\ doc \in SUBSET Op /\ keys \in SUBSET Op
    /\ save \in {"never", "dirty", "clean"}
    /\ active \in TaskType /\ parked \in SUBSET TaskType
    /\ sockets \in SUBSET Client /\ synced \in SUBSET Client
    /\ sent \in [Client -> SUBSET Op]
    /\ acked \in SUBSET Op
    /\ waits \in SUBSET TaskType

\* The ack is the promise that the update is stored (websocket.rs,
\* RemoteUpdateAck): whatever the object does next, and however often it
\* restarts, an acknowledged update is in what a load would read.  It takes
\* clients that leave no gap: an update over one is acked, held back by Loro
\* and gone with the log once the next alarm has saved the document without it.
AckedDurable == acked \subseteq Recoverable

\* Nothing the object ever showed a client (initial sync, broadcast, catch-up)
\* can be taken back by a restart, where clients leave no gap.
SentIsRecoverable == \A c \in Client : sent[c] \subseteq Recoverable

\* Between two handlers, a socket that had its initial sync has been sent
\* everything stored except its own client's updates: no one misses an edit
\* because it arrived while the socket was connecting or the object slept
\* (where clients leave no gap: an initial sync exports what is applied).
StoredReachesPeers ==
    GateOpen => \A c \in synced : Recoverable \subseteq sent[c] \cup Own(c)

\* Between two handlers an unsaved document has an alarm that will save it.
DirtyHasAlarm == GateOpen /\ save = "dirty" => alarm

\* Between two handlers no socket of a document that exists still waits for
\* its initial sync: the handler of /connect or that of /initialize sent it.
SocketsAreSynced == GateOpen /\ (sqlSnap # {} \/ doc # {}) => sockets \subseteq synced

\* An object that waits for its next event owes nothing (bump_alarm and alarm,
\* connect_handler and initialize_handler): whatever a handler began and
\* another one interrupted, the save is scheduled and the sockets are served.
IdleOwesNothing == DirtyHasAlarm /\ SocketsAreSynced

\* Whatever fails and however requests race, the record of all operations has
\* every acknowledged update ("a/": kept "because we have been losing data").
AckedRecorded == acked \subseteq allLog

\* A client that may not edit leaves nothing in the document, in storage or
\* with another client (can_edit).
ReadOnlyLeavesNothing ==
    \A c \in ReadOnly :
        Own(c) \cap (doc \cup Recoverable \cup allLog \cup UNION {sent[d] : d \in Client}) = {}

\* A stored snapshot is only ever replaced by one with at least its content:
\* has_snapshot turns every initialize request away that comes after the one
\* that was stored, and the alarm saves what was loaded and more.  It takes
\* initialize requests that come one after the other: of two that await KV or
\* their bodies together, the second replaces what the first stored.
SnapshotGrows == [][sqlSnap \subseteq sqlSnap']_sqlSnap

\* The session implements the ledger of its promises (DocumentLedger): what a
\* load would read only grows, by updates whose author may edit and whose
\* causes are there, and only what is in it is shown or acked.  Saving,
\* clearing the log, crashing and hibernating change nothing of it.  That the
\* causes are there is what the clients see to; that it lasts, the session.
Ledger == INSTANCE DocumentLedger
          WITH stored <- Recoverable, shown <- sent, By <- Rows,
               Writable <- Op \ UNION {Own(c) : c \in ReadOnly}
ImplementsLedger == Ledger!Spec

\* An unsaved document is eventually saved, or leaves memory: every edit
\* schedules an alarm and the alarm saves (bump_alarm, alarm).
DirtyIsSaved == (save = "dirty") ~> (save # "dirty")

\* A socket accepted before its document exists is sent the initial sync once
\* the document is initialized, whichever of the two handlers gets there.
ConnectedIsSynced ==
    \A c \in Client :
        (c \in sockets /\ sqlSnap # {}) ~> (c \in synced \/ c \notin sockets)

=============================================================================
