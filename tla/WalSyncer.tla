----------------------------- MODULE WalSyncer -----------------------------
(***************************************************************************)
(* The client's write-ahead log of one document: WALSyncer and its store   *)
(* (packages/collaboration/src/collab/wal.ts), the engine that feeds it    *)
(* and saves snapshots (engine.ts), the source that pushes (source.ts) and *)
(* the cold load (Block.tsx), in one browser with several tabs.            *)
(*                                                                         *)
(* IndexedDB, with the log and the snapshot, is shared by the tabs and     *)
(* survives them; everything else is a tab's memory.  A step runs to the   *)
(* next await.  An edit depends on all that its tab's document held when   *)
(* it was made.                                                            *)
(***************************************************************************)
EXTENDS Naturals

CONSTANTS
    Edit,         \* local updates, each made once
    Tab,          \* tabs that may have the document open
    MaxFlush,     \* bound on the flushes of one tab that run at once
    MayHappen     \* of "close", "expire", "missed", "fail"

ASSUME WalAssumption ==
    /\ MaxFlush \in Nat \ {0}
    /\ MayHappen \subseteq {"close", "expire", "missed", "fail"}

VARIABLES
    rows,          \* IndexedDB: edits in the write-ahead log
    delivered,     \* IndexedDB: the rows marked delivered
    snap,          \* IndexedDB: edits in the saved snapshot
    cached,        \* IndexedDB: whether a snapshot was ever saved
    server,        \* edits the sync service stored
    net,           \* pushes on their way to it
    acks,          \* acks on their way back
    deps,          \* deps[e]: what edit e was made on top of
    made,          \* edits made so far
    logged,        \* edits ever written to the log
    expired,       \* edits dropped from it by age
    open,          \* tabs with a running engine
    ready,         \* those whose WALSyncer has done its setup
    sync,          \* sync[t]: the source's first initial sync
    doc,           \* doc[t]: edits in the tab's document
    heard,         \* heard[t]: edits gossiped to t, not handled yet
    appending,     \* appending[t]: edits whose append is not in the log yet
    written,       \* written[t]: edits in the log, the flush not called yet
    isFlushing, hasNewPending,
    flush,         \* flush[t][i]: the i-th flush that tab t runs
    job            \* job[t]: the snapshot being saved

idb      == <<rows, delivered, snap, cached>>
wire     == <<server, net, acks>>
history  == <<deps, made, logged, expired>>
life     == <<open, ready, sync>>
content  == <<doc, heard>>
queue    == <<appending, written>>
flushing == <<isFlushing, hasNewPending, flush>>
vars     == <<idb, wire, history, life, content, queue, flushing, job>>

Slot == 1..MaxFlush

Off  == [stage |-> "off", batch |-> {}]
NoJob == [stage |-> "idle", export |-> {}, prune |-> FALSE]

Undelivered == rows \ delivered

\* What a push becomes when nobody waits for its ack any more: still on its
\* way, but its id matches no waiter.
Orphan == 0
Orphaned(msgs, t, slots) ==
    {IF m.tab = t /\ m.slot \in slots THEN [m EXCEPT !.slot = Orphan] ELSE m : m \in msgs}
AcksBut(t, slots) == {a \in acks : ~(a.tab = t /\ a.slot \in slots)}

-----------------------------------------------------------------------------
Init ==
    /\ rows = {} /\ delivered = {} /\ snap = {} /\ cached = FALSE
    /\ server = {} /\ net = {} /\ acks = {}
    /\ deps = [e \in Edit |-> {}] /\ made = {} /\ logged = {} /\ expired = {}
    /\ open = {} /\ ready = {}
    /\ sync = [t \in Tab |-> "waiting"]
    /\ doc = [t \in Tab |-> {}] /\ heard = [t \in Tab |-> {}]
    /\ appending = [t \in Tab |-> {}] /\ written = [t \in Tab |-> {}]
    /\ isFlushing = [t \in Tab |-> FALSE] /\ hasNewPending = [t \in Tab |-> FALSE]
    /\ flush = [t \in Tab |-> [i \in Slot |-> Off]]
    /\ job = [t \in Tab |-> NoJob]

-----------------------------------------------------------------------------
(* Opening and closing a tab.                                              *)

\* The cached snapshot wins the race to seed the document: the log's entries
\* are replayed on it and, if there are any, folded into a new snapshot.
OpenCached(t) ==
    /\ t \notin open /\ cached
    /\ open' = open \cup {t}
    /\ doc' = [doc EXCEPT ![t] = snap \cup rows]
    /\ job' = IF rows = {} THEN job
              ELSE [job EXCEPT ![t] = [stage |-> "save", export |-> snap \cup rows,
                                       prune |-> FALSE]]
    /\ UNCHANGED <<idb, wire, history, ready, sync, heard, queue, flushing>>

\* The server's state wins: it is the content of the source's first initial
\* sync, which is therefore received.  The local state is discarded, and the
\* log's entries with it; what is then folded is the document without them.
OpenRemote(t) ==
    /\ t \notin open
    /\ open' = open \cup {t}
    /\ sync' = [sync EXCEPT ![t] = "received"]
    /\ doc' = [doc EXCEPT ![t] = server]
    /\ job' = IF cached /\ rows # {}
              THEN [job EXCEPT ![t] = [stage |-> "save", export |-> server,
                                       prune |-> FALSE]]
              ELSE job
    /\ UNCHANGED <<idb, wire, history, ready, heard, queue, flushing>>

\* A tab seeded from its cache: the source's first initial sync arrives, or
\* its 10 s run out.
InitialSync(t) ==
    /\ t \in open /\ sync[t] = "waiting"
    /\ sync' = [sync EXCEPT ![t] = "received"]
    /\ UNCHANGED <<idb, wire, history, open, ready, content, queue, flushing, job>>

InitialSyncTimesOut(t) ==
    /\ "missed" \in MayHappen /\ t \in open /\ sync[t] = "waiting"
    /\ sync' = [sync EXCEPT ![t] = "missed"]
    /\ UNCHANGED <<idb, wire, history, open, ready, content, queue, flushing, job>>

\* The tab is closed or dies: its memory goes, what it sent may still arrive.
CloseTab(t) ==
    /\ "close" \in MayHappen /\ t \in open
    /\ open' = open \ {t} /\ ready' = ready \ {t}
    /\ sync' = [sync EXCEPT ![t] = "waiting"]
    /\ doc' = [doc EXCEPT ![t] = {}] /\ heard' = [heard EXCEPT ![t] = {}]
    /\ appending' = [appending EXCEPT ![t] = {}] /\ written' = [written EXCEPT ![t] = {}]
    /\ isFlushing' = [isFlushing EXCEPT ![t] = FALSE]
    /\ hasNewPending' = [hasNewPending EXCEPT ![t] = FALSE]
    /\ flush' = [flush EXCEPT ![t] = [i \in Slot |-> Off]]
    /\ job' = [job EXCEPT ![t] = NoJob]
    /\ net' = Orphaned(net, t, Slot) /\ acks' = AcksBut(t, Slot)
    /\ UNCHANGED <<idb, server, history>>

-----------------------------------------------------------------------------
(* Flushing.                                                               *)

\* doFlush past ready(): the flags are set in the same turn.
BeginRead(t, started) ==
    /\ flush' = [flush EXCEPT ![t] = [i \in Slot |->
                    IF i \in started THEN [stage |-> "read", batch |-> {}] ELSE flush[t][i]]]
    /\ isFlushing' = [isFlushing EXCEPT ![t] = TRUE]
    /\ hasNewPending' = [hasNewPending EXCEPT ![t] = FALSE]

\* flush(): nothing while isFlushing.  Before ready() resolves isFlushing is
\* not set, so each call leaves a doFlush waiting.
CallFlush(t) ==
    \/ isFlushing[t] /\ UNCHANGED flushing
    \/ /\ ~isFlushing[t]
       /\ \E i \in Slot :
            /\ flush[t][i] = Off
            /\ IF t \in ready THEN BeginRead(t, {i})
               ELSE /\ flush' = [flush EXCEPT ![t][i] = [Off EXCEPT !.stage = "wait"]]
                    /\ UNCHANGED <<isFlushing, hasNewPending>>

\* setup(): undelivered entries past their time to live are dropped, older
\* ones first; then everything that waited for ready() goes on.
Setup(t) ==
    /\ t \in open \ ready
    /\ ready' = ready \cup {t}
    /\ \E old \in SUBSET Undelivered :
         /\ old # {} => "expire" \in MayHappen
         /\ \A e \in old : deps[e] \cap Undelivered \subseteq old
         /\ rows' = rows \ old
         /\ expired' = expired \cup old
    /\ LET waiting == {i \in Slot : flush[t][i].stage = "wait"}
       IN  IF waiting = {} THEN UNCHANGED flushing ELSE BeginRead(t, waiting)
    /\ UNCHANGED <<delivered, snap, cached, wire, deps, made, logged, open, sync,
                   content, queue, job>>

\* The end of a flush: rerun if it went well and an append came meanwhile.
EndFlush(t, i, succeeded) ==
    IF succeeded /\ hasNewPending[t]
    THEN BeginRead(t, {i})
    ELSE /\ flush' = [flush EXCEPT ![t][i] = Off]
         /\ isFlushing' = [isFlushing EXCEPT ![t] = FALSE]
         /\ UNCHANGED hasNewPending

\* Nothing undelivered: the flush returns, past the check for a rerun.
FlushNothing(t, i) ==
    /\ flush[t][i].stage = "read" /\ Undelivered = {}
    /\ EndFlush(t, i, FALSE)
    /\ UNCHANGED <<idb, wire, history, life, content, queue, job>>

\* Mutant: entries are pushed one by one, whichever comes first.
FlushPushOne(t, i) ==
    /\ flush[t][i].stage = "read" /\ Undelivered # {} /\ sync[t] = "received"
    /\ \E e \in Undelivered :
         /\ flush' = [flush EXCEPT ![t][i] = [stage |-> "push", batch |-> {e}]]
         /\ net' = net \cup {[tab |-> t, slot |-> i, batch |-> {e}]}
    /\ UNCHANGED <<idb, server, acks, history, life, content, queue,
                   isFlushing, hasNewPending, job>>

\* All that is undelivered is pushed as one message.
FlushPush(t, i) ==
    /\ flush[t][i].stage = "read" /\ Undelivered # {} /\ sync[t] = "received"
    /\ flush' = [flush EXCEPT ![t][i] = [stage |-> "push", batch |-> Undelivered]]
    /\ net' = net \cup {[tab |-> t, slot |-> i, batch |-> Undelivered]}
    /\ UNCHANGED <<idb, server, acks, history, life, content, queue,
                   isFlushing, hasNewPending, job>>

\* Until the source has had its initial sync pushUpdate sends nothing and
\* answers false.
FlushRefused(t, i) ==
    /\ flush[t][i].stage = "read" /\ Undelivered # {} /\ sync[t] # "received"
    /\ EndFlush(t, i, FALSE)
    /\ UNCHANGED <<idb, wire, history, life, content, queue, job>>

\* The sync service stores a push and acks it.
ServerStores(m) ==
    /\ server' = server \cup m.batch
    /\ net' = net \ {m}
    /\ acks' = IF m.slot = Orphan THEN acks
               ELSE acks \cup {[tab |-> m.tab, slot |-> m.slot]}
    /\ UNCHANGED <<idb, history, life, content, queue, flushing, job>>

\* A push or an ack is lost with its connection.
ConnectionLost ==
    /\ "fail" \in MayHappen
    /\ \/ \E m \in net : net' = net \ {m} /\ UNCHANGED acks
       \/ \E a \in acks : acks' = acks \ {a} /\ UNCHANGED net
    /\ UNCHANGED <<idb, server, history, life, content, queue, flushing, job>>

PushAcked(t, i) ==
    /\ flush[t][i].stage = "push" /\ [tab |-> t, slot |-> i] \in acks
    /\ flush' = [flush EXCEPT ![t][i] = [flush[t][i] EXCEPT !.stage = "mark"]]
    /\ acks' = AcksBut(t, {i})
    /\ UNCHANGED <<idb, server, net, history, life, content, queue,
                   isFlushing, hasNewPending, job>>

\* Mutant: a push without an ack counts as delivered.
PushFailsMarks(t, i) ==
    /\ "fail" \in MayHappen /\ flush[t][i].stage \in {"push", "mark"}
    /\ delivered' = delivered \cup (flush[t][i].batch \cap rows)
    /\ EndFlush(t, i, TRUE)
    /\ net' = Orphaned(net, t, {i}) /\ acks' = AcksBut(t, {i})
    /\ UNCHANGED <<rows, snap, cached, server, history, life, content, queue, job>>

\* No ack in 5 s, or a call that throws.
PushFails(t, i) ==
    /\ "fail" \in MayHappen /\ flush[t][i].stage \in {"push", "mark"}
    /\ EndFlush(t, i, FALSE)
    /\ net' = Orphaned(net, t, {i}) /\ acks' = AcksBut(t, {i})
    /\ UNCHANGED <<idb, server, history, life, content, queue, job>>

\* Mutant: the mark is put whether or not the row is still there, and a row of
\* its own, without an update, if it is not.
FlushMarkUnread(t, i) ==
    /\ flush[t][i].stage = "mark"
    /\ delivered' = delivered \cup flush[t][i].batch
    /\ EndFlush(t, i, TRUE)
    /\ UNCHANGED <<rows, snap, cached, wire, history, life, content, queue, job>>

\* markDelivered: rows that are gone meanwhile are skipped.
FlushMark(t, i) ==
    /\ flush[t][i].stage = "mark"
    /\ delivered' = delivered \cup (flush[t][i].batch \cap rows)
    /\ EndFlush(t, i, TRUE)
    /\ UNCHANGED <<rows, snap, cached, wire, history, life, content, queue, job>>

\* The source reports a reconnect.
Reconnect(t) ==
    /\ t \in open /\ CallFlush(t)
    /\ UNCHANGED <<idb, wire, history, life, content, queue, job>>

-----------------------------------------------------------------------------
(* Edits.                                                                  *)

\* handleLocalUpdates: append, not awaited, and gossip to the other tabs.
MakeEdit(t, e) ==
    /\ t \in open /\ e \notin made
    /\ made' = made \cup {e}
    /\ deps' = [deps EXCEPT ![e] = doc[t]]
    /\ doc' = [doc EXCEPT ![t] = @ \cup {e}]
    /\ appending' = [appending EXCEPT ![t] = @ \cup {e}]
    /\ heard' = [u \in Tab |-> IF u \in open \ {t} THEN heard[u] \cup {e} ELSE heard[u]]
    /\ UNCHANGED <<idb, wire, logged, expired, life, written, flushing, job>>

\* The append reaches the log, in the order in which the edits were made.
AppendWrites(t, e) ==
    /\ t \in ready /\ e \in appending[t] /\ deps[e] \cap appending[t] = {}
    /\ rows' = rows \cup {e} /\ logged' = logged \cup {e}
    /\ appending' = [appending EXCEPT ![t] = @ \ {e}]
    /\ written' = [written EXCEPT ![t] = @ \cup {e}]
    /\ UNCHANGED <<delivered, snap, cached, wire, deps, made, expired, life, content,
                   flushing, job>>

\* Mutant: hasNewPending is not set during a flush.
AppendNotNoted(t, e) ==
    /\ e \in written[t]
    /\ written' = [written EXCEPT ![t] = @ \ {e}]
    /\ IF isFlushing[t] THEN UNCHANGED flushing
       ELSE \E i \in Slot : flush[t][i] = Off /\ BeginRead(t, {i})
    /\ UNCHANGED <<idb, wire, history, life, content, appending, job>>

\* Back from IndexedDB, the append asks for a flush.
AppendFlushes(t, e) ==
    /\ e \in written[t]
    /\ written' = [written EXCEPT ![t] = @ \ {e}]
    /\ IF isFlushing[t]
       THEN /\ hasNewPending' = [hasNewPending EXCEPT ![t] = TRUE]
            /\ UNCHANGED <<isFlushing, flush>>
       ELSE \E i \in Slot : flush[t][i] = Off /\ BeginRead(t, {i})
    /\ UNCHANGED <<idb, wire, history, life, content, appending, job>>

\* A gossiped edit is imported; Loro applies it once its dependencies are in.
Hear(t, e) ==
    /\ e \in heard[t] /\ deps[e] \subseteq doc[t]
    /\ heard' = [heard EXCEPT ![t] = @ \ {e}]
    /\ doc' = [doc EXCEPT ![t] = @ \cup {e}]
    /\ UNCHANGED <<idb, wire, history, life, queue, flushing, job>>

\* What the server has arrives: a broadcast, or convergeFromServer.
Converge(t) ==
    /\ t \in open /\ ~(server \subseteq doc[t])
    /\ doc' = [doc EXCEPT ![t] = @ \cup server]
    /\ UNCHANGED <<idb, wire, history, life, heard, queue, flushing, job>>

-----------------------------------------------------------------------------
(* persistSnapshot: flush, export, save, prune.                            *)

\* Mutant: the interval saves without flushing.
PersistUnflushed(t) ==
    /\ t \in open /\ job[t] = NoJob
    /\ job' = [job EXCEPT ![t] = [stage |-> "save", export |-> doc[t], prune |-> TRUE]]
    /\ UNCHANGED <<idb, wire, history, life, content, queue, flushing>>

PersistBegin(t) ==
    /\ t \in open /\ job[t] = NoJob
    /\ CallFlush(t)
    /\ job' = [job EXCEPT ![t] = [stage |-> "save", export |-> doc[t], prune |-> TRUE]]
    /\ UNCHANGED <<idb, wire, history, life, content, queue>>

PersistSave(t) ==
    /\ job[t].stage = "save"
    /\ snap' = job[t].export /\ cached' = TRUE
    /\ job' = [job EXCEPT ![t] = IF job[t].prune THEN [job[t] EXCEPT !.stage = "prune"]
                                 ELSE NoJob]
    /\ UNCHANGED <<rows, delivered, wire, history, life, content, queue, flushing>>

PersistFails(t) ==
    /\ "fail" \in MayHappen /\ job[t] # NoJob
    /\ job' = [job EXCEPT ![t] = NoJob]
    /\ UNCHANGED <<idb, wire, history, life, content, queue, flushing>>

\* pruneDelivered: every delivered row goes, whatever snapshot was saved.
PersistPrune(t) ==
    /\ job[t].stage = "prune"
    /\ rows' = rows \ delivered /\ delivered' = {}
    /\ job' = [job EXCEPT ![t] = NoJob]
    /\ UNCHANGED <<snap, cached, wire, history, life, content, queue, flushing>>

-----------------------------------------------------------------------------
TabStep(t) ==
    \/ OpenCached(t) \/ OpenRemote(t) \/ CloseTab(t)
    \/ InitialSync(t) \/ InitialSyncTimesOut(t) \/ Setup(t)
    \/ Reconnect(t) \/ Converge(t)
    \/ PersistBegin(t) \/ PersistSave(t) \/ PersistFails(t) \/ PersistPrune(t)

FlushStep(t, i) ==
    \/ FlushNothing(t, i) \/ FlushPush(t, i) \/ FlushRefused(t, i)
    \/ PushAcked(t, i) \/ PushFails(t, i) \/ FlushMark(t, i)

EditStep(t, e) ==
    MakeEdit(t, e) \/ AppendWrites(t, e) \/ AppendFlushes(t, e) \/ Hear(t, e)

Next ==
    \/ \E t \in Tab : TabStep(t)
    \/ \E t \in Tab : \E i \in Slot : FlushStep(t, i)
    \/ \E t \in Tab : \E e \in Edit : EditStep(t, e)
    \/ \E m \in net : ServerStores(m)
    \/ ConnectionLost

\* A tab's event loop runs what is ready to run and the network brings, again
\* and again, some push and its ack across.
Fairness ==
    /\ \A t \in Tab :
         /\ WF_vars(Setup(t)) /\ WF_vars(InitialSync(t))
         /\ \A e \in Edit : WF_vars(AppendWrites(t, e)) /\ WF_vars(AppendFlushes(t, e))
         /\ \A i \in Slot :
              /\ WF_vars(FlushNothing(t, i)) /\ WF_vars(FlushPush(t, i))
              /\ WF_vars(FlushRefused(t, i))
              /\ SF_vars(PushAcked(t, i)) /\ WF_vars(PushFails(t, i))
              /\ SF_vars(FlushMark(t, i))
    /\ SF_vars(\E m \in net : m.slot # Orphan /\ ServerStores(m))

Spec == Init /\ [][Next]_vars /\ Fairness

\* The same with the engine's 5 s interval running in every open tab.
RetrySpec ==
    /\ Spec
    /\ \A t \in Tab : /\ WF_vars(PersistBegin(t)) /\ WF_vars(PersistSave(t))
                      /\ WF_vars(PersistPrune(t))

-----------------------------------------------------------------------------
FlushType ==
    [stage : {"off", "wait", "read", "push", "mark"}, batch : SUBSET Edit]

\* Type correctness of the log, the wire and the tabs: a row that is marked is a
\* row with its update, although another tab may prune it before the mark.
TypeOK ==
    /\ rows \in SUBSET Edit /\ delivered \in SUBSET rows
    /\ snap \in SUBSET Edit /\ cached \in BOOLEAN
    /\ server \in SUBSET Edit
    /\ net \in SUBSET [tab : Tab, slot : Slot \cup {Orphan}, batch : SUBSET Edit]
    /\ acks \in SUBSET [tab : Tab, slot : Slot]
    /\ deps \in [Edit -> SUBSET Edit]
    /\ made \in SUBSET Edit /\ logged \in SUBSET Edit /\ expired \in SUBSET Edit
    /\ open \in SUBSET Tab /\ ready \in SUBSET Tab
    /\ sync \in [Tab -> {"waiting", "received", "missed"}]
    /\ doc \in [Tab -> SUBSET Edit] /\ heard \in [Tab -> SUBSET Edit]
    /\ appending \in [Tab -> SUBSET Edit] /\ written \in [Tab -> SUBSET Edit]
    /\ isFlushing \in [Tab -> BOOLEAN] /\ hasNewPending \in [Tab -> BOOLEAN]
    /\ flush \in [Tab -> [Slot -> FlushType]]
    /\ job \in [Tab -> [stage : {"idle", "save", "prune"}, export : SUBSET Edit,
                        prune : BOOLEAN]]

\* An edit that reached the log is never lost: until its time to live ends it
\* is undelivered in the log or stored by the server, whichever tabs flush,
\* prune, reload or die, and whichever acks come late or never.
LoggedNotLost == logged \ expired \subseteq Undelivered \cup server

\* A push carries everything its edits build on that the server lacks, so the
\* server is never left with a gap it cannot fill.
PushIsCausal ==
    \A m \in net : \A e \in m.batch : deps[e] \subseteq server \cup m.batch

\* An append during a flush is not stranded: on a connection that works, the
\* rerun after that flush takes it to the server, with no retry to help.
AppendReachesServer ==
    \A t \in Tab : \A e \in Edit :
        (e \in written[t] /\ sync[t] = "received") ~> (e \in server)

\* Every edit in the log reaches the server however often pushes fail, if some
\* tab stays open: the engine's interval keeps trying.
EditsReachServer == \A e \in Edit : e \in rows ~> (e \in server \/ open = {})
=============================================================================
