----------------------------- MODULE SyncEngine -----------------------------
(***************************************************************************)
(* The life of one tab's SyncEngine (packages/collaboration/src/collab/    *)
(* engine.ts) over its LoroManager (manager.ts): start, stop and reset,    *)
(* the syncLock that serializes imports, edits and resets, and the catch-  *)
(* up passes of convergeFromServer.                                        *)
(*                                                                         *)
(* A pass asks the sync service for all updates since a version and may    *)
(* try again; it belongs to the lifecycle generation it began in.  What    *)
(* the service stores is `server'; a message of the service is handled in  *)
(* the order in which it was sent, so it is taken to be sent when handled. *)
(***************************************************************************)
EXTENDS Naturals, Sequences

CONSTANTS
    Op,            \* updates
    Mine,          \* those made in this tab
    Deps,          \* Deps[o]: the updates o causally depends on
    MaxAttempts,   \* REQUEST_UPDATES_MAX_ATTEMPTS
    MaxPass,       \* bound on the passes in flight, of all generations
    MaxGen,        \* bound: no further stop or reset from this generation on
    MaxWait,       \* bound on the tasks at the lock when another comes
    MayFail        \* of "request", "snapshot", "seed": see the actions

ASSUME EngineAssumption ==
    /\ Mine \subseteq Op
    /\ Deps \in [Op -> SUBSET Op]
    /\ \A e \in Mine : Deps[e] = {}
    /\ \A o \in Op : o \notin Deps[o] /\ \A p \in Deps[o] : Deps[p] \subseteq Deps[o]
    /\ MaxAttempts \in Nat \ {0} /\ MaxPass \in Nat \ {0}
    /\ MaxGen \in Nat /\ MaxWait \in Nat
    /\ MayFail \subseteq {"request", "snapshot", "seed"}

VARIABLES
    server,    \* updates the sync service has stored
    link,      \* the connection: "down", "opened" (no initial sync yet), "up"
    running, lifecycleGeneration,
    cur,       \* which LoroDoc the manager holds, counted
    sub,       \* the one whose local updates the engine gets (None: none)
    doc,       \* updates imported into the manager's document
    made,      \* edits the editor handed to syncStateToLoro
    wal,       \* edits the engine appended to the write-ahead log
    lock,      \* the tasks at syncLock; the first one holds it
    restart,   \* whether a reset is over whose start() is still to come
    pass,      \* pass[i]: the i-th catch-up pass
    convergence, rerunRequested,   \* the current pass (None: none) and its flag
    owed       \* history: a reconnect was heard and no pass has begun since

manager  == <<cur, doc>>
life     == <<running, lifecycleGeneration, sub>>
catchup  == <<pass, convergence, rerunRequested, owed>>
edits    == <<made, wal>>
vars     == <<server, link, life, manager, edits, lock, restart, catchup>>

PassId == 1..MaxPass
None   == 0

\* Loro: what of the imported updates is applied.
Applied(ops) == {o \in ops : Deps[o] \subseteq ops}

NoPass == [stage |-> "off", gen |-> 0, tries |-> 0, since |-> {}]

Import(ops, i) == [kind |-> "import", ops |-> ops, pass |-> i, was |-> FALSE]
Sync(e)        == [kind |-> "sync", ops |-> {e}, pass |-> None, was |-> FALSE]
Reset(was)     == [kind |-> "reset", ops |-> {}, pass |-> None, was |-> was]

Holds(kind) == lock # <<>> /\ Head(lock).kind = kind
Room        == Len(lock) < MaxWait

-----------------------------------------------------------------------------
\* The document was seeded, perhaps without all the edits of earlier sessions,
\* which the log has.
Init ==
    /\ server = {} /\ link = "up"
    /\ running = FALSE /\ lifecycleGeneration = 0
    /\ cur = 1 /\ sub = None
    /\ made \in SUBSET Mine /\ wal = made /\ doc \in SUBSET made
    /\ lock = <<>> /\ restart = FALSE
    /\ pass = [i \in PassId |-> NoPass]
    /\ convergence = None /\ rerunRequested = FALSE /\ owed = FALSE

-----------------------------------------------------------------------------
(* Catch-up passes: convergeFromServer, requestAndHandleUpdatesSince.      *)

Active(gen) == running /\ lifecycleGeneration = gen

\* A new pass, given the passes that remain, in generation gen on document d.
BeginPass(others, gen, d) ==
    \E i \in PassId :
        /\ others[i] = NoPass
        /\ pass' = [others EXCEPT ![i] =
                      [stage |-> "asked", gen |-> gen, tries |-> 1, since |-> Applied(d)]]
        /\ convergence' = i /\ rerunRequested' = FALSE /\ owed' = FALSE

\* Mutant: every call begins a pass of its own.
ConvergeEagerly(rerunIfInFlight, d) ==
    IF ~running THEN UNCHANGED catchup
    ELSE BeginPass(pass, lifecycleGeneration, d)

\* Mutant: a reconnect is coalesced like any other call.
ConvergeOnce(rerunIfInFlight, d) ==
    IF ~running THEN UNCHANGED catchup
    ELSE IF convergence # None /\ pass[convergence].gen = lifecycleGeneration
    THEN /\ owed' = (owed \/ rerunIfInFlight)
         /\ UNCHANGED <<pass, convergence, rerunRequested>>
    ELSE BeginPass(pass, lifecycleGeneration, d)

\* A call on document d while the engine runs: coalesced with the pass in flight of this
\* generation, which a reconnect marks for a rerun.
ConvergeFromServer(rerunIfInFlight, d) ==
    IF ~running THEN UNCHANGED catchup
    ELSE IF convergence # None /\ pass[convergence].gen = lifecycleGeneration
    THEN /\ rerunRequested' = (rerunRequested \/ rerunIfInFlight)
         /\ owed' = (owed \/ rerunIfInFlight)
         /\ UNCHANGED <<pass, convergence>>
    ELSE BeginPass(pass, lifecycleGeneration, d)

\* A pass ends.  The current one's flag, or an update left pending by an older
\* pass when no current one is at work, begins another.
Settle(i, pending, d) ==
    LET others == [pass EXCEPT ![i] = NoPass]
        again  == IF convergence = i THEN rerunRequested
                  ELSE pending /\ (\/ convergence = None
                                   \/ pass[convergence].gen # lifecycleGeneration)
    IN  IF running /\ again
        THEN BeginPass(others, lifecycleGeneration, d)
        ELSE /\ pass' = others
             /\ convergence' = IF convergence = i THEN None ELSE convergence
             /\ rerunRequested' = (rerunRequested /\ convergence # i)
             /\ UNCHANGED owed

\* The service answers with all it has stored that the pass did not have.
PassAnswered(i) ==
    /\ pass[i].stage = "asked" /\ link # "down"
    /\ IF Active(pass[i].gen)
       THEN /\ lock' = Append(lock, Import(server \ pass[i].since, i))
            /\ pass' = [pass EXCEPT ![i].stage = "import"]
            /\ UNCHANGED <<convergence, rerunRequested, owed>>
       ELSE Settle(i, FALSE, doc) /\ UNCHANGED lock
    /\ UNCHANGED <<server, link, life, manager, edits, restart>>

\* Mutant: one attempt too many.
PassFailsOnceMore(i) ==
    /\ pass[i].stage = "asked" /\ (link = "down" \/ "request" \in MayFail)
    /\ IF Active(pass[i].gen) /\ pass[i].tries <= MaxAttempts
       THEN /\ pass' = [pass EXCEPT ![i].stage = "paused", ![i].tries = @ + 1]
            /\ UNCHANGED <<convergence, rerunRequested, owed>>
       ELSE Settle(i, FALSE, doc)
    /\ UNCHANGED <<server, link, life, manager, edits, lock, restart>>

\* No answer in time: another attempt after a pause, up to MaxAttempts.
PassFails(i) ==
    /\ pass[i].stage = "asked" /\ (link = "down" \/ "request" \in MayFail)
    /\ IF Active(pass[i].gen) /\ pass[i].tries < MaxAttempts
       THEN /\ pass' = [pass EXCEPT ![i].stage = "paused", ![i].tries = @ + 1]
            /\ UNCHANGED <<convergence, rerunRequested, owed>>
       ELSE Settle(i, FALSE, doc)
    /\ UNCHANGED <<server, link, life, manager, edits, lock, restart>>

PassResumes(i) ==
    /\ pass[i].stage = "paused"
    /\ IF Active(pass[i].gen)
       THEN /\ pass' = [pass EXCEPT ![i].stage = "asked"]
            /\ UNCHANGED <<convergence, rerunRequested, owed>>
       ELSE Settle(i, FALSE, doc)
    /\ UNCHANGED <<server, link, life, manager, edits, lock, restart>>

-----------------------------------------------------------------------------
(* The lifecycle.                                                          *)

\* start(): the subscription is to the manager's present document.
StartEngine ==
    /\ running' = TRUE /\ lifecycleGeneration' = lifecycleGeneration + 1
    /\ sub' = cur
    /\ BeginPass(pass, lifecycleGeneration + 1, doc)

\* Mutant: no catch-up at start.
StartQuietly ==
    /\ ~running /\ lifecycleGeneration < MaxGen
    /\ running' = TRUE /\ lifecycleGeneration' = lifecycleGeneration + 1
    /\ sub' = cur
    /\ UNCHANGED <<server, link, manager, edits, lock, restart, catchup>>

Start ==
    /\ ~running /\ lifecycleGeneration < MaxGen
    /\ StartEngine
    /\ UNCHANGED <<server, link, manager, edits, lock, restart>>

StopEngine ==
    /\ running' = FALSE /\ lifecycleGeneration' = lifecycleGeneration + 1
    /\ sub' = None

\* The editor failed or was unmounted.
Stop ==
    /\ lifecycleGeneration < MaxGen
    /\ StopEngine
    /\ owed' = FALSE
    /\ UNCHANGED <<server, link, manager, edits, lock, restart,
                   pass, convergence, rerunRequested>>

\* reset() up to the lock, by the task that holds it and now lets go.
CallReset ==
    /\ lifecycleGeneration < MaxGen
    /\ lock' = Append(Tail(lock), Reset(running))
    /\ IF running THEN StopEngine ELSE UNCHANGED life

\* reset() in the lock.  The service's snapshot seeds a new document, which
\* takes the old one's place even if the seed cannot be imported.
ResetDone(newCur, newDoc) ==
    /\ Holds("reset")
    /\ cur' = newCur /\ doc' = newDoc
    /\ lock' = Tail(lock)
    /\ restart' = (restart \/ Head(lock).was)
    /\ UNCHANGED <<server, link, life, edits, catchup>>

ResetSeeds == link # "down" /\ ResetDone(cur + 1, server)
ResetSeedFails == "seed" \in MayFail /\ link # "down" /\ ResetDone(cur + 1, {})
ResetTimesOut == (link = "down" \/ "snapshot" \in MayFail) /\ ResetDone(cur, doc)

\* start() after a reset, whatever was called meanwhile; a no-op if running.
Restart ==
    /\ restart
    /\ restart' = FALSE
    /\ IF running THEN UNCHANGED <<life, catchup>> ELSE StartEngine
    /\ UNCHANGED <<server, link, manager, edits, lock>>

-----------------------------------------------------------------------------
(* Updates from elsewhere.                                                 *)

\* A client's update is stored and broadcast; an engine that does not listen,
\* or a connection that is down, misses it.  The source keeps events only until
\* its first listener, which is the write-ahead log's, attached before start().
RemoteEdit(o) ==
    /\ o \in Op \ (Mine \cup server) /\ Deps[o] \subseteq server
    /\ server' = server \cup {o}
    /\ IF running /\ link # "down"
       THEN Room /\ lock' = Append(lock, Import({o}, None))
       ELSE UNCHANGED lock
    /\ UNCHANGED <<link, life, manager, edits, restart, catchup>>

\* Another tab gossips an update, perhaps before the service has it.
Gossip(o) ==
    /\ o \in Op \ (Mine \cup doc) /\ running /\ Room
    /\ Deps[o] \subseteq server \cup wal
    /\ \A k \in DOMAIN lock : o \notin lock[k].ops
    /\ lock' = Append(lock, Import({o}, None))
    /\ UNCHANGED <<server, link, life, manager, edits, restart, catchup>>

\* handleRemoteUpdate in the lock.  An update that waits for others is kept
\* by Loro, and a catch-up is called for, within the pass if one is at work.
ImportUpdate ==
    /\ Holds("import")
    /\ doc' = doc \cup Head(lock).ops
    /\ lock' = Tail(lock)
    /\ LET pending == ~(Head(lock).ops \subseteq Applied(doc'))
       IN  IF Head(lock).pass # None THEN Settle(Head(lock).pass, pending, doc')
           ELSE IF pending THEN ConvergeFromServer(FALSE, doc') ELSE UNCHANGED catchup
    /\ UNCHANGED <<server, link, life, cur, edits, restart>>

\* An update that cannot be imported resets the engine.  The pass it came
\* with ends, without a rerun as the engine is stopped.
ImportFails ==
    /\ Holds("import")
    /\ CallReset
    /\ IF Head(lock).pass = None THEN UNCHANGED <<pass, convergence, rerunRequested>>
       ELSE /\ pass' = [pass EXCEPT ![Head(lock).pass] = NoPass]
            /\ convergence' = IF convergence = Head(lock).pass THEN None ELSE convergence
            /\ rerunRequested' = (rerunRequested /\ convergence # Head(lock).pass)
    /\ owed' = (owed /\ running')
    /\ UNCHANGED <<server, link, manager, edits, restart>>

ConnectionLost ==
    /\ link # "down" /\ link' = "down"
    /\ UNCHANGED <<server, life, manager, edits, lock, restart, catchup>>

ConnectionOpens ==
    /\ link = "down" /\ link' = "opened"
    /\ UNCHANGED <<server, life, manager, edits, lock, restart, catchup>>

\* The initial sync of a new connection: the source reports the reconnect.
Reconnect ==
    /\ link = "opened" /\ link' = "up"
    /\ ConvergeFromServer(TRUE, doc)
    /\ UNCHANGED <<server, life, manager, edits, lock, restart>>

-----------------------------------------------------------------------------
(* Local edits.                                                            *)

\* syncStateToLoro() up to the lock.
Edit(e) ==
    /\ e \in Mine \ made /\ running /\ Room
    /\ made' = made \cup {e}
    /\ lock' = Append(lock, Sync(e))
    /\ UNCHANGED <<server, link, life, manager, wal, restart, catchup>>

\* In the lock: the document changes, and tells the engine if it still
\* listens to this document.
SyncApplies ==
    /\ Holds("sync")
    /\ doc' = doc \cup Head(lock).ops
    /\ wal' = IF sub = cur THEN wal \cup Head(lock).ops ELSE wal
    /\ lock' = Tail(lock)
    /\ UNCHANGED <<server, link, life, cur, made, restart, catchup>>

SyncFails ==
    /\ Holds("sync")
    /\ CallReset
    /\ owed' = (owed /\ running')
    /\ UNCHANGED <<server, link, manager, edits, restart, pass, convergence, rerunRequested>>

\* The write-ahead log delivers an edit; its author is not sent it back.
WalDelivers(e) ==
    /\ e \in wal \ server /\ link # "down"
    /\ server' = server \cup {e}
    /\ UNCHANGED <<link, life, manager, edits, lock, restart, catchup>>

-----------------------------------------------------------------------------
PassStep(i) == PassAnswered(i) \/ PassFails(i) \/ PassResumes(i)

LockStep ==
    \/ ImportUpdate \/ ImportFails \/ SyncApplies \/ SyncFails
    \/ ResetSeeds \/ ResetSeedFails \/ ResetTimesOut

Next ==
    \/ Start \/ Stop \/ Restart \/ LockStep
    \/ \E i \in PassId : PassStep(i)
    \/ \E o \in Op : RemoteEdit(o) \/ Gossip(o) \/ Edit(o) \/ WalDelivers(o)
    \/ ConnectionLost \/ ConnectionOpens \/ Reconnect

\* The event loop runs the holder of the lock, answers or timeouts come, and a
\* lost connection is opened again and, now and then, stays up long enough for
\* its initial sync.
Fairness ==
    /\ WF_vars(LockStep) /\ WF_vars(Restart)
    /\ \A i \in PassId : WF_vars(PassStep(i))
    /\ WF_vars(ConnectionOpens) /\ SF_vars(Reconnect)

Spec == Init /\ [][Next]_vars /\ Fairness

-----------------------------------------------------------------------------
TaskType == [kind : {"import", "sync", "reset"}, ops : SUBSET Op,
             pass : PassId \cup {None}, was : BOOLEAN]

PassType == [stage : {"off", "asked", "paused", "import"}, gen : Nat,
             tries : 0..MaxAttempts, since : SUBSET Op]

\* Type correctness of the engine's state.
TypeOK ==
    /\ server \in SUBSET Op /\ link \in {"down", "opened", "up"}
    /\ running \in BOOLEAN /\ lifecycleGeneration \in Nat
    /\ cur \in Nat \ {0} /\ sub \in Nat /\ doc \in SUBSET Op
    /\ made \in SUBSET Op /\ wal \in SUBSET Op
    /\ lock \in Seq(TaskType)
    /\ restart \in BOOLEAN
    /\ pass \in [PassId -> PassType]
    /\ convergence \in PassId \cup {None} /\ rerunRequested \in BOOLEAN
    /\ owed \in BOOLEAN

\* Calls within one lifecycle are coalesced (convergeFromServer): however
\* stops, resets, reconnects and late answers interleave, no two passes of
\* one generation are ever in flight.
OnePassPerLifecycle ==
    \A i, j \in PassId :
        (pass[i] # NoPass /\ pass[j] # NoPass /\ pass[i].gen = pass[j].gen) => i = j

\* A pass of the present lifecycle is in flight.
Current == convergence # None /\ pass[convergence].gen = lifecycleGeneration

\* The engine is about to have update o: a pass has yet to ask for all there
\* is, or will be followed by one that does, or o waits at the lock.
OnItsWay(o) ==
    \/ Current /\ (pass[convergence].stage \in {"asked", "paused"} \/ rerunRequested)
    \/ \E k \in DOMAIN lock : lock[k].kind = "import" /\ o \in lock[k].ops

\* While a running engine is connected and listens to its document, whatever
\* the service has of others is in the document or on its way: no coalesced
\* call, late answer or stale snapshot leaves an update that nothing fetches.
MissingIsOnItsWay ==
    running /\ sub = cur /\ link = "up" =>
        \A o \in server \ Mine : o \in Applied(doc) \/ OnItsWay(o)

\* A reconnect is never absorbed into a pass that began before it: another
\* pass begins, or the engine is stopped.
ReconnectRefetches == owed ~> ~owed

\* Once the connection stays up, what the service stores of other clients
\* reaches the document of an engine that goes on running on it, whatever
\* broadcasts were missed while it was stopped, resetting or disconnected
\* ("anti-entropy", convergeFromServer).
RemoteConverges ==
    <>[](link # "down") =>
        \A o \in Op \ Mine :
            (o \in server) ~> (o \in Applied(doc) \/ ~running \/ sub # cur)
=============================================================================
