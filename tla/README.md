# Verification of INIMOA's collaborative documents and team roles

INIMOA (the `macro` code base) is a web application with many services. Its
hardest and most valuable promise is made by the collaborative documents: *an
edit that was accepted is never lost, and every open editor ends up showing the
same document.* The hardest one outside the documents is made by the teams: *who
may change a business role, and who paid for which seat, is decided by what is
true when the change commits, and can be read back from the audit.* This
directory holds TLA+ models of the code that keeps these promises, the TLC runs
that check them on small instances, and TLAPS proofs of their safety properties.

Paths below are relative to `src/` of the repository checkout.

## 1. Inventory

### 1.1 The documents' path

```
 editor ─ SyncEngine ─ WALSyncer ─ SyncServiceSource ─ Websocket ─► DocumentSyncSession
            │    ▲        │  IndexedDB    (push, ack)                 (Durable Object)
   LoroManager   │        └─ log, shared by tabs                      SQL snapshot, KV log,
            │    └─ Chatter (BroadcastChannel, other tabs)            alarm, Worker KV (legacy)
            └─ snapshot store (IndexedDB)
```

| Component | Source | State | Operations | Hard because |
|---|---|---|---|---|
| document session | `services/sync-service/src/durable_object.rs`, `websocket.rs` | sockets and their metadata, the loaded document, the session storage, an alarm | connect, initialize, exists, reads, websocket messages, alarm, close | handlers interleave at every await that is not on the object's own storage; the object may crash or hibernate between steps |
| in-memory document | `.../state.rs` | Loro document, `last_update`, `last_export` | import, replay, export, `should_save` | updates ahead of their causes are held back by Loro and not exported; instants are compared strictly |
| storage | `.../storage.rs`, `.../storage/backends/*` | SQL snapshot, legacy snapshot in Worker KV, pending log `o/`, record `a/`, `applied_keys` | load, store, append, clear | several stores, no transaction across them, each call may fail |
| write-ahead log | `packages/collaboration/src/collab/wal.ts` | rows and delivered marks in IndexedDB; `isFlushing`, `hasNewPending` per tab | setup (expiry), append, flush, mark, prune | tabs share the log; flushes can overlap; acks may be late |
| sync source | `.../sync-service/source.ts` | waiters, listeners, `initialSyncReceived` | pushUpdate, requestSnapshot, requestUpdatesSince, events | timeouts race answers; events without a listener are dropped |
| sync engine | `.../collab/engine.ts` | running, `lifecycleGeneration`, `syncLock`, `convergence` | start, stop, reset, syncStateToLoro, handleRemoteUpdate, convergeFromServer, persistSnapshot | lifecycle calls interleave with passes of older lifecycles and with tasks at the lock |
| Loro manager | `.../collab/manager.ts` | the LoroDoc, its mirror | ingest, importUpdate, syncToLoro, reset | reset frees the document others hold |
| gossip | `.../collab/chatter.ts` | a BroadcastChannel | post, subscribe, close | delivers updates before the service has their causes |
| snapshot store, cold load | `.../collab/snapshot-store.ts`, `apps/web/.../block-md/component/Block.tsx` | last local snapshot | save, load, fold | races the initial sync; saved and logged state must fit |
| reconnecting WebSocket | `.../websocket/core/websocket.ts`, `sync-service/socket.ts` | connection, backoff, send buffer, heartbeat | connect, retry, reconnect, send, heartbeat | timers of old connections against new ones |

What would make each of them correct: the session never loses what it acked or
showed, brings every socket up to date and saves eventually; the log keeps an edit until the service has it and takes it
there eventually, in an order the service can apply; the engine converges to
the service's content whatever lifecycle calls come, with one catch-up at a
time; the socket makes one connection at a time, replaces it when it is dead and
sends every message once and in order.

### 1.2 Teams

| Component | Source | State | Operations | Hard because |
|---|---|---|---|---|
| role change | `crates/teams/src/outbound/business_role_change.rs` | `team_business_role` | grant, revoke, deny | checks are read in one statement and used in a later one; removals and demotions run beside them; a denial is audited after its rollback |
| membership | `crates/teams/src/outbound/team_repo.rs` | `team_user`, `team_invite`, `team.seat_count` | accept, auto-join, remove, patch role, roll back | no foreign key ties a role to a membership |
| team service | `crates/teams/src/domain/team_service.rs`, `outbound/customer_repo.rs` | the payment provider's quantity | add and remove a member across Postgres, provider, channels, permissions | each step may fail, and has its own compensations; other requests run in between |
| reauthentication | `crates/reauthentication/src/outbound/pg_repo.rs` | receipts | consume | one receipt, several commands and retries |
| business audit | `crates/business_audit/src/outbound/pg_repo.rs` | audit events | insert | must agree with the tables after every failure |

What would make them correct: only members hold roles; the audit adds up to the
roles held; one receipt pays for one change; the change is authorized when it
commits; no two commands deadlock; seats are counted and billed.

### 1.3 The rest of the repository

Agent sessions, streams, the event broker, webhooks, scheduled actions, the
connection gateway, mail, search, CRM and the user interface are listed in
`PROJECT.json`; section 6 says why they are not modelled.

`PROJECT.json` also lists the hazards of the modelled code, each at its line,
with the properties that cover it.

## 2. Modules

| Module | What it is |
|---|---|
| `DocumentLedger` | what a document session promises: an abstract ledger of updates |
| `SyncSession` | the Durable Object of one document; implements `DocumentLedger` |
| `WalSyncer` | the write-ahead log of one browser, with several tabs |
| `SyncEngine` | the lifecycle, lock and catch-up passes of one tab |
| `Websocket` | the reconnecting socket of one tab |
| `RoleRegister` | what a team promises about business roles: an abstract register of authorized changes |
| `TeamRoles` | membership, roles, receipts, audit and seats of one team; implements `RoleRegister` |
| `MCSyncSession`, `MCWalSyncer`, `MCSyncEngine`, `MCTeamRoles` | instances for TLC (`Websocket` needs none) |
| `SyncSessionProofs` | the session in a sound deployment: what is acked or shown is durable |
| `SyncLedgerProofs` | the session implements `DocumentLedger`; the record, the readers, the peers |
| `SyncFaultProofs` | what the session keeps when calls fail: types, alarms, sockets, snapshots |
| `WalSyncerProofs`, `SyncEngineProofs`, `WebsocketProofs`, `TeamRolesProofs` | theorems about the module each is named after |
| `TeamRegisterProofs` | the team implements `RoleRegister` |

The documents' components meet at narrow interfaces, each modelled from both sides.
`SyncSession.MayPush` lets a client push any of the rows of the log that its tab
shares with others. The session checks no dependencies; whether clients push over
a gap is the constant `CausalClients`, and where it is TRUE (`Causal`) the
session's properties are an assume/guarantee pair with `PushIsCausal` of `WalSyncer`.
That guarantee covers **one tab per browser that stays open** and no more: a tab that dies
(finding 2) and two tabs (section 4) do push over a gap. Then the session acks an
update that Loro holds back, the next alarm exports without it and clears it
from the log, and `AckedDurable`, `SentIsRecoverable`, `StoredReachesPeers` and
`ImplementsLedger` do not hold; only the record `a/` still has the update
(`AckedRecorded`, which is checked and proved with such pushes). `WalSyncer.ServerStores` is an update
acked by the session, which `AckedDurable` makes durable. `SyncEngine.server`
is what the session stores and sends to peers, and both session and log see
`Websocket` as messages that arrive in order (`SentInOrder`) or are lost with
their connection, and its `HalfOpenIsDropped` and `KeepsTrying` are what the
engine's fairness takes for granted of a lost connection.

The documents' modules share one abstraction of Loro: an update is a member of a set, a
document is the set of updates imported, and `Applied` gives the ones whose
dependencies are all there, which are the ones that are visible and exported.

### 2.1 SyncSession

A handler is a task with a program counter (`pc`). While an operation on the
object's own storage is awaited, the runtime's input gate keeps other events
out, so the task stays `active` and takes its steps one storage call at a time;
only `Crash` interleaves. While something outside the object is awaited
(Worker KV, a request body) the task is `parked`, and others run.

- *Loading* (`LoadCached`, `LoadFromSql`, `LoadFromKv`, `KvAnswers`,
  `KvFails`): `document_state()` and `load_document_state()`. The version
  comparison only logs, so the loaded state is installed whatever happened
  meanwhile. A read of the snapshot in SQL does not fail in the model, and neither
  does the send of an initial sync. `waits` remembers which KV answers were awaited before the alarm
  was scheduled: the 4.5 s limit on a KV call is shorter than the 5 s alarm.
- *Requests* (`ConnectBegin`, `ConnectWelcome`, `InitializeBegin`,
  `InitializeStore`, `InitializeRefused`, `InitializeAnnounce`, `ExistsBegin`,
  `ExistsEnd`, `ReadBegin`, `CloseSocket`). Initialize may be called any number of
  times by each `Initializer`, one request after another; two of them are two
  requests that may overlap.
- *Messages* (`UpdateBegin`, `QueryBegin`, `ApplyOp`, `RecordOp`, their
  failures, `ImportFails`, `AckAndBroadcast`, `AckFails`, `Reply`, `BumpAlarm`):
  `apply_op` imports before it puts under `o/`, and puts under `a/` after that; an
  import, a put or an ack that fails ends the handler where it stands, with the
  earlier updates of the batch stored.
- *Alarm* (`AlarmBegin`, `StoreSnapshot`, `NothingToSave`, `SqlPutFails`,
  `ClearAppliedOps`, `ClearFails`, `Rearm`).
- *Runtime* (`Crash`, `Hibernate`).

The modelled build is the deployed one: default features, with the SQL snapshot
storage and without `create-default-state`.

`DocumentLedger` says what all this is for, in three variables: `stored` grows one
update at a time, each by somebody who may edit and on top of what it was made
on; `acked` and `shown` grow with what is stored; nothing shrinks. `SyncSession`
implements it (`ImplementsLedger`) with `stored <- Recoverable`, which is what a
load would give *now*, from snapshot and log, whatever is in memory. A crash, a
load, a save or a cleared log is then a stutter of the ledger, and `ApplyOp`'s
put is the step in which an update is accepted.

### 2.2 WalSyncer

IndexedDB (`rows`, `delivered`, `snap`, `cached`) is shared by the tabs. A
tab's memory is the document, the queue of appends that were not awaited, up to
`MaxFlush` flushes (two can overlap, because `isFlushing` is set only after
`ready()`), and one snapshot job. `net` and `acks` are the pushes and acks on
their way; a push whose waiter timed out or died is orphaned and still arrives.
Expiry removes undelivered rows together with the rows they depend on, which
are at least as old. A tab opens from the server's snapshot, which it has only after the
initial sync was received (`OpenRemote`), or from its own while that is still
awaited (`OpenCached`); the first initial sync may time out only for the latter.

### 2.3 SyncEngine

`lock` is the queue of `syncLock`, and its head holds it. `pass` holds the
catch-up passes in flight, of any generation; `convergence` and
`rerunRequested` are the engine's record of the current one. `cur` counts the
documents that the manager has held and `sub` is the one whose local updates
the engine gets. Own edits have no dependencies (`EngineAssumption`): the properties
are about the updates of others, which may depend on anything. A pass that settles and the call that its rerun makes are one
step, as in the code's promise chain. A message of the service is handled in
the order sent, so the model takes it as sent when it is handled.

`owed` is a history variable: a reconnect was heard while a pass was in flight
and no pass has begun since.

### 2.4 Websocket

An action is one task of the browser's event loop: a native event (`Opens`,
`Fails`, `Closes`), a timer (`RetryFires`, `Tick`, `PongTimesOut`), the url
resolver's answer (`UrlResolved`) or a call (`Send`, `Close`, `Reconnect`,
`ReconnectIfDisconnected` on 'online' and 'visibilitychange', `FirstSync` for the
source's own start of the heartbeat). A socket that was replaced lives on in
`strays`. The heartbeat's timers belong to the object and not to a connection,
so the model notes which connection each was started for; `HeartbeatIsOwn` says
that this note is never needed. `PathChanges` lets the peer fall silent without
a close.

### 2.5 TeamRoles

A command of `business_role_change.rs` is taken statement by statement where
Postgres at READ COMMITTED lets others in: `Claim` (the receipt's UPDATE),
`LockRow` (SELECT ... FOR UPDATE of one membership, in the order of the ids),
`Decide`, `Commit`, and `Deny` in a transaction of its own after the rollback. A row
that does not exist cannot be locked, so a user may join between the read and the
commit. A transaction of the team repository waits at one membership
row (`RowFree`) and is one step. Adding or removing a member is a saga: the
transaction (`RemoveUser`, `AcceptInvite`, `AutoJoin`), the provider's quantity read
and written (`BillRead`, `BillWrite`), the rest, and the compensations. Any
call may fail, an answer may be lost after its effect (`BillAnswerLost`,
`Commit` into "error"), and the process may die (`SagaLost`, `ChangeFails`).

`ledger` is the sum of the audited grants and revocations. `overlapped`, `slips` and
the `stale` field are history: a request began while another was in progress; how often
until then a billing outcome was not learned (`BillAnswerLost`), a seat was not
given back (`BillFails` of a compensation) or a request was cut off between a
membership and its bill (`SagaLost`); the removed user came back. `SeatsAreBilled` says
that the bill is off by at most one seat for each slip, and exact without one.

`RoleRegister` says what all this is for: a role changes by `Grant` or `Revoke`, at
once, by an actor who governs at that moment and with a receipt of his own that was
never spent; or with the membership it belongs to, which begins without roles
(`Join`), ends with them (`Remove`, `Withdraw`) and is brought back with them only by
the removal that ended it (`Restore`). `TeamRoles` implements it
(`ImplementsRegister`) with the roles *as the audit tells them* (`Audited`), the spent
receipts, and what the removals in progress remember (`Removed`). Locks, checks, denials,
invites, expiry and the provider's quantity are stutters. That a receipt had not
expired is checked at the claim, not at the commit, and so is no part of the register.

## 3. Runs

All runs set `CHECK_DEADLOCK FALSE`: a service or a tab to which nothing happens
may rest for good.

| Run | Instance | States | Shows |
|---|---|---|---|
| `SyncSession` | 2 clients, a seed, an edit of each that builds on the one before, rows that either may push, initialize again and again, log deletion may fail | 57 k | with clients that push over no gap the session implements the ledger: acked and shown updates survive; peers miss nothing, snapshots only grow; `IdleOwesNothing`, `DirtyIsSaved`, `ConnectedIsSynced` |
| `SyncSessionFaults` | imports, storage calls and acks may fail, a legacy snapshot, a reader, pushes over gaps | 659 k | the record `a/` has every acked update; a reader leaves nothing |
| `WalSyncerTabs` | 2 tabs and an edit that both handle, closing, expiry, missed syncs, failures | 990 k | `LoggedNotLost`; marks only on rows that are there (`TypeOK`) |
| `WalSyncerLive` | 1 tab, 2 dependent edits, 2 overlapping flushes | 69 k | `PushIsCausal`, `AppendReachesServer` |
| `WalSyncerRetry` | 1 tab, 2 dependent edits, failures of pushes, acks and saves | 38 k | `EditsReachServer` |
| `SyncEngine` | an edit and an update made on it, 2 attempts, 2 passes, 3 generations | 310 k | `OnePassPerLifecycle`, `MissingIsOnItsWay`, `ReconnectRefetches`, `RemoteConverges` |
| `Websocket` | 2 retries, 1 missed heartbeat, 2 messages, 2 explicit reconnects | 14.6 k | one attempt, owned connections, heartbeats of their own, messages in order, `HalfOpenIsDropped`, `KeepsTrying` |
| `TeamRoles` | an owner and a user, 2 receipts, 3 requests of which 2 commands and 2 sagas may be under way | 1.11 M | `RolesHaveMembers`, `AuditExplainsRoles`, `ReceiptSpentOnce`, `AuditedOnce`, `ImplementsRegister`, `NoDeadlock`, `SeatsCountMembers`, `SeatsAreBilled` |
| `SyncSessionPutFails` | a rejected put | violation | `AckedDurable` |
| `WalSyncerGap` | a tab that dies | violation | `PushIsCausal` |
| `WalSyncerOffline` | a tab opened from its cache that missed its initial sync | violation | `EditsReachServer` |
| `TeamRolesRestore` | the instance of `TeamRoles` | violation | `RestoresFreshRoles` |

### 3.1 Bounds and why they are enough

- `MaxParked = 2`: the races of the session need two handlers that wait at the
  same time; a third has no further kind of step to take.
- Updates: a seed, an edit made on it and one of another author made on both
  are what tells a causal gap from a loss. `SyncSession` has no legacy snapshot and one
  initialize request at a time, as `SoundDeployment` says; the race of two and a late
  legacy load are listed hazards, and of them `SyncSessionFaults` has the legacy load.
- `MaxFlush = 2` in `WalSyncerLive`: two flushes of a tab can overlap. `WalSyncerTabs`
  has one flush per tab and one edit, but two tabs whose flushes, marks and prunes
  meet in the shared log; what an edit of its own adds is order, which the
  one-tab runs check. Flushes that overlap within one tab are in `WalSyncerLive`, and
  in the proof of `LoggedNotLost`, which is for any number of them. `WalSyncerLive`'s tab
  stays open: what a tab that dies does to the order is `WalSyncerGap`.
- `MaxAttempts = 2` (3 in the code) distinguishes the first, the last and a
  retried attempt. `MaxPass = 2` lets a pass of an older generation end beside
  the current one. `MaxGen = 3` allows start, stop and start, or start and reset with
  its restart, and bounds only the calls from outside: a restart after a
  reset is never prevented. `MaxWait = 2` bounds the tasks at the lock when a
  broadcast, gossip or edit arrives.
- `Websocket`: 2 retries (20 in the code) distinguish the first, the last and
  one too many; `MaxMissed = 1` a heartbeat that may be missed from one that may
  not; 2 messages an order. Calls of `ReconnectIfDisconnected` are not bounded.
- `TeamRoles`: 2 users are an inverted pair of commands, a grant to oneself, a
  command beside the removal of its actor or of its target, and a rejoin; 3
  requests are a removal, a rejoin and a second removal, or two commands and a
  removal. Roles are independent of each other, so one is enough for TLC, one that
  can be granted: that derived roles (`Derived`) are never held is covered by the
  proof alone, as the proofs are for any number of each.
- `MayFail` and `MayHappen` say which failures a run admits. The properties that
  a failure breaks are stated under the runs that leave it out, and the
  failure is a finding or a hazard of its own.

### 3.2 Fairness

- `SyncSession`: the runtime runs a task it started and delivers answers and
  alarms (`SF` where other events keep closing the gate). `SF` of
  `ClearAppliedOps` assumes that the deletion succeeds in the end; it would not
  with more keys than `delete_multiple` accepts, which is a listed hazard.
  Clients are obliged to nothing, and crashes are unlimited.
- `WalSyncer`: IndexedDB and the event loop make progress, and of infinitely many
  pushes and acks some arrive. `RetrySpec` adds the engine's 5 s
  `persistSnapshot` interval, which also flushes: without it nothing retries a
  failed push until the next append or reconnect.
- `SyncEngine`: the holder of the lock and every pass go on (answers or
  timeouts), a lost connection is opened again, and of infinitely many
  connections some live to their initial sync. `RemoteConverges` is stated for
  behaviours in which the connection stays up from some point on, and with
  answers that beat their timeouts then ("request" is not in `MayFail`): a pass
  that exhausts its attempts on a live connection is not repeated by the code.
- `Websocket`: timers fire, the resolver answers, an attempt ends one way or the
  other, a closing socket is closed in the end. No attempt has to succeed and no
  peer has to answer. `KeepsTrying` is stated for behaviours in which the
  connectivity signals end: each begins an attempt afresh.
- `TeamRoles` has no liveness: a request may fail at any of its steps.

### 3.3 Findings

Each violation run is a disagreement between the code and what a comment of the
repository says of it; `PROJECT.json` quotes both.

1. **A rejected put** (`durable_kv.rs:104`). The update is already imported,
   is shown, and an update built on it is acked. After a reload that one is
   pending; the next save exports without it and clears it from the log.
2. **An edit saved but not logged** (`engine.ts:278`). The append is not
   awaited; the local snapshot may have the edit and the log not when the tab
   dies. Later edits are pushed on top of a gap.
3. **A missed first initial sync** (`source.ts:175`). A tab opens from its local
   snapshot, its first initial sync times out, and it reconnects: the initial
   sync of the reconnect does not set `initialSyncReceived`, so every push is refused
   while the tab stays open. A tab opened from the server's snapshot has had its
   initial sync and is not affected.
4. **A removal undone after a rejoin that ended** (`team_repo.rs:1095`). The
   compensation recognizes a rejoin by the membership row; when the rejoined
   membership has ended as well, it restores the first one with its roles.

Observed while modelling, without a run of their own:

- two initialize requests both pass `has_snapshot` while they await Worker KV and
  their bodies, and the second replaces the first one's snapshot
  (`durable_object.rs:437`, against the comment at line 433): with two members of
  `Initializer` TLC violates `SnapshotGrows` and `AckedDurable`. A legacy load that comes
  late replaces a newer document in memory (`durable_kv.rs:211`).
  `SoundDeployment` excludes both;
- an update pushed over a gap is acked, held back by Loro, left out of the next
  snapshot and cleared from the log (`websocket.rs:215`, `state.rs`,
  `durable_kv.rs:165`): with `CausalClients = FALSE` TLC violates `AckedDurable`.
  The clients of finding 2, and two tabs, push such updates;
- an import that fails ends the handler without ack, broadcast or `bump_alarm`,
  though earlier updates of the batch were stored (`durable_kv.rs:103`):
  `IdleOwesNothing` and `StoredReachesPeers` do not hold then, and their proofs assume
  that imports succeed;
- flushes called before `ready()` overlap in spite of `isFlushing`
  (`wal.ts:227`), which the checks show to be harmless;
- `pruneDelivered` may drop an entry that the saved snapshot does not have, though
  the service does (`engine.ts:295`);
- a failed send of the ack skips the broadcast (`websocket.rs:259`);
- after a reset the tab's own undelivered edits are missing from its document until
  the next catch-up (`manager.ts:436`);
- a second reset that overlaps the first leaves the engine subscribed to a freed
  document (`engine.ts:226`); an edit that waits at the lock while `stop()` runs is
  applied and not logged; a `stop()` during a reset is undone by it;
- the source's backlog goes to the log's listener, never to the engine
  (`source.ts:90`, `wal.ts:489`);
- a socket that spent its retries is revived by 'online' and 'visibilitychange'
  only, not by an edit (`socket.ts:51`); a reconnect whose initial sync times out
  is not repeated while the peer answers pings (`source.ts:402`);
- `autoStart: false` does not reach the socket (`websocket.ts:81`), so the
  heartbeat runs from the open event on, against `socket.ts:68` ("Start heartbeat manually
  after initial sync completes") and `source.ts:129`, which wants no heartbeat to
  close a connection "during slow syncs". With the option in effect a peer that
  falls silent before its initial sync would never be dropped (`HalfOpenIsDropped`);
- the rest of a removal takes a user who rejoined meanwhile out of the channels of
  the new membership (`team_service.rs:907`);
- a billing call that fails is taken for one without effect (`team_service.rs:888`):
  when the provider stored the quantity and only the answer was lost, the membership
  is rolled back, every compensation succeeds, and the bill stays one seat off;
- overlapping additions and removals can lose an update of the provider's
  quantity (`customer_repo.rs:90`), which `SeatsAreBilled` does not cover, and two auto-joins can pass the seat cap
  together (`team_service.rs:1835`).

## 4. Proofs

TLAPS checks every proof to its leaves. All theorems hold for any finite or
infinite sets of updates, clients, tabs and edits and any bounds allowed by the
named assumptions of the modules.

**SyncSession** (`AcksAreDurable`, `ShownIsDurable`), under
`SoundDeployment`: no legacy snapshot, initialize requests one at a time, puts and SQL
statements that do not fail, and clients that push nothing over a gap (finding 1 and the
first two observations above are what happens otherwise; the last of the four is
an assumption on clients that only one tab which stays open meets). None of these
properties is inductive: whether an acked update survives the next save depends
on what is in memory, whether it may be cleared depends on where the alarm
handler stands, and whether the document is causally complete depends on what
the client that pushes was shown. The inductive invariant says:

- before initialize there is nothing anywhere (`EmptyBefore`);
- snapshot and log together are causally complete (`StoredClosed`);
- a loaded document is exactly snapshot and log (`DocIsStored`);
- what was acked or shown is stored (`ShownIsStored`);
- a handler past its load has a document (`TaskHasDoc`);
- the log is cleared only when the snapshot covers it (`ClearIsCovered`);
- a batch is applied in order, on what its sender was shown (`BatchInOrder`);
- an initialize request that waits has found no snapshot (`InitWaits`).

**The refinement** (`SessionImplementsLedger`), under `SoundDeployment`. Under the
invariant what a load would give is exactly snapshot and log, so the mapped
`stored` changes where one of the two does: at a put, where it grows by one update
whose dependencies `BatchInOrder` has put before; at the first snapshot; and
at nothing else, since a save exports what is stored and a log is cleared when
covered. Every other step is a `Show`, an `Acknowledge` or a stutter.

**The session's faults.** `AcksAreOnRecord` and `ReadersLeaveNothing` have no
assumption but the constants' own: neither follows from the invariant above,
which needs a sound deployment, so they have one of their own (`RInv`): a task,
parked or not, carries updates of one client that may edit; nothing else is
anywhere; and at the ack the whole batch is on record. `NobodyMissesAnUpdate` adds
to `SoundDeployment` that an ack can be sent (the early return after a failed one
is a listed hazard) and that imports succeed: its invariant `PeerInv` lets a synced client lack just what
the batch at work has stored and not yet broadcast.

`SyncFaultProofs` asks of each property only what it needs. `TypeCorrect` needs
nothing. `DirtyIsScheduled` needs imports, puts and acks that do not fail, since only these skip
`bump_alarm`: a dirty document has an alarm unless the handler at work is one that will
schedule it. `SocketsAreServed` needs that there is no legacy snapshot: once there is
a document, the only sockets without an initial sync are the one that a connect
request at work is about to serve and those that an initialize request at work is.
`IdleObjectOwesNothing` joins the
two; it is the safety behind `DirtyIsSaved` and `ConnectedIsSynced`, whose
fairness stays with TLC. `SnapshotsGrow` needs `SnapshotDeployment` (no legacy snapshot,
initialize requests one at a time, SQL statements that do not fail); clients may push
over gaps, and imports, puts, acks, deletions and KV may fail: memory may then be ahead of the log, never behind the snapshot.

**WalSyncer** (`LoggedEditsAreNotLost`, `TypeCorrect`), with no assumption but the
constants' own, whatever fails, closes or expires: besides types and
`LoggedNotLost` the invariant says that a row marked delivered is stored, that a
push on its way and the flush that waits for it carry the same batch, that an ack
on its way is for a stored batch, and that a flush about to mark rows marks
stored ones. `PushesAreCausal` is for one tab that stays open and entries that do
not expire (`OneTab`; finding 2 is what a tab that closes can do): what the log
holds undelivered is causally complete with the server, and the document is with
the appends that are queued behind it. With two tabs `PushIsCausal` is false though
none closes: a tab tells another of an edit before its append is written, and the
other may log and push an edit made on it first. What holds for any number of tabs
that are not closed is `GapsCanBeFilled` (`GapsAreHeld`): every edit made, and
all it was made on, is stored, undelivered in the log, expired or queued for its
append, so the gap is filled by the flush that follows that append. Its invariant
`Conserved` follows an edit through every place it can be in.

**SyncEngine** (`PassesAreCoalesced`, `ReconnectsAreMarked`, `TypeCorrect`), again
with no further assumption: `OnePassPerLifecycle` alone is not inductive, since a new
pass begins whenever `convergence` does not show one of the present generation.
`PassesAreKnown` closes the gap: no pass is ahead of the engine's generation, and
the pass of the present one, while the engine runs, is the one that
`convergence` names. `ReconnectsAreMarked` says that a reconnect which met a pass is
never forgotten: until a pass begins after it, the pass in flight is of the present
lifecycle and marked for a rerun.

`NothingIsLeftBehind` (`MissingIsOnItsWay`) is the safety behind `RemoteConverges`,
for any updates with any dependencies, under the one assumption that a pass does not
time out while connected ("request" is not in `MayFail`; one that gives up then
is not repeated by the code, a listed hazard). It needs two more invariants.
`Books`: each answer at the lock belongs to one pass that waits for it and completes
the version it asked from, the service stores no update before its causes, and a pass
asks from a version that the document has applied. `Supply`: the answer that the current pass waits
for, with what is at the lock behind it, brings all that the service has of others
(`AnswerCovers`). The delicate steps are the import of an answer ahead of its
causes, which must begin or mark a pass; an answer that comes while a broadcast waits
at the lock; and the restart after a reset, whose snapshot may be older than
the broadcasts nobody heard.

**Websocket** (`HeartbeatsAreOwn`, `OpenConnectionsAreOwned`, `OneAttemptAtATime`, `NobodyIsStranded`,
`MessagesInOrder`, `TypeCorrect`), for all limits: the safety properties are
inductive together with three facts: no heartbeat runs while an attempt or a retry is
under way, a connection with too many misses is not open, and nothing is buffered
behind an open connection.

**TeamRoles** (`OnlyMembersHoldRoles`, `AuditIsComplete`, `SeatsAreMembers`,
`BillingFollowsSeats`, `OneChangePerReceipt`, `OutcomesAreAudited`,
`CommandsCannotDeadlock`, `CommitsAreAuthorized`, `TypeCorrect`), for every finite
set of users, every set of roles and receipts, and any number of commands and sagas
at once (`TeamAssumption`). The invariant says that a locked row is as it was read and
locked by one command, that what `Decide` found holds at the commit, that a
claimed receipt is unspent and claimed once, that rows are read in order, and, while
one saga at a time is at work, how far what is billed may be from the seats at each of its
steps (`Progress`): at most one seat for each slip so far. The lower bound of the
quantity never widens that (`QuantityIsNear`), because the owner always has a seat.
`CommandsCannotDeadlock` is about any set of commands, not only pairs: a command that is
waited for has its own next row further on, so along a chain of waits the set of rows
above the next one shrinks, and the order of finite sets by inclusion is well founded.

**The team's refinement** (`TeamImplementsRegister`), with no further assumption. Under
the invariant the audited roles are the roles held, so the mapped state changes where
a table does. `Commit` is a `Grant` or a `Revoke`: its actor and target are as they were
read, because their rows are locked, its receipt is unspent and claimed by nobody else,
and `Decide`'s view of the role still holds. A request is a `Join` or a `Remove`, a
compensation a `Restore`, a `Withdraw` or, when the user is back, a `Finish`. It implies
`AuthorizedAtCommit`, which `CommitsAreAuthorized` states of the commands themselves.

**Only model-checked**: all liveness (`DirtyIsSaved`, `ConnectedIsSynced`,
`AppendReachesServer`, `EditsReachServer`, `ReconnectRefetches`,
`RemoteConverges`, `HalfOpenIsDropped`, `KeepsTrying`), because TLAPS does not reason
about fairness here. Every safety property of a passing run is proved, those of
`SyncSession`, `MissingIsOnItsWay` and `PushIsCausal` under the assumptions named
above, which the runs that check them satisfy.

## 5. Abstractions

- `pruneDelivered` and `pruneExpired` read in one IndexedDB transaction and
  delete in another; the model does it in one step. A row only ever goes from
  undelivered to delivered, and expired rows are old, so the rows deleted are
  the same or fewer.
- The order of keys in the log is left out: Loro imports a batch in any order.
- Awareness, blame, telemetry and editor bindings are left out; no modelled state
  depends on them.
- The seed of a document is an update in `SyncSession`, where its loss matters,
  and not in the client's modules.
- `SyncEngine` takes the write-ahead log as a set that is delivered sooner or later,
  in any order; the log itself is `WalSyncer`.
- A wrong update, one that Loro refuses, is a step that may happen to any import
  (`ImportFails`) or edit (`SyncFails`).

## 6. Not modelled

The repository has some 670 thousand lines in more than six thousand files. Most of
them are generated clients and schemas, user interface, and request handlers over
one Postgres statement or an external service; a model of these would restate
them. The modules therefore cover a small share of the lines, and of those the
ones in which several actors, failures or restarts meet:

- *the documents' path* is modelled from the editor's engine to the storage of
  the session, except awareness, blame and reports, which nothing reads back;
- *Loro, the mirror, Lexical* are libraries or pure conversions: what the modules
  use of them is the rule that an update waits for its dependencies;
- *R2 storage* is compiled only with a feature no deployment enables;
- *teams*: creating and deleting a team, inviting, plans and caps, and teams without a
  subscription; channels and permissions appear only as calls that succeed or fail;
- *agent sessions, durable streams, scheduled actions*: their order and
  exclusion are kept by Redis, Kafka or Postgres, and the code adds polling to it.

## 7. Plan

Done: `SyncSession` with `DocumentLedger`, `WalSyncer`, `SyncEngine`, `Websocket`,
`TeamRoles` with `RoleRegister`, their runs, proofs of all their safety properties and
of both refinements.

Candidates, in this order: an abstract specification of the message channel that
`Websocket` implements; the composition of `WalSyncer`'s server with `DocumentLedger`;
`TeamRoles` with the state of channels and permissions, for removals that meet a
rejoin; the claims of scheduled actions and of agent sessions.
