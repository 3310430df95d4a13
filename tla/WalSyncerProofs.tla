-------------------------- MODULE WalSyncerProofs --------------------------
(***************************************************************************)
(* Proofs about WalSyncer for any number of tabs, edits and concurrent     *)
(* flushes, and whatever may happen to them.                               *)
(***************************************************************************)
EXTENDS WalSyncer, TLAPS

-----------------------------------------------------------------------------
(* The inductive invariant, by parts.                                      *)

\* A row is marked delivered only once the server has it.
DeliveredIsStored == delivered \subseteq server

\* A push that somebody waits for is the one its flush sent, not acked yet.
NetMatches ==
    \A m \in net : m.slot # Orphan =>
        /\ flush[m.tab][m.slot].stage = "push"
        /\ flush[m.tab][m.slot].batch = m.batch
        /\ [tab |-> m.tab, slot |-> m.slot] \notin acks

\* An ack finds its flush waiting, for a batch that the server has.
AcksMatch ==
    \A a \in acks :
        /\ flush[a.tab][a.slot].stage = "push"
        /\ flush[a.tab][a.slot].batch \subseteq server

\* A batch about to be marked is stored.
MarkIsStored ==
    \A t \in Tab : \A i \in Slot :
        flush[t][i].stage = "mark" => flush[t][i].batch \subseteq server

IInv ==
    /\ TypeOK /\ LoggedNotLost /\ DeliveredIsStored
    /\ NetMatches /\ AcksMatch /\ MarkIsStored

FlushesTyped ==
    /\ flush \in [Tab -> [Slot -> FlushType]]
    /\ isFlushing \in [Tab -> BOOLEAN] /\ hasNewPending \in [Tab -> BOOLEAN]

-----------------------------------------------------------------------------
(* What the flush operators do.                                            *)

InFlight == {"push", "mark"}

\* Steps that disturb no flush whose batch is on its way or being marked.
InFlightKept ==
    \A u \in Tab : \A j \in Slot :
        \/ flush'[u][j] = flush[u][j]
        \/ flush[u][j].stage \notin InFlight /\ flush'[u][j].stage \notin InFlight

\* Starting to read touches the slots started, no other.
LEMMA BeginReadFlush ==
  ASSUME FlushesTyped, NEW t \in Tab, NEW started \in SUBSET Slot, BeginRead(t, started)
  PROVE  /\ FlushesTyped'
         /\ \A u \in Tab : \A j \in Slot :
               flush'[u][j] = IF u = t /\ j \in started
                              THEN [stage |-> "read", batch |-> {}] ELSE flush[u][j]
  <1>1. [stage |-> "read", batch |-> {}] \in FlushType
    BY DEF FlushType
  <1>2. \A j \in Slot : flush[t][j] \in FlushType
    BY DEF FlushesTyped
  <1>3. [i \in Slot |-> IF i \in started THEN [stage |-> "read", batch |-> {}]
                        ELSE flush[t][i]] \in [Slot -> FlushType]
    BY <1>1, <1>2
  <1>4. flush' \in [Tab -> [Slot -> FlushType]]
    BY <1>3 DEF BeginRead, FlushesTyped
  <1>5. (isFlushing \in [Tab -> BOOLEAN] /\ hasNewPending \in [Tab -> BOOLEAN])'
    BY DEF BeginRead, FlushesTyped
  <1>6. \A u \in Tab : \A j \in Slot :
           flush'[u][j] = IF u = t /\ j \in started
                          THEN [stage |-> "read", batch |-> {}] ELSE flush[u][j]
    BY DEF BeginRead, FlushesTyped
  <1>. QED BY <1>4, <1>5, <1>6 DEF FlushesTyped

\* A call to flush() leaves what is in flight alone.
LEMMA CallFlushKeeps ==
  ASSUME FlushesTyped, NEW t \in Tab, CallFlush(t)
  PROVE  FlushesTyped' /\ InFlightKept
  <1>1. CASE UNCHANGED flushing
    BY <1>1 DEF flushing, FlushesTyped, InFlightKept
  <1>2. CASE \E i \in Slot : flush[t][i] = Off /\ BeginRead(t, {i})
    <2>1. PICK i \in Slot : flush[t][i] = Off /\ BeginRead(t, {i})
      BY <1>2
    <2>. QED BY <2>1, BeginReadFlush DEF InFlightKept, InFlight, Off
  <1>3. CASE /\ \E i \in Slot : /\ flush[t][i] = Off
                                /\ flush' = [flush EXCEPT ![t][i] = [Off EXCEPT !.stage = "wait"]]
             /\ UNCHANGED <<isFlushing, hasNewPending>>
    <2>1. PICK i \in Slot : /\ flush[t][i] = Off
                            /\ flush' = [flush EXCEPT ![t][i] = [Off EXCEPT !.stage = "wait"]]
      BY <1>3
    <2>0. [Off EXCEPT !.stage = "wait"] \in FlushType
      BY DEF Off, FlushType
    <2>2. flush' \in [Tab -> [Slot -> FlushType]]
      BY <2>0, <2>1 DEF FlushesTyped
    <2>3. \A u \in Tab : \A j \in Slot :
             flush'[u][j] = IF u = t /\ j = i THEN [Off EXCEPT !.stage = "wait"]
                            ELSE flush[u][j]
      BY <2>1 DEF FlushesTyped
    <2>. QED BY <1>3, <2>1, <2>2, <2>3 DEF FlushesTyped, InFlightKept, InFlight, Off
  <1>. QED BY <1>1, <1>2, <1>3 DEF CallFlush

\* The end of a flush touches that flush only, and leaves it in flight no more.
LEMMA EndFlushEnds ==
  ASSUME FlushesTyped, NEW t \in Tab, NEW i \in Slot, NEW ok \in BOOLEAN,
         EndFlush(t, i, ok)
  PROVE  /\ FlushesTyped'
         /\ flush'[t][i].stage \notin InFlight
         /\ \A u \in Tab : \A j \in Slot : ~(u = t /\ j = i) => flush'[u][j] = flush[u][j]
  <1>1. CASE BeginRead(t, {i})
    BY <1>1, BeginReadFlush DEF InFlight
  <1>2. CASE /\ flush' = [flush EXCEPT ![t][i] = Off]
             /\ isFlushing' = [isFlushing EXCEPT ![t] = FALSE]
             /\ UNCHANGED hasNewPending
    <2>1. Off \in FlushType
      BY DEF Off, FlushType
    <2>2. FlushesTyped'
      BY <1>2, <2>1 DEF FlushesTyped
    <2>3. flush'[t][i] = Off
      BY <1>2 DEF FlushesTyped
    <2>4. \A u \in Tab : \A j \in Slot : ~(u = t /\ j = i) => flush'[u][j] = flush[u][j]
      BY <1>2 DEF FlushesTyped
    <2>. QED BY <2>2, <2>3, <2>4 DEF InFlight, Off
  <1>. QED BY <1>1, <1>2 DEF EndFlush
-----------------------------------------------------------------------------
(* Steps.                                                                  *)

\* A step away from the wire keeps what is said of it.
LEMMA WireKept ==
  ASSUME TypeOK, NetMatches, AcksMatch, MarkIsStored, InFlightKept,
         UNCHANGED <<net, acks, server>>
  PROVE  (NetMatches /\ AcksMatch /\ MarkIsStored)'
  <1>1. \A m \in net : m.slot # Orphan => m.tab \in Tab /\ m.slot \in Slot
    BY DEF TypeOK
  <1>2. \A a \in acks : a.tab \in Tab /\ a.slot \in Slot
    BY DEF TypeOK
  <1>3. \A u \in Tab : \A j \in Slot :
          flush[u][j].stage \in InFlight \/ flush'[u][j].stage \in InFlight =>
             flush'[u][j] = flush[u][j]
    BY DEF InFlightKept
  <1>4. NetMatches'
    BY <1>1, <1>3 DEF NetMatches, InFlight
  <1>5. AcksMatch'
    BY <1>2, <1>3 DEF AcksMatch, InFlight
  <1>6. MarkIsStored'
    BY <1>3 DEF MarkIsStored, InFlight
  <1>. QED BY <1>4, <1>5, <1>6

\* A step that touches neither the log nor the wire.
LEMMA QuietStep ==
  ASSUME IInv, TypeOK', InFlightKept,
         UNCHANGED <<rows, delivered, net, acks, server, logged, expired>>
  PROVE  IInv'
  <1>1. (NetMatches /\ AcksMatch /\ MarkIsStored)'
    BY WireKept DEF IInv
  <1>2. (LoggedNotLost /\ DeliveredIsStored)'
    BY DEF IInv, LoggedNotLost, DeliveredIsStored, Undelivered
  <1>. QED BY <1>1, <1>2 DEF IInv

\* A step that leaves the flushes as they are disturbs none.
LEMMA SameFlushes == UNCHANGED flush => InFlightKept
  BY DEF InFlightKept

\* The flush part of the type invariant.
LEMMA TypedFlushes == TypeOK => FlushesTyped
  BY DEF TypeOK, FlushesTyped

\* Opening a tab and its initial sync.
LEMMA OpeningKeeps ==
  ASSUME IInv, NEW t \in Tab,
         OpenCached(t) \/ OpenRemote(t) \/ InitialSync(t) \/ InitialSyncTimesOut(t)
  PROVE  IInv'
  <1>. USE DEF idb, wire, history, life, content, queue, flushing
  <1>1. TypeOK'
    <2>1. CASE OpenCached(t)
      BY <2>1 DEF OpenCached, IInv, TypeOK
    <2>2. CASE OpenRemote(t)
      BY <2>2 DEF OpenRemote, IInv, TypeOK
    <2>3. CASE InitialSync(t) \/ InitialSyncTimesOut(t)
      BY <2>3 DEF InitialSync, InitialSyncTimesOut, IInv, TypeOK
    <2>. QED BY <2>1, <2>2, <2>3
  <1>2. UNCHANGED <<rows, delivered, net, acks, server, logged, expired, flush>>
    BY DEF OpenCached, OpenRemote, InitialSync, InitialSyncTimesOut
  <1>. QED BY <1>1, <1>2, SameFlushes, QuietStep

\* Giving up on pushes leaves the others as they were.
LEMMA OrphanedMessages ==
  ASSUME TypeOK, NEW t \in Tab, NEW slots \in SUBSET Slot
  PROVE  /\ Orphaned(net, t, slots) \in
               SUBSET [tab : Tab, slot : Slot \cup {Orphan}, batch : SUBSET Edit]
         /\ \A m \in Orphaned(net, t, slots) :
               m.slot # Orphan => m \in net /\ ~(m.tab = t /\ m.slot \in slots)
         /\ AcksBut(t, slots) \in SUBSET acks
         /\ \A a \in AcksBut(t, slots) : ~(a.tab = t /\ a.slot \in slots)
  <1>1. \A m \in net : m \in [tab : Tab, slot : Slot \cup {Orphan}, batch : SUBSET Edit]
    BY DEF TypeOK
  <1>2. \A m \in net : /\ [m EXCEPT !.slot = Orphan] \in
                             [tab : Tab, slot : Slot \cup {Orphan}, batch : SUBSET Edit]
                       /\ [m EXCEPT !.slot = Orphan].slot = Orphan
    BY <1>1
  <1>3. ASSUME NEW m \in Orphaned(net, t, slots)
        PROVE  /\ m \in [tab : Tab, slot : Slot \cup {Orphan}, batch : SUBSET Edit]
               /\ m.slot # Orphan => m \in net /\ ~(m.tab = t /\ m.slot \in slots)
    <2>1. PICK n \in net : m = IF n.tab = t /\ n.slot \in slots
                               THEN [n EXCEPT !.slot = Orphan] ELSE n
      BY <1>3 DEF Orphaned
    <2>2. CASE n.tab = t /\ n.slot \in slots
      BY <1>2, <2>1, <2>2
    <2>3. CASE ~(n.tab = t /\ n.slot \in slots)
      BY <1>1, <2>1, <2>3
    <2>. QED BY <2>2, <2>3
  <1>. QED BY <1>3 DEF AcksBut

\* A tab that goes away takes no row and no stored edit with it.
LEMMA CloseTabKeeps ==
  ASSUME IInv, NEW t \in Tab, CloseTab(t)
  PROVE  IInv'
  <1>. USE DEF CloseTab, idb, history
  <1>0. TypeOK /\ Slot \in SUBSET Slot
    BY DEF IInv
  <1>1. /\ net' \in SUBSET [tab : Tab, slot : Slot \cup {Orphan}, batch : SUBSET Edit]
        /\ \A m \in net' : m.slot # Orphan => m \in net /\ ~(m.tab = t /\ m.slot \in Slot)
        /\ acks' \in SUBSET acks
        /\ \A a \in acks' : ~(a.tab = t /\ a.slot \in Slot)
    BY <1>0, OrphanedMessages
  <1>2. flush' \in [Tab -> [Slot -> FlushType]]
    <2>1. [i \in Slot |-> Off] \in [Slot -> FlushType]
      BY DEF Off, FlushType
    <2>. QED BY <1>0, <2>1 DEF TypeOK
  <1>3. TypeOK'
    BY <1>0, <1>1, <1>2 DEF TypeOK, NoJob
  <1>4. /\ \A u \in Tab \ {t} : flush'[u] = flush[u]
        /\ \A i \in Slot : flush'[t][i] = Off
    BY <1>0 DEF TypeOK
  <1>5. \A m \in net : m.slot # Orphan => m.tab \in Tab /\ m.slot \in Slot
    BY <1>0 DEF TypeOK
  <1>6. \A a \in acks : a.tab \in Tab /\ a.slot \in Slot
    BY <1>0 DEF TypeOK
  <1>7. NetMatches'
    BY <1>1, <1>4, <1>5 DEF IInv, NetMatches
  <1>8. AcksMatch'
    BY <1>1, <1>4, <1>6 DEF IInv, AcksMatch
  <1>9. MarkIsStored'
    BY <1>4 DEF IInv, MarkIsStored, Off
  <1>10. (LoggedNotLost /\ DeliveredIsStored)'
    BY DEF IInv, LoggedNotLost, DeliveredIsStored, Undelivered
  <1>. QED BY <1>3, <1>7, <1>8, <1>9, <1>10 DEF IInv

\* Setup drops only undelivered rows, and records them as expired.
LEMMA SetupKeeps ==
  ASSUME IInv, NEW t \in Tab, Setup(t)
  PROVE  IInv'
  <1>. USE DEF Setup, wire, content, queue, flushing
  <1>0. TypeOK /\ FlushesTyped
    BY TypedFlushes DEF IInv
  <1>1. PICK old \in SUBSET Undelivered : rows' = rows \ old /\ expired' = expired \cup old
    OBVIOUS
  <1>2. FlushesTyped' /\ InFlightKept
    <2>. DEFINE waiting == {i \in Slot : flush[t][i].stage = "wait"}
    <2>1. CASE UNCHANGED flushing
      BY <1>0, <2>1, SameFlushes DEF FlushesTyped
    <2>2. CASE BeginRead(t, waiting)
      BY <1>0, <2>2, BeginReadFlush DEF InFlightKept, InFlight
    <2>. QED BY <2>1, <2>2
  <1>3. rows' \in SUBSET Edit /\ delivered' \in SUBSET rows' /\ expired' \in SUBSET Edit
    BY <1>0, <1>1 DEF TypeOK, Undelivered
  <1>4. TypeOK'
    BY <1>0, <1>2, <1>3 DEF TypeOK, FlushesTyped
  <1>5. (NetMatches /\ AcksMatch /\ MarkIsStored)'
    BY <1>2, WireKept DEF IInv
  <1>6. (LoggedNotLost /\ DeliveredIsStored)'
    BY <1>1 DEF IInv, LoggedNotLost, DeliveredIsStored, Undelivered
  <1>. QED BY <1>4, <1>5, <1>6 DEF IInv

\* A flush that ends without a push in flight, or with its push given up.
LEMMA FlushGivesUp ==
  ASSUME IInv, NEW t \in Tab, NEW i \in Slot,
         FlushNothing(t, i) \/ FlushRefused(t, i) \/ PushFails(t, i)
  PROVE  IInv'
  <1>. USE DEF FlushNothing, FlushRefused, PushFails
  <1>. USE DEF idb, wire, history, life, content, queue
  <1>0. TypeOK /\ FlushesTyped /\ FALSE \in BOOLEAN
    BY TypedFlushes DEF IInv
  <1>1. /\ FlushesTyped'
        /\ flush'[t][i].stage \notin InFlight
        /\ \A u \in Tab : \A j \in Slot : ~(u = t /\ j = i) => flush'[u][j] = flush[u][j]
    BY <1>0, EndFlushEnds
  <1>2. UNCHANGED <<idb, server, history, life, content, queue, job>>
    OBVIOUS
  <1>3. CASE flush[t][i].stage \notin InFlight
    <2>1. UNCHANGED <<net, acks>>
      BY <1>3 DEF InFlight
    <2>2. TypeOK'
      BY <1>0, <1>1, <1>2, <2>1 DEF TypeOK, FlushesTyped
    <2>. QED BY <1>1, <1>2, <1>3, <2>1, <2>2, QuietStep DEF InFlightKept
  <1>4. CASE flush[t][i].stage \in InFlight
    <2>0. net' = Orphaned(net, t, {i}) /\ acks' = AcksBut(t, {i})
      BY <1>4 DEF InFlight
    <2>1. /\ net' \in SUBSET [tab : Tab, slot : Slot \cup {Orphan}, batch : SUBSET Edit]
          /\ \A m \in net' : m.slot # Orphan => m \in net /\ ~(m.tab = t /\ m.slot = i)
          /\ acks' \in SUBSET acks
          /\ \A a \in acks' : ~(a.tab = t /\ a.slot = i)
      BY <1>0, <2>0, OrphanedMessages
    <2>2. TypeOK'
      BY <1>0, <1>1, <1>2, <2>1 DEF TypeOK, FlushesTyped
    <2>3. \A m \in net : m.slot # Orphan => m.tab \in Tab /\ m.slot \in Slot
      BY <1>0 DEF TypeOK
    <2>4. \A a \in acks : a.tab \in Tab /\ a.slot \in Slot
      BY <1>0 DEF TypeOK
    <2>5. NetMatches'
      BY <1>1, <2>1, <2>3 DEF IInv, NetMatches
    <2>6. AcksMatch'
      BY <1>1, <1>2, <2>1, <2>4 DEF IInv, AcksMatch
    <2>7. MarkIsStored'
      BY <1>1, <1>2 DEF IInv, MarkIsStored, InFlight
    <2>8. (LoggedNotLost /\ DeliveredIsStored)'
      BY <1>2 DEF IInv, LoggedNotLost, DeliveredIsStored, Undelivered
    <2>. QED BY <2>2, <2>5, <2>6, <2>7, <2>8 DEF IInv
  <1>. QED BY <1>3, <1>4

\* A push sends what its flush will mark.
LEMMA FlushPushKeeps ==
  ASSUME IInv, NEW t \in Tab, NEW i \in Slot, FlushPush(t, i)
  PROVE  IInv'
  <1>. USE DEF FlushPush
  <1>. USE DEF idb, history, life, content, queue
  <1>. DEFINE sent == [tab |-> t, slot |-> i, batch |-> Undelivered]
              now  == [stage |-> "push", batch |-> Undelivered]
  <1>0. TypeOK /\ Undelivered \in SUBSET Edit
    BY DEF IInv, TypeOK, Undelivered
  <1>1. now \in FlushType /\ now.stage = "push" /\ now.batch = Undelivered
    BY <1>0 DEF FlushType
  <1>2. /\ flush' \in [Tab -> [Slot -> FlushType]]
        /\ flush'[t][i] = now
        /\ \A u \in Tab : \A j \in Slot : ~(u = t /\ j = i) => flush'[u][j] = flush[u][j]
    BY <1>0, <1>1 DEF TypeOK
  <1>3. sent \in [tab : Tab, slot : Slot \cup {Orphan}, batch : SUBSET Edit]
    BY <1>0
  <1>4. TypeOK'
    BY <1>0, <1>2, <1>3 DEF TypeOK
  <1>5. \A m \in net : m.slot # Orphan => /\ m.tab \in Tab /\ m.slot \in Slot
                                         /\ ~(m.tab = t /\ m.slot = i)
    BY <1>0 DEF TypeOK, IInv, NetMatches
  <1>6. \A a \in acks : a.tab \in Tab /\ a.slot \in Slot /\ ~(a.tab = t /\ a.slot = i)
    BY <1>0 DEF TypeOK, IInv, AcksMatch
  <1>7. [tab |-> t, slot |-> i] \notin acks
    BY <1>6
  <1>8. NetMatches'
    <2>1. ASSUME NEW m \in net, m.slot # Orphan
          PROVE  /\ flush'[m.tab][m.slot].stage = "push"
                 /\ flush'[m.tab][m.slot].batch = m.batch
                 /\ [tab |-> m.tab, slot |-> m.slot] \notin acks
      BY <1>2, <1>5, <2>1 DEF IInv, NetMatches
    <2>2. /\ flush'[sent.tab][sent.slot].stage = "push"
          /\ flush'[sent.tab][sent.slot].batch = sent.batch
          /\ [tab |-> sent.tab, slot |-> sent.slot] \notin acks
      BY <1>1, <1>2, <1>7
    <2>3. net' = net \cup {sent} /\ acks' = acks
      OBVIOUS
    <2>. QED BY <2>1, <2>2, <2>3 DEF NetMatches
  <1>9. AcksMatch'
    BY <1>2, <1>6 DEF IInv, AcksMatch
  <1>10. MarkIsStored'
    BY <1>1, <1>2 DEF IInv, MarkIsStored
  <1>11. (LoggedNotLost /\ DeliveredIsStored)'
    BY DEF IInv, LoggedNotLost, DeliveredIsStored, Undelivered
  <1>. QED BY <1>4, <1>8, <1>9, <1>10, <1>11 DEF IInv

\* The server only gains edits, and acks what it has.
LEMMA ServerStoresKeeps ==
  ASSUME IInv, NEW m \in net, ServerStores(m)
  PROVE  IInv'
  <1>. USE DEF ServerStores
  <1>. USE DEF idb, history, life, content, queue, flushing
  <1>0. TypeOK
    BY DEF IInv
  <1>1. /\ m.tab \in Tab /\ m.slot \in Slot \cup {Orphan} /\ m.batch \in SUBSET Edit
        /\ m = [tab |-> m.tab, slot |-> m.slot, batch |-> m.batch]
    BY <1>0 DEF TypeOK
  <1>2. acks' \in SUBSET [tab : Tab, slot : Slot] /\ server' \in SUBSET Edit
    BY <1>0, <1>1 DEF TypeOK
  <1>3. TypeOK'
    BY <1>0, <1>2 DEF TypeOK
  <1>4. \A n \in net' : n.slot # Orphan =>
          /\ flush[n.tab][n.slot].stage = "push" /\ flush[n.tab][n.slot].batch = n.batch
          /\ [tab |-> n.tab, slot |-> n.slot] \notin acks
    BY DEF IInv, NetMatches
  <1>5. \A n \in net' : n.slot # Orphan => [tab |-> n.tab, slot |-> n.slot] \notin acks'
    <2>. SUFFICES ASSUME NEW n \in net', n.slot # Orphan, m.slot # Orphan,
                         n.tab = m.tab, n.slot = m.slot
                  PROVE  FALSE
      BY <1>4
    <2>1. n = [tab |-> n.tab, slot |-> n.slot, batch |-> n.batch]
      BY <1>0 DEF TypeOK
    <2>2. n.batch = m.batch
      BY <1>4 DEF IInv, NetMatches
    <2>. QED BY <1>1, <2>1, <2>2
  <1>6. NetMatches'
    BY <1>4, <1>5 DEF NetMatches
  <1>7. AcksMatch'
    <2>1. \A a \in acks : /\ flush[a.tab][a.slot].stage = "push"
                          /\ flush[a.tab][a.slot].batch \subseteq server'
      BY DEF IInv, AcksMatch
    <2>2. m.slot # Orphan => /\ flush[m.tab][m.slot].stage = "push"
                             /\ flush[m.tab][m.slot].batch \subseteq server'
      BY DEF IInv, NetMatches
    <2>. QED BY <2>1, <2>2 DEF AcksMatch
  <1>8. (MarkIsStored /\ LoggedNotLost /\ DeliveredIsStored)'
    BY DEF IInv, MarkIsStored, LoggedNotLost, DeliveredIsStored, Undelivered
  <1>. QED BY <1>3, <1>6, <1>7, <1>8 DEF IInv

\* A lost message leaves the others as they were.
LEMMA ConnectionLostKeeps == IInv /\ ConnectionLost => IInv'
  <1>. SUFFICES ASSUME IInv, ConnectionLost PROVE IInv'
    OBVIOUS
  <1>. USE DEF ConnectionLost
  <1>. USE DEF idb, history, life, content, queue, flushing
  <1>1. net' \subseteq net /\ acks' \subseteq acks
    OBVIOUS
  <1>2. UNCHANGED <<idb, server, history, life, content, queue, flushing, job>>
    OBVIOUS
  <1>3. TypeOK'
    BY <1>1, <1>2 DEF IInv, TypeOK
  <1>4. (NetMatches /\ AcksMatch /\ MarkIsStored)'
    BY <1>1, <1>2 DEF IInv, NetMatches, AcksMatch, MarkIsStored
  <1>5. (LoggedNotLost /\ DeliveredIsStored)'
    BY <1>2 DEF IInv, LoggedNotLost, DeliveredIsStored, Undelivered
  <1>. QED BY <1>3, <1>4, <1>5 DEF IInv

\* An ack moves its flush on to mark a batch that is stored.
LEMMA PushAckedKeeps ==
  ASSUME IInv, NEW t \in Tab, NEW i \in Slot, PushAcked(t, i)
  PROVE  IInv'
  <1>. USE DEF PushAcked
  <1>. USE DEF idb, history, life, content, queue
  <1>0. TypeOK
    BY DEF IInv
  <1>1. flush[t][i] \in FlushType
    BY <1>0 DEF TypeOK
  <1>2. /\ [flush[t][i] EXCEPT !.stage = "mark"] \in FlushType
        /\ [flush[t][i] EXCEPT !.stage = "mark"].batch = flush[t][i].batch
    BY <1>1 DEF FlushType
  <1>3. /\ flush' \in [Tab -> [Slot -> FlushType]]
        /\ flush'[t][i].batch = flush[t][i].batch
        /\ \A u \in Tab : \A j \in Slot : ~(u = t /\ j = i) => flush'[u][j] = flush[u][j]
    BY <1>0, <1>2 DEF TypeOK
  <1>4. /\ acks' \in SUBSET acks
        /\ \A a \in acks' : ~(a.tab = t /\ a.slot = i)
    BY DEF AcksBut
  <1>5. TypeOK'
    BY <1>0, <1>3, <1>4 DEF TypeOK
  <1>6. flush[t][i].batch \subseteq server
    <2>1. [tab |-> t, slot |-> i].tab = t /\ [tab |-> t, slot |-> i].slot = i
      OBVIOUS
    <2>. QED BY <2>1 DEF IInv, AcksMatch
  <1>7. \A m \in net : m.slot # Orphan => /\ m.tab \in Tab /\ m.slot \in Slot
                                         /\ ~(m.tab = t /\ m.slot = i)
    BY <1>0 DEF TypeOK, IInv, NetMatches
  <1>8. \A a \in acks : a.tab \in Tab /\ a.slot \in Slot
    BY <1>0 DEF TypeOK
  <1>w. net' = net /\ server' = server
    OBVIOUS
  <1>9. NetMatches'
    <2>1. SUFFICES ASSUME NEW m \in net, m.slot # Orphan
                   PROVE  /\ flush'[m.tab][m.slot].stage = "push"
                          /\ flush'[m.tab][m.slot].batch = m.batch
                          /\ [tab |-> m.tab, slot |-> m.slot] \notin acks'
      BY <1>w DEF NetMatches
    <2>2. flush'[m.tab][m.slot] = flush[m.tab][m.slot]
      BY <1>3, <1>7, <2>1
    <2>3. /\ flush[m.tab][m.slot].stage = "push"
          /\ flush[m.tab][m.slot].batch = m.batch
          /\ [tab |-> m.tab, slot |-> m.slot] \notin acks
      BY <2>1 DEF IInv, NetMatches
    <2>. QED BY <1>4, <2>2, <2>3
  <1>10. AcksMatch'
    <2>1. SUFFICES ASSUME NEW a \in acks'
                   PROVE  /\ flush'[a.tab][a.slot].stage = "push"
                          /\ flush'[a.tab][a.slot].batch \subseteq server
      BY <1>w DEF AcksMatch
    <2>2. flush'[a.tab][a.slot] = flush[a.tab][a.slot] /\ a \in acks
      BY <1>3, <1>4, <1>8
    <2>. QED BY <2>2 DEF IInv, AcksMatch
  <1>11. MarkIsStored'
    BY <1>3, <1>6 DEF IInv, MarkIsStored
  <1>12. (LoggedNotLost /\ DeliveredIsStored)'
    BY DEF IInv, LoggedNotLost, DeliveredIsStored, Undelivered
  <1>. QED BY <1>5, <1>9, <1>10, <1>11, <1>12 DEF IInv

\* What is marked delivered is stored.
LEMMA FlushMarkKeeps ==
  ASSUME IInv, NEW t \in Tab, NEW i \in Slot, FlushMark(t, i)
  PROVE  IInv'
  <1>. USE DEF FlushMark
  <1>. USE DEF wire, history, life, content, queue
  <1>0. TypeOK /\ FlushesTyped /\ TRUE \in BOOLEAN
    BY TypedFlushes DEF IInv
  <1>1. /\ FlushesTyped'
        /\ flush'[t][i].stage \notin InFlight
        /\ \A u \in Tab : \A j \in Slot : ~(u = t /\ j = i) => flush'[u][j] = flush[u][j]
    BY <1>0, EndFlushEnds
  <1>2. flush[t][i].batch \subseteq server
    BY DEF IInv, MarkIsStored
  <1>3. TypeOK'
    BY <1>0, <1>1 DEF TypeOK, FlushesTyped
  <1>4. \A m \in net : m.slot # Orphan => /\ m.tab \in Tab /\ m.slot \in Slot
                                         /\ ~(m.tab = t /\ m.slot = i)
    BY <1>0 DEF TypeOK, IInv, NetMatches
  <1>5. \A a \in acks : a.tab \in Tab /\ a.slot \in Slot /\ ~(a.tab = t /\ a.slot = i)
    BY <1>0 DEF TypeOK, IInv, AcksMatch
  <1>6. NetMatches'
    BY <1>1, <1>4 DEF IInv, NetMatches
  <1>7. AcksMatch'
    BY <1>1, <1>5 DEF IInv, AcksMatch
  <1>8. MarkIsStored'
    BY <1>1 DEF IInv, MarkIsStored, InFlight
  <1>9. (LoggedNotLost /\ DeliveredIsStored)'
    BY <1>2 DEF IInv, LoggedNotLost, DeliveredIsStored, Undelivered
  <1>. QED BY <1>3, <1>6, <1>7, <1>8, <1>9 DEF IInv

\* Calls of flush(), and a new snapshot, change neither log nor wire.
LEMMA CallsKeep ==
  ASSUME IInv, NEW t \in Tab, Reconnect(t) \/ PersistBegin(t)
  PROVE  IInv'
  <1>. USE DEF idb, wire, history, life, content, queue
  <1>0. TypeOK /\ FlushesTyped /\ doc[t] \in SUBSET Edit
    BY TypedFlushes DEF IInv, TypeOK
  <1>1. FlushesTyped' /\ InFlightKept
    BY <1>0, CallFlushKeeps DEF Reconnect, PersistBegin
  <1>2. job' \in [Tab -> [stage : {"idle", "save", "prune"}, export : SUBSET Edit,
                         prune : BOOLEAN]]
    <2>1. [stage |-> "save", export |-> doc[t], prune |-> TRUE] \in
             [stage : {"idle", "save", "prune"}, export : SUBSET Edit, prune : BOOLEAN]
      BY <1>0
    <2>2. CASE Reconnect(t)
      BY <1>0, <2>2 DEF Reconnect, TypeOK
    <2>3. CASE PersistBegin(t)
      BY <1>0, <2>1, <2>3 DEF PersistBegin, TypeOK
    <2>. QED BY <2>2, <2>3
  <1>3. UNCHANGED <<idb, wire, history, life, content, queue>>
    BY DEF Reconnect, PersistBegin
  <1>4. TypeOK'
    BY <1>0, <1>1, <1>2, <1>3 DEF TypeOK, FlushesTyped
  <1>. QED BY <1>1, <1>3, <1>4, QuietStep

\* Saving a snapshot, or failing to, leaves the log alone.
LEMMA SavingKeeps ==
  ASSUME IInv, NEW t \in Tab, PersistSave(t) \/ PersistFails(t)
  PROVE  IInv'
  <1>. USE DEF idb, wire, history, life, content, queue, flushing
  <1>0. /\ TypeOK
        /\ job[t] \in [stage : {"idle", "save", "prune"}, export : SUBSET Edit,
                       prune : BOOLEAN]
        /\ NoJob \in [stage : {"idle", "save", "prune"}, export : SUBSET Edit,
                      prune : BOOLEAN]
    BY DEF IInv, TypeOK, NoJob
  <1>1. [job[t] EXCEPT !.stage = "prune"] \in
           [stage : {"idle", "save", "prune"}, export : SUBSET Edit, prune : BOOLEAN]
    BY <1>0
  <1>2. /\ job' \in [Tab -> [stage : {"idle", "save", "prune"}, export : SUBSET Edit,
                            prune : BOOLEAN]]
        /\ snap' \in SUBSET Edit /\ cached' \in BOOLEAN
    <2>1. CASE PersistSave(t)
      BY <1>0, <1>1, <2>1 DEF PersistSave, TypeOK
    <2>2. CASE PersistFails(t)
      BY <1>0, <2>2 DEF PersistFails, TypeOK
    <2>. QED BY <2>1, <2>2
  <1>3. UNCHANGED <<rows, delivered, wire, history, life, content, queue, flushing>>
    BY DEF PersistSave, PersistFails
  <1>4. TypeOK'
    BY <1>0, <1>2, <1>3 DEF TypeOK
  <1>. QED BY <1>3, <1>4, SameFlushes, QuietStep

\* Pruning drops only rows that the server has.
LEMMA PruningKeeps ==
  ASSUME IInv, NEW t \in Tab, PersistPrune(t)
  PROVE  IInv'
  <1>. USE DEF PersistPrune
  <1>. USE DEF wire, history, life, content, queue, flushing
  <1>1. TypeOK'
    BY DEF IInv, TypeOK, NoJob
  <1>2. (NetMatches /\ AcksMatch /\ MarkIsStored)'
    BY SameFlushes, WireKept DEF IInv
  <1>3. (LoggedNotLost /\ DeliveredIsStored)'
    BY DEF IInv, LoggedNotLost, DeliveredIsStored, Undelivered
  <1>. QED BY <1>1, <1>2, <1>3 DEF IInv

\* Editing and gossip.
LEMMA EditingKeeps ==
  ASSUME IInv, NEW t \in Tab, NEW e \in Edit,
         MakeEdit(t, e) \/ Hear(t, e)
  PROVE  IInv'
  <1>. USE DEF idb, wire, history, life, content, queue, flushing
  <1>1. TypeOK'
    <2>1. CASE MakeEdit(t, e)
      BY <2>1 DEF MakeEdit, IInv, TypeOK
    <2>2. CASE Hear(t, e)
      BY <2>2 DEF Hear, IInv, TypeOK
    <2>. QED BY <2>1, <2>2
  <1>2. UNCHANGED <<rows, delivered, net, acks, server, logged, expired, flush>>
    BY DEF MakeEdit, Hear
  <1>. QED BY <1>1, <1>2, SameFlushes, QuietStep

\* A new row is undelivered.
LEMMA AppendWritesKeeps ==
  ASSUME IInv, NEW t \in Tab, NEW e \in Edit, AppendWrites(t, e)
  PROVE  IInv'
  <1>. USE DEF AppendWrites
  <1>. USE DEF wire, life, content, flushing
  <1>1. TypeOK'
    BY DEF IInv, TypeOK
  <1>2. (NetMatches /\ AcksMatch /\ MarkIsStored)'
    BY SameFlushes, WireKept DEF IInv
  <1>3. (LoggedNotLost /\ DeliveredIsStored)'
    BY DEF IInv, LoggedNotLost, DeliveredIsStored, Undelivered
  <1>. QED BY <1>1, <1>2, <1>3 DEF IInv

\* The flush that follows an append.
LEMMA AppendFlushesKeeps ==
  ASSUME IInv, NEW t \in Tab, NEW e \in Edit, AppendFlushes(t, e)
  PROVE  IInv'
  <1>. USE DEF AppendFlushes
  <1>. USE DEF idb, wire, history, life, content
  <1>0. TypeOK /\ FlushesTyped
    BY TypedFlushes DEF IInv
  <1>1. FlushesTyped' /\ InFlightKept
    <2>1. CASE isFlushing[t]
      BY <1>0, <2>1, SameFlushes DEF FlushesTyped
    <2>2. CASE ~isFlushing[t]
      <3>1. PICK i \in Slot : flush[t][i] = Off /\ BeginRead(t, {i})
        BY <2>2
      <3>. QED BY <1>0, <3>1, BeginReadFlush DEF InFlightKept, InFlight, Off
    <2>. QED BY <2>1, <2>2
  <1>2. TypeOK'
    BY <1>0, <1>1 DEF TypeOK, FlushesTyped
  <1>. QED BY <1>1, <1>2, QuietStep

-----------------------------------------------------------------------------
(* The theorems.                                                           *)

\* The initial state satisfies the invariant.
LEMMA InitEstablishes == Init => IInv
  <1>. SUFFICES ASSUME Init PROVE IInv
    OBVIOUS
  <1>1. Off \in FlushType
    BY DEF Off, FlushType
  <1>2. TypeOK
    BY <1>1 DEF Init, TypeOK, NoJob
  <1>3. NetMatches /\ AcksMatch /\ LoggedNotLost /\ DeliveredIsStored
    BY DEF Init, NetMatches, AcksMatch, LoggedNotLost, DeliveredIsStored
  <1>4. MarkIsStored
    BY DEF Init, MarkIsStored, Off
  <1>. QED BY <1>2, <1>3, <1>4 DEF IInv

\* A step that changes nothing keeps the invariant.
LEMMA StutterKeeps == IInv /\ UNCHANGED vars => IInv'
  <1>. SUFFICES ASSUME IInv, UNCHANGED vars PROVE IInv'
    OBVIOUS
  <1>. USE DEF vars, idb, wire, history, life, content, queue, flushing
  <1>1. TypeOK'
    BY DEF IInv, TypeOK
  <1>. QED BY <1>1, SameFlushes, QuietStep

\* Every step keeps the invariant.
LEMMA NextKeeps == IInv /\ [Next]_vars => IInv'
  <1>. SUFFICES ASSUME IInv, Next PROVE IInv'
    BY StutterKeeps
  <1>1. ASSUME NEW t \in Tab, TabStep(t) PROVE IInv'
    <2>1. CASE Converge(t)
      <3>1. TypeOK'
        BY <2>1 DEF Converge, IInv, TypeOK, idb, wire, history, life, queue, flushing
      <3>2. UNCHANGED <<rows, delivered, net, acks, server, logged, expired, flush>>
        BY <2>1 DEF Converge, idb, wire, history, flushing
      <3>. QED BY <3>1, <3>2, SameFlushes, QuietStep
    <2>. QED BY <1>1, <2>1, OpeningKeeps, CloseTabKeeps, SetupKeeps, CallsKeep,
                SavingKeeps, PruningKeeps
             DEF TabStep
  <1>2. ASSUME NEW t \in Tab, NEW i \in Slot, FlushStep(t, i) PROVE IInv'
    BY <1>2, FlushGivesUp, FlushPushKeeps, PushAckedKeeps, FlushMarkKeeps DEF FlushStep
  <1>3. ASSUME NEW t \in Tab, NEW e \in Edit, EditStep(t, e) PROVE IInv'
    BY <1>3, EditingKeeps, AppendWritesKeeps, AppendFlushesKeeps DEF EditStep
  <1>. QED BY <1>1, <1>2, <1>3, ServerStoresKeeps, ConnectionLostKeeps DEF Next

\* The invariant holds in every reachable state.
THEOREM Invariance == Spec => []IInv
  BY InitEstablishes, NextKeeps, PTL DEF Spec

\* The log, the wire and the tabs are well typed.
THEOREM TypeCorrect == Spec => []TypeOK
  <1>1. IInv => TypeOK
    BY DEF IInv
  <1>. QED BY <1>1, Invariance, PTL

\* An edit in the log is kept until the server has it or its time to live
\* ends, whatever WALSyncer.flush, pruneDelivered, reloads and late or lost
\* acks do.
THEOREM LoggedEditsAreNotLost == Spec => []LoggedNotLost
  <1>1. IInv => LoggedNotLost
    BY DEF IInv
  <1>. QED BY <1>1, Invariance, PTL

-----------------------------------------------------------------------------
(* Causality of what one tab pushes.                                       *)

\* One tab, which stays open, and entries that do not outlive their time.
OneTab ==
    /\ \A t, u \in Tab : t = u
    /\ "close" \notin MayHappen /\ "expire" \notin MayHappen

\* What is stored or will be pushed.
Known == server \cup Undelivered

\* Everything was made before it is anywhere, and nobody gossips.
Origins ==
    /\ rows \subseteq made /\ \A m \in net : m.batch \subseteq made
    /\ \A t \in Tab : appending[t] \subseteq made /\ heard[t] = {}

\* Nothing is cached before the tab opens.
FreshUntilOpen == \A t \in Tab : t \notin open => ~cached /\ job[t].stage = "idle"

\* The log is causally complete, and with the appends to come the document is.
LogIsCausal ==
    /\ \A e \in Undelivered : deps[e] \subseteq Known
    /\ \A t \in Tab : doc[t] \subseteq Known \cup appending[t]
    /\ \A t \in Tab : \A e \in appending[t] : deps[e] \subseteq Known \cup appending[t]

CInv == Origins /\ FreshUntilOpen /\ LogIsCausal /\ PushIsCausal

\* A step that makes and logs nothing.
LEMMA CausalFrame ==
  ASSUME CInv, UNCHANGED <<deps, made, appending>>, rows' \subseteq rows,
         \A t \in Tab : heard'[t] \subseteq heard[t],
         Known \subseteq Known', Undelivered' \subseteq Undelivered, server \subseteq server',
         \A t \in Tab : doc'[t] \subseteq doc[t] \cup Known',
         \A m \in net' : \E n \in net : m.batch = n.batch,
         FreshUntilOpen'
  PROVE  CInv'
  <1>1. Origins'
    BY DEF CInv, Origins
  <1>2. LogIsCausal'
    BY DEF CInv, LogIsCausal
  <1>3. PushIsCausal'
    BY DEF CInv, PushIsCausal
  <1>. QED BY <1>1, <1>2, <1>3 DEF CInv

LEMMA SameBatches ==
  ASSUME TypeOK, NEW t \in Tab, NEW slots, NEW m \in Orphaned(net, t, slots)
  PROVE  \E n \in net : m.batch = n.batch
  <1>1. PICK n \in net : m = IF n.tab = t /\ n.slot \in slots THEN [n EXCEPT !.slot = Orphan] ELSE n
    BY DEF Orphaned
  <1>2. n \in [tab : Tab, slot : Slot \cup {Orphan}, batch : SUBSET Edit]
    BY DEF TypeOK
  <1>3. [n EXCEPT !.slot = Orphan].batch = n.batch
    BY <1>2
  <1>. QED BY <1>1, <1>3

LEMMA TabStepCausal ==
  ASSUME OneTab, IInv, CInv, NEW t \in Tab, TabStep(t)
  PROVE  CInv'
  <1>. USE DEF idb, wire, history, life, content, queue, flushing
  <1>0. TypeOK /\ \A u \in Tab : u = t
    BY DEF IInv, OneTab
  <1>1. CASE OpenCached(t)
    BY <1>1 DEF OpenCached, CInv, FreshUntilOpen
  <1>2. CASE OpenRemote(t)
    <2>1. FreshUntilOpen' /\ \A u \in Tab : doc'[u] \subseteq doc[u] \cup server
      BY <1>0, <1>2 DEF OpenRemote, FreshUntilOpen, TypeOK
    <2>2. Known' = Known /\ Undelivered' = Undelivered /\ server \subseteq Known
      BY <1>2 DEF OpenRemote, Known, Undelivered
    <2>. QED BY <1>2, <2>1, <2>2, CausalFrame DEF OpenRemote
  <1>3. CASE InitialSync(t) \/ InitialSyncTimesOut(t) \/ Reconnect(t) \/ PersistBegin(t) \/ PersistFails(t)
    <2>1. UNCHANGED <<rows, delivered, cached, server, net, deps, made, open, doc, heard, appending>>
      BY <1>3 DEF InitialSync, InitialSyncTimesOut, Reconnect, PersistBegin, PersistFails
    <2>2. FreshUntilOpen'
      <3>1. CASE PersistBegin(t)
        BY <1>0, <2>1, <3>1 DEF PersistBegin, FreshUntilOpen, CInv
      <3>2. CASE PersistFails(t)
        BY <1>0, <2>1, <3>2 DEF PersistFails, FreshUntilOpen, CInv, TypeOK, NoJob
      <3>3. CASE UNCHANGED job
        BY <2>1, <3>3 DEF FreshUntilOpen, CInv
      <3>. QED BY <1>3, <3>1, <3>2, <3>3 DEF InitialSync, InitialSyncTimesOut, Reconnect
    <2>3. Known' = Known /\ Undelivered' = Undelivered
      BY <2>1 DEF Known, Undelivered
    <2>. QED BY <2>1, <2>2, <2>3, CausalFrame
  <1>4. CASE Setup(t)
    <2>1. /\ rows' = rows
          /\ UNCHANGED <<delivered, cached, server, net, deps, made, open, doc, heard, appending, job>>
      BY <1>4 DEF Setup, OneTab
    <2>2. Known' = Known /\ Undelivered' = Undelivered /\ FreshUntilOpen'
      BY <2>1 DEF Known, Undelivered, CInv, FreshUntilOpen
    <2>. QED BY <2>1, <2>2, CausalFrame
  <1>5. CASE Converge(t)
    <2>1. /\ UNCHANGED <<rows, delivered, cached, server, net, deps, made, open, heard, appending, job>>
          /\ \A u \in Tab : doc'[u] \subseteq doc[u] \cup server
      BY <1>0, <1>5 DEF Converge, TypeOK
    <2>2. Known' = Known /\ Undelivered' = Undelivered /\ FreshUntilOpen' /\ server \subseteq Known
      BY <2>1 DEF Known, Undelivered, CInv, FreshUntilOpen
    <2>. QED BY <2>1, <2>2, CausalFrame
  <1>6. CASE PersistSave(t)
    <2>1. UNCHANGED <<rows, delivered, server, net, deps, made, open, doc, heard, appending>>
      BY <1>6 DEF PersistSave
    <2>2. t \in open
      BY <1>6 DEF PersistSave, CInv, FreshUntilOpen
    <2>3. Known' = Known /\ Undelivered' = Undelivered /\ FreshUntilOpen'
      BY <1>0, <2>1, <2>2 DEF Known, Undelivered, FreshUntilOpen
    <2>. QED BY <2>1, <2>3, CausalFrame
  <1>7. CASE PersistPrune(t)
    <2>1. /\ UNCHANGED <<cached, server, net, deps, made, open, doc, heard, appending>>
          /\ rows' = rows \ delivered /\ delivered' = {}
      BY <1>7 DEF PersistPrune
    <2>2. Known' = Known /\ Undelivered' = Undelivered
      BY <2>1 DEF Known, Undelivered
    <2>3. FreshUntilOpen'
      BY <1>0, <1>7 DEF PersistPrune, FreshUntilOpen, CInv
    <2>. QED BY <2>1, <2>2, <2>3, CausalFrame
  <1>8. ~CloseTab(t)
    BY DEF CloseTab, OneTab
  <1>. QED BY <1>1, <1>2, <1>3, <1>4, <1>5, <1>6, <1>7, <1>8 DEF TabStep

LEMMA FlushStepCausal ==
  ASSUME IInv, IInv', CInv, NEW t \in Tab, NEW i \in Slot, FlushStep(t, i)
  PROVE  CInv'
  <1>. USE DEF idb, wire, history, life, content, queue
  <1>1. UNCHANGED <<rows, cached, server, deps, made, open, doc, heard, appending, job>>
    BY DEF FlushStep, FlushNothing, FlushPush, FlushRefused, PushAcked, PushFails, FlushMark
  <1>2. FreshUntilOpen'
    BY <1>1 DEF CInv, FreshUntilOpen
  <1>3. CASE FlushPush(t, i)
    <2>1. UNCHANGED delivered /\ net' = net \cup {[tab |-> t, slot |-> i, batch |-> Undelivered]}
      BY <1>3 DEF FlushPush
    <2>2. Undelivered' = Undelivered /\ Known' = Known /\ Undelivered \subseteq made
      BY <1>1, <2>1 DEF Known, Undelivered, CInv, Origins
    <2>3. \A m \in net' : m \in net \/ m.batch = Undelivered
      BY <2>1
    <2>4. Origins'
      BY <1>1, <2>2, <2>3 DEF CInv, Origins
    <2>5. LogIsCausal'
      BY <1>1, <2>2 DEF CInv, LogIsCausal
    <2>6. PushIsCausal'
      BY <1>1, <2>2, <2>3 DEF CInv, PushIsCausal, LogIsCausal, Known
    <2>. QED BY <1>2, <2>4, <2>5, <2>6 DEF CInv
  <1>4. CASE FlushNothing(t, i) \/ FlushRefused(t, i) \/ PushAcked(t, i)
    <2>1. UNCHANGED <<delivered, net>>
      BY <1>4 DEF FlushNothing, FlushRefused, PushAcked
    <2>2. Known' = Known /\ Undelivered' = Undelivered
      BY <1>1, <2>1 DEF Known, Undelivered
    <2>. QED BY <1>1, <1>2, <2>1, <2>2, CausalFrame
  <1>5. CASE PushFails(t, i)
    <2>1. UNCHANGED delivered /\ net' = Orphaned(net, t, {i})
      BY <1>5 DEF PushFails
    <2>2. Known' = Known /\ Undelivered' = Undelivered
      BY <1>1, <2>1 DEF Known, Undelivered
    <2>3. \A m \in net' : \E n \in net : m.batch = n.batch
      BY <2>1, SameBatches DEF IInv
    <2>. QED BY <1>1, <1>2, <2>2, <2>3, CausalFrame
  <1>6. CASE FlushMark(t, i)
    <2>1. UNCHANGED net /\ delivered \subseteq delivered'
      BY <1>6 DEF FlushMark
    <2>2. delivered' \subseteq server
      BY <1>1 DEF IInv, DeliveredIsStored
    <2>3. Undelivered' \subseteq Undelivered /\ Known \subseteq Known'
      BY <1>1, <2>1, <2>2 DEF Known, Undelivered
    <2>. QED BY <1>1, <1>2, <2>1, <2>3, CausalFrame
  <1>. QED BY <1>3, <1>4, <1>5, <1>6 DEF FlushStep

LEMMA EditStepCausal ==
  ASSUME OneTab, IInv, CInv, NEW t \in Tab, NEW e \in Edit, EditStep(t, e)
  PROVE  CInv'
  <1>. USE DEF idb, wire, history, life, content, queue
  <1>0. TypeOK /\ \A u \in Tab : u = t
    BY DEF IInv, OneTab
  <1>1. CASE MakeEdit(t, e)
    <2>1. /\ t \in open /\ e \notin made /\ made' = made \cup {e}
          /\ UNCHANGED <<rows, delivered, cached, server, net, open, job>>
      BY <1>1 DEF MakeEdit
    <2>2. /\ \A f \in Edit : deps'[f] = IF f = e THEN doc[t] ELSE deps[f]
          /\ doc'[t] = doc[t] \cup {e} /\ appending'[t] = appending[t] \cup {e}
          /\ heard'[t] = heard[t]
      BY <1>0, <1>1 DEF MakeEdit, TypeOK
    <2>3. Known' = Known /\ Undelivered' = Undelivered
      BY <2>1 DEF Known, Undelivered
    <2>4. /\ Undelivered \subseteq made /\ Undelivered \subseteq Edit
          /\ appending[t] \subseteq made /\ appending[t] \subseteq Edit
      BY <1>0 DEF CInv, Origins, Undelivered, TypeOK
    <2>5. Origins' /\ FreshUntilOpen'
      BY <1>0, <2>1, <2>2 DEF CInv, Origins, FreshUntilOpen
    <2>6. LogIsCausal'
      <3>1. \A f \in Undelivered' : deps'[f] \subseteq Known'
        BY <2>1, <2>2, <2>3, <2>4 DEF CInv, LogIsCausal
      <3>2. doc'[t] \subseteq Known' \cup appending'[t]
        BY <2>2, <2>3 DEF CInv, LogIsCausal
      <3>3. \A f \in appending'[t] : deps'[f] \subseteq Known' \cup appending'[t]
        BY <2>1, <2>2, <2>3, <2>4 DEF CInv, LogIsCausal
      <3>. QED BY <1>0, <3>1, <3>2, <3>3 DEF LogIsCausal
    <2>7. PushIsCausal'
      <3>1. \A m \in net : m.batch \subseteq made /\ m.batch \subseteq Edit
        BY <1>0 DEF CInv, Origins, TypeOK
      <3>. QED BY <2>1, <2>2, <3>1 DEF CInv, PushIsCausal
    <2>. QED BY <2>5, <2>6, <2>7 DEF CInv
  <1>2. CASE AppendWrites(t, e)
    <2>1. /\ e \in appending[t] /\ deps[e] \cap appending[t] = {} /\ rows' = rows \cup {e}
          /\ appending'[t] = appending[t] \ {e}
          /\ UNCHANGED <<delivered, cached, server, net, deps, made, open, doc, heard, job>>
      BY <1>0, <1>2 DEF AppendWrites, TypeOK
    <2>2. /\ Undelivered' \subseteq Undelivered \cup {e} /\ Known' = Known \cup {e}
      BY <2>1 DEF Known, Undelivered, IInv, DeliveredIsStored
    <2>3. Origins' /\ FreshUntilOpen' /\ PushIsCausal'
      BY <1>0, <2>1 DEF CInv, Origins, FreshUntilOpen, PushIsCausal
    <2>4. deps[e] \subseteq Known
      BY <2>1 DEF CInv, LogIsCausal
    <2>5. LogIsCausal'
      <3>1. \A f \in Undelivered' : deps'[f] \subseteq Known'
        BY <2>1, <2>2, <2>4 DEF CInv, LogIsCausal
      <3>2. Known \cup appending[t] \subseteq Known' \cup appending'[t]
        BY <2>1, <2>2
      <3>3. doc'[t] \subseteq Known' \cup appending'[t]
        BY <2>1, <3>2 DEF CInv, LogIsCausal
      <3>4. \A f \in appending'[t] : deps'[f] \subseteq Known' \cup appending'[t]
        BY <2>1, <3>2 DEF CInv, LogIsCausal
      <3>. QED BY <1>0, <3>1, <3>3, <3>4 DEF LogIsCausal
    <2>. QED BY <2>3, <2>5 DEF CInv
  <1>3. CASE AppendFlushes(t, e)
    <2>1. UNCHANGED <<rows, delivered, cached, server, net, deps, made, open, doc, heard, appending, job>>
      BY <1>3 DEF AppendFlushes
    <2>2. Known' = Known /\ Undelivered' = Undelivered /\ FreshUntilOpen'
      BY <2>1 DEF Known, Undelivered, CInv, FreshUntilOpen
    <2>. QED BY <2>1, <2>2, CausalFrame
  <1>4. ~Hear(t, e)
    BY DEF Hear, CInv, Origins
  <1>. QED BY <1>1, <1>2, <1>3, <1>4 DEF EditStep

LEMMA WireStepCausal ==
  ASSUME IInv, CInv, (\E m \in net : ServerStores(m)) \/ ConnectionLost
  PROVE  CInv'
  <1>. USE DEF idb, history, life, content, queue
  <1>1. /\ UNCHANGED <<rows, delivered, cached, deps, made, open, doc, heard, appending, job>>
        /\ server \subseteq server' /\ net' \subseteq net
    BY DEF ServerStores, ConnectionLost
  <1>2. Known \subseteq Known' /\ Undelivered' = Undelivered /\ FreshUntilOpen'
    BY <1>1 DEF Known, Undelivered, CInv, FreshUntilOpen
  <1>. QED BY <1>1, <1>2, CausalFrame

\* A tab that stays open pushes nothing before what it builds on: one message
\* carries all that is undelivered, and appends reach the log in the order of
\* the edits (WALSyncer.doFlush, append).
THEOREM PushesAreCausal == ASSUME OneTab PROVE Spec => []PushIsCausal
  <1>1. Init => CInv
    BY DEF Init, CInv, Origins, FreshUntilOpen, LogIsCausal, PushIsCausal, Undelivered, NoJob
  <1>2. IInv /\ IInv' /\ CInv /\ [Next]_vars => CInv'
    <2>1. CInv /\ UNCHANGED vars => CInv'
      BY DEF CInv, Origins, FreshUntilOpen, LogIsCausal, PushIsCausal, Known, Undelivered,
             vars, idb, wire, history, life, content, queue
    <2>. QED BY <2>1, TabStepCausal, FlushStepCausal, EditStepCausal, WireStepCausal DEF Next
  <1>3. CInv => PushIsCausal
    BY DEF CInv
  <1>. QED BY <1>1, <1>2, <1>3, Invariance, PTL DEF Spec

-----------------------------------------------------------------------------
(* Any number of tabs that stay open.                                      *)

\* Edits whose append some tab has yet to write.
Unwritten == UNION {appending[t] : t \in Tab}

\* Where an edit can still come from.
Kept == server \cup Undelivered \cup expired \cup Unwritten

\* A second tab may push an edit before the one it builds on is written to the
\* log, so PushIsCausal needs the single tab.  The gap never is for good:
\* every edit made, and all that it builds on, is stored, waits in the log,
\* waits in a tab for its append or has outlived its time.
GapsAreHeld == made \subseteq Kept /\ \A e \in made : deps[e] \subseteq Kept

\* Everything was made before it is anywhere, and is logged unless a tab is
\* about to.
Conserved ==
    /\ made \subseteq logged \cup Unwritten
    /\ rows \subseteq made /\ snap \subseteq made /\ server \subseteq made
    /\ \A m \in net : m.batch \subseteq made
    /\ \A e \in Edit : deps[e] \subseteq made
    /\ \A t \in Tab : /\ doc[t] \subseteq made /\ heard[t] \subseteq made
                      /\ appending[t] \subseteq made /\ job[t].export \subseteq made

\* A step that makes and logs nothing.
LEMMA ConservedFrame ==
  ASSUME Conserved, UNCHANGED <<deps, made, logged, appending>>, rows' \subseteq rows,
         snap' \subseteq made, server' \subseteq made,
         \A m \in net' : m.batch \subseteq made,
         \A t \in Tab : /\ doc'[t] \subseteq made /\ heard'[t] \subseteq made
                        /\ job'[t].export \subseteq made
  PROVE  Conserved'
  BY DEF Conserved, Unwritten

LEMMA TabStepConserves ==
  ASSUME "close" \notin MayHappen, TypeOK, Conserved, NEW t \in Tab, TabStep(t)
  PROVE  Conserved'
  <1>. USE DEF idb, wire, history, life, content, queue, flushing
  <1>1. ~CloseTab(t)
    BY DEF CloseTab
  <1>2. UNCHANGED <<deps, made, logged, appending, server, net, heard>> /\ rows' \subseteq rows
    BY <1>1 DEF TabStep, OpenCached, OpenRemote, InitialSync, InitialSyncTimesOut, Setup,
                Reconnect, Converge, PersistBegin, PersistSave, PersistFails, PersistPrune
  <1>3. snap' \subseteq made
    <2>1. CASE PersistSave(t)
      BY <2>1 DEF PersistSave, Conserved
    <2>. QED BY <1>1, <2>1 DEF TabStep, OpenCached, OpenRemote, InitialSync,
             InitialSyncTimesOut, Setup, Reconnect, Converge, PersistBegin, PersistFails,
             PersistPrune, Conserved
  <1>4. \A u \in Tab : doc'[u] \subseteq made
    <2>0. doc \in [Tab -> SUBSET Edit] /\ snap \cup rows \cup server \subseteq made
      BY DEF TypeOK, Conserved
    <2>1. CASE OpenCached(t)
      BY <2>0, <2>1 DEF OpenCached, Conserved
    <2>2. CASE OpenRemote(t)
      BY <2>0, <2>2 DEF OpenRemote, Conserved
    <2>3. CASE Converge(t)
      BY <2>0, <2>3 DEF Converge, Conserved
    <2>. QED BY <1>1, <2>1, <2>2, <2>3 DEF TabStep, InitialSync, InitialSyncTimesOut, Setup, Reconnect,
             PersistBegin, PersistSave, PersistFails, PersistPrune, Conserved
  <1>5. \A u \in Tab : job'[u].export \subseteq made
    <2>1. CASE OpenCached(t) \/ OpenRemote(t)
      <3>1. snap \cup rows \subseteq made /\ server \subseteq made /\ DOMAIN job = Tab
        BY DEF Conserved, TypeOK
      <3>2. PICK saved \in SUBSET made :
              \/ job' = job
              \/ job' = [job EXCEPT ![t] = [stage |-> "save", export |-> saved, prune |-> FALSE]]
        BY <2>1, <3>1 DEF OpenCached, OpenRemote
      <3>. QED BY <3>1, <3>2 DEF Conserved
    <2>2. CASE PersistBegin(t)
      BY <2>2 DEF PersistBegin, Conserved, TypeOK
    <2>3. CASE PersistSave(t) \/ PersistFails(t) \/ PersistPrune(t)
      <3>1. job' = [job EXCEPT ![t] = job'[t]]
            /\ (job'[t] = NoJob \/ job'[t] = [job[t] EXCEPT !.stage = "prune"])
        BY <2>3 DEF PersistSave, PersistFails, PersistPrune, TypeOK
      <3>2. job'[t].export \subseteq made
        BY <3>1 DEF NoJob, Conserved, TypeOK
      <3>. QED BY <3>1, <3>2 DEF Conserved, TypeOK
    <2>. QED BY <1>1, <2>1, <2>2, <2>3 DEF TabStep, InitialSync, InitialSyncTimesOut, Setup,
             Reconnect, Converge, Conserved
  <1>. QED BY <1>2, <1>3, <1>4, <1>5, ConservedFrame DEF Conserved

LEMMA FlushStepConserves ==
  ASSUME TypeOK, Conserved, NEW t \in Tab, NEW i \in Slot, FlushStep(t, i)
  PROVE  Conserved'
  <1>. USE DEF idb, wire, history, life, content, queue
  <1>1. UNCHANGED <<rows, snap, server, deps, made, logged, doc, heard, appending, job>>
    BY DEF FlushStep, FlushNothing, FlushPush, FlushRefused, PushAcked, PushFails, FlushMark
  <1>2. \A m \in net' : m.batch \subseteq made
    <2>1. CASE FlushPush(t, i)
      BY <2>1 DEF FlushPush, Undelivered, Conserved
    <2>2. CASE PushFails(t, i)
      BY <2>2, SameBatches DEF PushFails, Conserved
    <2>3. CASE UNCHANGED net
      BY <2>3 DEF Conserved
    <2>. QED BY <2>1, <2>2, <2>3
             DEF FlushStep, FlushNothing, FlushRefused, PushAcked, FlushMark
  <1>. QED BY <1>1, <1>2, ConservedFrame DEF Conserved

LEMMA EditStepConserves ==
  ASSUME TypeOK, Conserved, NEW t \in Tab, NEW e \in Edit, EditStep(t, e)
  PROVE  Conserved'
  <1>. USE DEF idb, wire, history, life, content, queue
  <1>1. CASE MakeEdit(t, e)
    <2>1. /\ made' = made \cup {e} /\ UNCHANGED <<rows, snap, server, net, logged, job>>
          /\ \A f \in Edit : deps'[f] \subseteq deps[f] \cup doc[t]
          /\ \A u \in Tab : /\ doc'[u] \subseteq doc[u] \cup {e}
                            /\ heard'[u] \subseteq heard[u] \cup {e}
                            /\ appending[u] \subseteq appending'[u]
                            /\ appending'[u] \subseteq appending[u] \cup {e}
          /\ e \in appending'[t]
      BY <1>1 DEF MakeEdit, TypeOK
    <2>2. made' \subseteq logged' \cup Unwritten'
      BY <2>1 DEF Conserved, Unwritten
    <2>. QED BY <2>1, <2>2 DEF Conserved
  <1>2. CASE AppendWrites(t, e)
    <2>1. /\ rows' = rows \cup {e} /\ logged' = logged \cup {e} /\ e \in appending[t]
          /\ UNCHANGED <<snap, server, net, deps, made, doc, heard, job>>
          /\ \A u \in Tab : /\ appending[u] \subseteq appending'[u] \cup {e}
                            /\ appending'[u] \subseteq appending[u]
      BY <1>2 DEF AppendWrites, TypeOK
    <2>2. made' \subseteq logged' \cup Unwritten'
      BY <2>1 DEF Conserved, Unwritten
    <2>. QED BY <2>1, <2>2 DEF Conserved
  <1>3. CASE AppendFlushes(t, e)
    <2>1. UNCHANGED <<rows, snap, server, net, deps, made, logged, doc, heard, appending, job>>
      BY <1>3 DEF AppendFlushes
    <2>. QED BY <2>1, ConservedFrame DEF Conserved
  <1>4. CASE Hear(t, e)
    <2>1. /\ UNCHANGED <<rows, snap, server, net, deps, made, logged, appending, job>>
          /\ e \in heard[t]
          /\ \A u \in Tab : doc'[u] \subseteq doc[u] \cup {e} /\ heard'[u] \subseteq heard[u]
      BY <1>4 DEF Hear, TypeOK
    <2>. QED BY <2>1, ConservedFrame DEF Conserved
  <1>. QED BY <1>1, <1>2, <1>3, <1>4 DEF EditStep

LEMMA WireStepConserves ==
  ASSUME Conserved, (\E m \in net : ServerStores(m)) \/ ConnectionLost
  PROVE  Conserved'
  <1>. USE DEF idb, history, life, content, queue
  <1>1. /\ UNCHANGED <<rows, snap, deps, made, logged, doc, heard, appending, job>>
        /\ server' \subseteq made /\ net' \subseteq net
    BY DEF ServerStores, ConnectionLost, Conserved
  <1>. QED BY <1>1, ConservedFrame DEF Conserved

\* However many tabs edit, gossip, flush and prune at once, fail, time out and
\* are answered late, as long as none is closed with an append under way no
\* edit is lost, and neither is anything that it builds on (WALSyncer.append,
\* doFlush, pruneDelivered, SyncEngine.handleLocalUpdates).
THEOREM GapsCanBeFilled ==
  ASSUME "close" \notin MayHappen PROVE Spec => []GapsAreHeld
  <1>1. Init => Conserved
    BY DEF Init, Conserved, NoJob
  <1>2. IInv /\ Conserved /\ [Next]_vars => Conserved'
    <2>. SUFFICES ASSUME IInv, Conserved, [Next]_vars PROVE Conserved'
      OBVIOUS
    <2>1. TypeOK
      BY DEF IInv
    <2>2. CASE UNCHANGED vars
      BY <2>2 DEF Conserved, Unwritten, vars, idb, wire, history, life, content, queue
    <2>. QED BY <2>1, <2>2, TabStepConserves, FlushStepConserves, EditStepConserves,
                WireStepConserves DEF Next
  <1>3. IInv /\ Conserved => GapsAreHeld
    <2>. SUFFICES ASSUME IInv, Conserved PROVE GapsAreHeld
      OBVIOUS
    <2>1. made \subseteq Kept
      BY DEF IInv, LoggedNotLost, Conserved, Kept
    <2>2. made \subseteq Edit
      BY DEF IInv, TypeOK
    <2>. QED BY <2>1, <2>2 DEF Conserved, GapsAreHeld
  <1>. QED BY <1>1, <1>2, <1>3, Invariance, PTL DEF Spec
=============================================================================
