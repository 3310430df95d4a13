--------------------------- MODULE DocumentLedger ---------------------------
(***************************************************************************)
(* What a document session promises to its clients, without the memory,    *)
(* the logs, the snapshots, the alarms and the crashes that it keeps the   *)
(* promise with: a ledger of updates.  An update enters it once, by a      *)
(* client that may edit and after all it depends on, and stays; only what  *)
(* is in the ledger is ever shown to a client or acknowledged to its       *)
(* sender, and neither is ever taken back.                                 *)
(***************************************************************************)
CONSTANTS
    Op,         \* updates
    Client,     \* editors
    Deps,       \* Deps[o]: the updates o causally depends on
    By(_),      \* By(c): the updates client c may send, its own among them
    Writable    \* the updates of those that may edit, and the initial content

VARIABLES
    stored,     \* what a load of the document would give, now or after a crash
    acked,      \* updates acknowledged to their sender
    shown       \* shown[c]: updates that client c was sent

ledger == <<stored, acked, shown>>

Init ==
    /\ stored = {} /\ acked = {}
    /\ shown = [c \in Client |-> {}]

\* An update is stored, on top of what it was made on.
Accept(o) ==
    /\ o \in Writable /\ Deps[o] \subseteq stored
    /\ stored' = stored \cup {o}
    /\ UNCHANGED <<acked, shown>>

\* Stored updates are sent to some clients.
Show(to, ops) ==
    /\ shown' = [c \in Client |-> IF c \in to THEN shown[c] \cup ops ELSE shown[c]]
    /\ UNCHANGED <<stored, acked>>

\* Stored updates are acknowledged to the client that sent them, and shown to
\* others.
Acknowledge(sender, to, ops) ==
    /\ ops \subseteq By(sender)
    /\ acked' = acked \cup ops
    /\ shown' = [c \in Client |-> IF c \in to THEN shown[c] \cup ops ELSE shown[c]]
    /\ UNCHANGED stored

Next ==
    \/ \E o \in Op : Accept(o)
    \/ \E to \in SUBSET Client, ops \in SUBSET stored : Show(to, ops)
    \/ \E sender \in Client, to \in SUBSET Client, ops \in SUBSET stored :
           Acknowledge(sender, to, ops)

Spec == Init /\ [][Next]_ledger
=============================================================================
