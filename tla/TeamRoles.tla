----------------------------- MODULE TeamRoles -----------------------------
(***************************************************************************)
(* Membership, business roles and seats of one team with a subscription    *)
(* (crates/teams), the reauthentication receipts that a change of a role   *)
(* spends (crates/reauthentication) and the audit of role changes          *)
(* (crates/business_audit).                                                *)
(*                                                                         *)
(* A command (PgBusinessRoleChangeService::change) is one Postgres trans-  *)
(* action at READ COMMITTED: the receipt's row, then the membership rows   *)
(* of actor and target are locked until it ends.  A transaction of the     *)
(* team repository locks one membership row and then the team's row, and   *)
(* waits for nobody after that, so it is one step, which waits for the     *)
(* commands that hold the row.  Adding or removing a member is such a      *)
(* transaction, then calls to other services, then the compensations if    *)
(* one of them fails.  The payment provider's quantity is read, changed    *)
(* and written back.                                                       *)
(***************************************************************************)
EXTENDS Integers, FiniteSets, Sequences

CONSTANTS
    Users,         \* principals, in the order in which their ids sort
    Owner,         \* the owner of the team
    Roles,         \* business roles
    Derived,       \* those no command grants: Member and Agent
    Receipts,      \* receipts that were minted
    Principal,     \* Principal[r]: whom receipt r was issued to
    Commands,      \* role changes, each attempted once
    Sagas,         \* slots for the additions and removals in progress
    MaxRequests    \* bound on the requests: changes, additions, removals

ASSUME TeamAssumption ==
    /\ Users \subseteq Int /\ IsFiniteSet(Users) /\ Owner \in Users
    /\ Roles # {} /\ Derived \subseteq Roles /\ Receipts # {}
    /\ Principal \in [Receipts -> Users]
    /\ MaxRequests \in Nat

VARIABLES
    team,          \* team_user: team[u] is u's team role, "none" if no member
    roles,         \* team_business_role: pairs of a principal and a business role
    seats,         \* team.seat_count
    invites,       \* team_invite: the team role u is invited to, or "none"
    receipt,       \* reauthentication_receipts
    ledger,        \* grants less revocations among the audited successes
    cmd,           \* cmd[c]: a command, and the audit events of its request
    billed,        \* the payment provider's quantity
    saga,          \* saga[s]: an addition or a removal in progress
    overlapped,    \* history: a request began while another was in progress
    slips,         \* history: until then, seats charged or not charged unnoticed
    requests       \* how many requests were begun

db == <<team, roles, seats, ledger>>
history == <<overlapped, slips>>
payment == <<billed, saga, history>>
vars == <<db, invites, receipt, cmd, payment, requests>>

TeamRole == {"member", "admin", "owner"}
Governing == {"admin", "owner"}

Unread == [u \in Users |-> "unread"]
NoCommand == [pc |-> "idle", kind |-> "grant", actor |-> Owner, target |-> Owner,
              role |-> CHOOSE r \in Roles : TRUE, receipt |-> CHOOSE r \in Receipts : TRUE,
              read |-> Unread, log |-> <<>>]
NoSaga == [pc |-> "idle", kind |-> "remove", user |-> Owner, role |-> "member",
           kept |-> {}, quantity |-> 0, stale |-> FALSE]

IsMember(u) == team[u] # "none"
RolesOf(u) == {p \in roles : p[1] = u}

-----------------------------------------------------------------------------
\* A team with some history: audited roles of members, invites of others.
Init ==
    /\ team \in [Users -> TeamRole \cup {"none"}]
    /\ \A u \in Users : team[u] = "owner" <=> u = Owner
    /\ invites \in [Users -> {"none", "member", "admin"}]
    /\ \A u \in Users : IsMember(u) => invites[u] = "none"
    /\ roles \in SUBSET ({u \in Users : IsMember(u)} \X (Roles \ Derived))
    /\ ledger = [p \in Users \X Roles |-> IF p \in roles THEN 1 ELSE 0]
    /\ seats = Cardinality({u \in Users : IsMember(u)})
    /\ billed = seats
    /\ receipt = [r \in Receipts |-> "usable"]
    /\ cmd = [c \in Commands |-> NoCommand]
    /\ saga = [s \in Sagas |-> NoSaga]
    /\ overlapped = FALSE /\ slips = 0 /\ requests = 0

-----------------------------------------------------------------------------
\* The lifetime of a receipt ends.
Expire(r) ==
    /\ receipt[r] = "usable"
    /\ receipt' = [receipt EXCEPT ![r] = "expired"]
    /\ UNCHANGED <<db, invites, cmd, payment, requests>>

-----------------------------------------------------------------------------
(* A change of a business role.                                            *)

InTransaction(c) == cmd[c].pc \in {"lock", "commit"}

\* Mutants: the receipt is read and updated later; only the actor's row is
\* locked; memberships are read without FOR UPDATE.
HoldsNoReceipt(c, r) == FALSE
HoldsActorRow(c, u) == InTransaction(c) /\ cmd[c].read[u] \in TeamRole /\ u = cmd[c].actor
HoldsNoRow(c, u) == FALSE

\* The rows a command has locked: the receipt it claimed, and of the
\* memberships it read those that exist.
HoldsReceipt(c, r) == InTransaction(c) /\ cmd[c].receipt = r
HoldsRow(c, u) == InTransaction(c) /\ cmd[c].read[u] \in TeamRole

RowFree(u) == \A c \in Commands : ~HoldsRow(c, u)

Parties(c) == {cmd[c].actor, cmd[c].target}
ToRead(c) == {u \in Parties(c) : cmd[c].read[u] = "unread"}

\* Mutant: the actor's row first.
NextRowActor(c) ==
    IF cmd[c].actor \in ToRead(c) THEN cmd[c].actor ELSE cmd[c].target

\* The principals are locked in the order of their ids.
NextRow(c) == CHOOSE u \in ToRead(c) : \A v \in ToRead(c) : u <= v

Goto(c, pc) == cmd' = [cmd EXCEPT ![c].pc = pc]

\* The transaction is over, by commit or rollback, and its locks are gone; what
\* is left of the command are its audit events and the receipt it named.
Leave(c, pc, log) ==
    cmd' = [cmd EXCEPT ![c] = [NoCommand EXCEPT !.pc = pc, !.receipt = cmd[c].receipt,
                                                 !.log = log]]

\* The transaction begins with consume_with_tx: one UPDATE, which waits for a
\* transaction that has updated the row.  A receipt of another principal does
\* not match, locked or not.
Claim(c, kind, actor, target, role, r) ==
    /\ cmd[c].pc = "idle" /\ requests < MaxRequests
    /\ requests' = requests + 1
    /\ \/ /\ receipt[r] = "usable" /\ Principal[r] = actor
          /\ \A d \in Commands : ~HoldsReceipt(d, r)
          /\ cmd' = [cmd EXCEPT ![c] =
                       [NoCommand EXCEPT !.pc = "lock", !.kind = kind, !.actor = actor,
                                         !.target = target, !.role = role, !.receipt = r]]
       \/ /\ receipt[r] # "usable" \/ Principal[r] # actor
          /\ cmd' = [cmd EXCEPT ![c] = [NoCommand EXCEPT !.pc = "deny", !.receipt = r]]
    /\ UNCHANGED <<db, invites, receipt, payment>>

\* SELECT ... FOR UPDATE of one principal's membership.
LockRow(c) ==
    /\ cmd[c].pc = "lock" /\ ToRead(c) # {}
    /\ RowFree(NextRow(c))
    /\ cmd' = [cmd EXCEPT ![c].read[NextRow(c)] = team[NextRow(c)]]
    /\ UNCHANGED <<db, invites, receipt, payment, requests>>

\* What is rechecked behind the locks.
Allowed(c) ==
    /\ cmd[c].read[cmd[c].actor] \in Governing
    /\ cmd[c].read[cmd[c].target] \in TeamRole
    /\ cmd[c].role \notin Derived
    /\ ~(cmd[c].kind = "grant" /\ cmd[c].actor = cmd[c].target)

\* INSERT ... ON CONFLICT DO NOTHING or DELETE, with a row or without one.
Applies(c) ==
    (cmd[c].kind = "revoke") <=> (<<cmd[c].target, cmd[c].role>> \in roles)

\* A denial rolls the transaction back, and the claim of the receipt with it.
Decide(c) ==
    /\ cmd[c].pc = "lock" /\ ToRead(c) = {}
    /\ IF Allowed(c) /\ Applies(c) THEN Goto(c, "commit")
       ELSE Leave(c, "deny", cmd[c].log)
    /\ UNCHANGED <<db, invites, receipt, payment, requests>>

\* The role, the audit event and the spent receipt become visible together;
\* the answer may still be lost.
Commit(c) ==
    LET p == <<cmd[c].target, cmd[c].role>>
    IN  /\ cmd[c].pc = "commit"
        /\ IF cmd[c].kind = "grant"
           THEN roles' = roles \cup {p} /\ ledger' = [ledger EXCEPT ![p] = @ + 1]
           ELSE roles' = roles \ {p} /\ ledger' = [ledger EXCEPT ![p] = @ - 1]
        /\ receipt' = [receipt EXCEPT ![cmd[c].receipt] = "spent"]
        /\ \E pc \in {"done", "error"} : Leave(c, pc, Append(cmd[c].log, "success"))
        /\ UNCHANGED <<team, seats, invites, payment, requests>>

\* Mutant: the event is written before the rollback.
DenyInside(c) ==
    /\ cmd[c].pc = "deny"
    /\ \E pc \in {"denied", "error"} : Leave(c, pc, cmd[c].log)
    /\ UNCHANGED <<db, invites, receipt, payment, requests>>

\* After the rollback, one event in a transaction of its own.
Deny(c) ==
    /\ cmd[c].pc = "deny"
    /\ \E pc \in {"denied", "error"} : Leave(c, pc, Append(cmd[c].log, "denied"))
    /\ UNCHANGED <<db, invites, receipt, payment, requests>>

\* A database error or the end of the process, before anything is committed.
ChangeFails(c) ==
    /\ cmd[c].pc \in {"lock", "commit", "deny"}
    /\ Leave(c, "error", cmd[c].log)
    /\ UNCHANGED <<db, invites, receipt, payment, requests>>

-----------------------------------------------------------------------------
(* The team repository's transactions.                                     *)

\* patch_team_user_role, for anybody but the owner.
PatchRole(u, role) ==
    /\ u # Owner /\ IsMember(u) /\ RowFree(u)
    /\ team' = [team EXCEPT ![u] = role]
    /\ UNCHANGED <<roles, seats, ledger, invites, receipt, cmd, payment, requests>>

\* delete_membership_with_audit: the membership, its business roles, its seat,
\* and one audited revocation for each role.
DeleteMembership(u) ==
    IF IsMember(u)
    THEN /\ team' = [team EXCEPT ![u] = "none"]
         /\ roles' = roles \ RolesOf(u)
         /\ seats' = seats - 1
         /\ ledger' = [p \in DOMAIN ledger |->
                         IF p \in RolesOf(u) THEN ledger[p] - 1 ELSE ledger[p]]
    ELSE UNCHANGED db

InsertMembership(u, role, kept) ==
    /\ team' = [team EXCEPT ![u] = role]
    /\ roles' = roles \cup kept
    /\ seats' = seats + 1
    /\ ledger' = [p \in DOMAIN ledger |-> IF p \in kept THEN ledger[p] + 1 ELSE ledger[p]]

\* History: one billing outcome more that the service did not learn of or did
\* not undo.  It is not counted any more once requests have overlapped.
Slip == slips' = IF overlapped THEN slips ELSE slips + 1

\* History: those who removed u before learn that u came back.
BeginSaga(s, kind, u, role, kept) ==
    /\ saga[s].pc = "idle" /\ requests < MaxRequests
    /\ requests' = requests + 1
    /\ overlapped' = (overlapped \/ \E z \in Sagas : saga[z].pc # "idle")
    /\ slips' = IF overlapped' THEN 0 ELSE slips
    /\ saga' = [z \in Sagas |->
                  IF z = s THEN [NoSaga EXCEPT !.pc = "bill", !.kind = kind, !.user = u,
                                               !.role = role, !.kept = kept]
                  ELSE [saga[z] EXCEPT !.stale = @ \/ (kind # "remove" /\ saga[z].pc # "idle"
                                                       /\ saga[z].user = u)]]
    /\ UNCHANGED <<receipt, cmd, billed>>

\* remove_user_from_team_audited
RemoveUser(s, u) ==
    /\ u # Owner /\ IsMember(u) /\ RowFree(u)
    /\ DeleteMembership(u)
    /\ BeginSaga(s, "remove", u, team[u], RolesOf(u))
    /\ UNCHANGED invites

\* accept_team_invite; a member's second membership is refused by the table.
AcceptInvite(s, u) ==
    /\ invites[u] # "none" /\ ~IsMember(u)
    /\ InsertMembership(u, invites[u], {})
    /\ invites' = [invites EXCEPT ![u] = "none"]
    /\ BeginSaga(s, "accept", u, invites[u], {})

\* add_user_to_team, for a user of the team's domain.
AutoJoin(s, u) ==
    /\ ~IsMember(u)
    /\ InsertMembership(u, "member", {})
    /\ invites' = [invites EXCEPT ![u] = "none"]
    /\ BeginSaga(s, "auto", u, "member", {})

-----------------------------------------------------------------------------
(* What follows an addition or a removal.                                  *)

Advance(s, pc) == saga' = [saga EXCEPT ![s].pc = pc, ![s].quantity = 0]
End(s) == saga' = [saga EXCEPT ![s] = NoSaga]

\* Mutant: no lower bound.
QuantityUnbounded(s) ==
    IF (saga[s].kind = "remove") = (saga[s].pc = "write")
    THEN saga[s].quantity - 1
    ELSE saga[s].quantity + 1

\* increment_seat_count and decrement_seat_count, which never goes below one.
Quantity(s) ==
    IF (saga[s].kind = "remove") = (saga[s].pc = "write")
    THEN IF saga[s].quantity > 1 THEN saga[s].quantity - 1 ELSE 1
    ELSE saga[s].quantity + 1

BillRead(s) ==
    /\ saga[s].pc \in {"bill", "unbill"}
    /\ saga' = [saga EXCEPT ![s].pc = IF @ = "bill" THEN "write" ELSE "unwrite",
                            ![s].quantity = billed]
    /\ UNCHANGED <<db, invites, receipt, cmd, billed, history, requests>>

BillWrite(s) ==
    /\ saga[s].pc \in {"write", "unwrite"}
    /\ billed' = Quantity(s)
    /\ Advance(s, IF saga[s].pc = "write" THEN "rest" ELSE "undo")
    /\ UNCHANGED <<db, invites, receipt, cmd, history, requests>>

\* The provider stores the quantity and the call fails all the same.
BillAnswerLost(s) ==
    /\ saga[s].pc \in {"write", "unwrite"}
    /\ billed' = Quantity(s)
    /\ Advance(s, "undo")
    /\ IF saga[s].pc = "write" THEN Slip ELSE UNCHANGED slips
    /\ UNCHANGED <<db, invites, receipt, cmd, overlapped, requests>>

\* Channels and permissions follow.
RestSucceeds(s) ==
    /\ saga[s].pc = "rest"
    /\ End(s)
    /\ UNCHANGED <<db, invites, receipt, cmd, billed, history, requests>>

\* Mutant: the quantity is not restored.
RestFailsKeepsSeat(s) ==
    /\ saga[s].pc = "rest"
    /\ Advance(s, "undo")
    /\ UNCHANGED <<db, invites, receipt, cmd, billed, history, requests>>

\* A failure of those gives the seat back first.
RestFails(s) ==
    /\ saga[s].pc = "rest"
    /\ Advance(s, "unbill")
    /\ UNCHANGED <<db, invites, receipt, cmd, billed, history, requests>>

\* A call about the subscription that fails leaves nothing to give back, and one
\* that should have given the seat back is logged and passed over.
BillFails(s) ==
    /\ saga[s].pc \in {"bill", "write", "unbill", "unwrite"}
    /\ Advance(s, "undo")
    /\ IF saga[s].pc \in {"unbill", "unwrite"} THEN Slip ELSE UNCHANGED slips
    /\ UNCHANGED <<db, invites, receipt, cmd, billed, overlapped, requests>>

\* Mutant: the seat is counted and the roles restored though the user is back.
UndoRemovalAnyway(s) ==
    /\ saga[s].pc = "undo" /\ saga[s].kind = "remove" /\ RowFree(saga[s].user)
    /\ InsertMembership(saga[s].user, saga[s].role, saga[s].kept)
    /\ End(s)
    /\ UNCHANGED <<invites, receipt, cmd, billed, history, requests>>

\* rollback_remove_user_from_team_audited: unless the user is back already.
UndoRemoval(s) ==
    /\ saga[s].pc = "undo" /\ saga[s].kind = "remove" /\ RowFree(saga[s].user)
    /\ IF IsMember(saga[s].user) THEN UNCHANGED db
       ELSE InsertMembership(saga[s].user, saga[s].role, saga[s].kept)
    /\ End(s)
    /\ UNCHANGED <<invites, receipt, cmd, billed, history, requests>>

\* rollback_accept_team_invite_audited and rollback_membership_with_audit: what
\* membership the user has, and the invite unless there is another.
UndoAddition(s) ==
    /\ saga[s].pc = "undo" /\ saga[s].kind # "remove" /\ RowFree(saga[s].user)
    /\ DeleteMembership(saga[s].user)
    /\ invites' = IF saga[s].kind = "accept" /\ invites[saga[s].user] = "none"
                  THEN [invites EXCEPT ![saga[s].user] = saga[s].role] ELSE invites
    /\ End(s)
    /\ UNCHANGED <<receipt, cmd, billed, history, requests>>

\* The compensation fails and is logged, or the process dies on the way.
SagaLost(s) ==
    /\ saga[s].pc # "idle"
    /\ End(s)
    /\ IF saga[s].pc \in {"bill", "write", "undo"} THEN Slip ELSE UNCHANGED slips
    /\ UNCHANGED <<db, invites, receipt, cmd, billed, overlapped, requests>>

-----------------------------------------------------------------------------
ChangeStep(c) ==
    LockRow(c) \/ Decide(c) \/ Commit(c) \/ Deny(c) \/ ChangeFails(c)

SagaStep(s) ==
    \/ BillRead(s) \/ BillWrite(s) \/ BillAnswerLost(s) \/ BillFails(s)
    \/ RestSucceeds(s) \/ RestFails(s)
    \/ UndoRemoval(s) \/ UndoAddition(s) \/ SagaLost(s)

Next ==
    \/ \E r \in Receipts : Expire(r)
    \/ \E c \in Commands : ChangeStep(c)
    \/ \E c \in Commands, kind \in {"grant", "revoke"}, actor, target \in Users,
          role \in Roles, r \in Receipts : Claim(c, kind, actor, target, role, r)
    \/ \E u \in Users, role \in {"member", "admin"} : PatchRole(u, role)
    \/ \E s \in Sagas, u \in Users : RemoveUser(s, u) \/ AcceptInvite(s, u) \/ AutoJoin(s, u)
    \/ \E s \in Sagas : SagaStep(s)

Spec == Init /\ [][Next]_vars

-----------------------------------------------------------------------------
CommandType ==
    [pc : {"idle", "lock", "commit", "deny", "done", "denied", "error"},
     kind : {"grant", "revoke"}, actor : Users, target : Users, role : Roles,
     receipt : Receipts, read : [Users -> TeamRole \cup {"none", "unread"}],
     log : Seq({"success", "denied"})]

SagaType ==
    [pc : {"idle", "bill", "write", "rest", "unbill", "unwrite", "undo"},
     kind : {"remove", "accept", "auto"}, user : Users, role : {"member", "admin"},
     kept : SUBSET (Users \X Roles), quantity : Nat, stale : BOOLEAN]

\* Type correctness of the tables and of the requests in progress.
TypeOK ==
    /\ team \in [Users -> TeamRole \cup {"none"}]
    /\ roles \in SUBSET (Users \X Roles)
    /\ seats \in Int /\ billed \in Nat \ {0}
    /\ invites \in [Users -> {"none", "member", "admin"}]
    /\ receipt \in [Receipts -> {"usable", "expired", "spent"}]
    /\ ledger \in [Users \X Roles -> Int]
    /\ cmd \in [Commands -> CommandType]
    /\ saga \in [Sagas -> SagaType]
    /\ requests \in Nat /\ overlapped \in BOOLEAN /\ slips \in Nat

\* Only members hold business roles, and only ones that can be granted, though
\* nothing in the schema says so: a removal that runs beside a grant must not
\* leave the grant behind (business_role_change.rs, delete_membership_with_audit).
RolesHaveMembers ==
    \A p \in roles : IsMember(p[1]) /\ p[2] \notin Derived

\* The audit explains the table of roles: grants less revocations are one for
\* a role that is held and zero for one that is not, whatever removals, their
\* compensations and rejoins did in between.
AuditExplainsRoles ==
    \A p \in Users \X Roles : ledger[p] = IF p \in roles THEN 1 ELSE 0

Changed(c) == "success" \in {cmd[c].log[i] : i \in DOMAIN cmd[c].log}

\* One receipt authorizes one change: a spent one has changed a role exactly
\* once, whoever raced for it or tried again after a lost answer, and a command
\* that was denied or failed has left its receipt as it was.
ReceiptSpentOnce ==
    \A r \in Receipts :
        /\ receipt[r] = "spent" <=> \E c \in Commands : Changed(c) /\ cmd[c].receipt = r
        /\ \A c, d \in Commands :
             (Changed(c) /\ Changed(d) /\ cmd[c].receipt = r /\ cmd[d].receipt = r) => c = d

\* Every command that reports an outcome has audited just that outcome, once;
\* one that reports an error has audited at most one.
AuditedOnce ==
    \A c \in Commands :
        /\ Len(cmd[c].log) <= 1
        /\ cmd[c].pc = "done" => cmd[c].log = <<"success">>
        /\ cmd[c].pc = "denied" => cmd[c].log = <<"denied">>

\* The seat count is the number of members.
SeatsCountMembers == seats = Cardinality({u \in Users : IsMember(u)})

\* Requests that came one after another leave the provider's quantity at most
\* one seat away from the seat count for each time that a billing call took
\* effect and failed all the same, that a seat could not be given back, or that
\* the request ended between a change of the membership and that of the bill:
\* one such slip is never made worse later, by the lower bound of the quantity
\* or by the compensations, and without one the bill is exact.
SeatsAreBilled ==
    (~overlapped /\ \A s \in Sagas : saga[s].pc = "idle") =>
        billed <= seats + slips /\ seats <= billed + slips

WaitsFor(c, d) ==
    /\ cmd[c].pc = "lock" /\ ToRead(c) # {}
    /\ c # d /\ HoldsRow(d, NextRow(c))

\* However many commands overlap, they never wait for each other in a circle:
\* of any set of them one waits for none of the set ("concurrent inverted
\* commands (A -> B, B -> A) cannot deadlock", business_role_change.rs).
NoDeadlock ==
    \A S \in (SUBSET Commands) \ {{}} : \E c \in S : \A d \in S : ~WaitsFor(c, d)

\* At the moment a change is committed its actor governs the team, its target
\* is a member, nobody grants himself a role and the receipt is the actor's: a
\* demotion or a removal comes before the checks or after the commit.
AuthorizedAtCommit ==
    [][\A c \in Commands :
         (~Changed(c) /\ Changed(c)') =>
             /\ team[cmd[c].actor] \in Governing
             /\ IsMember(cmd[c].target)
             /\ cmd[c].kind = "grant" => cmd[c].actor # cmd[c].target
             /\ Principal[cmd[c].receipt] = cmd[c].actor]_vars

\* The roles as the audit tells them.
Audited == {p \in Users \X Roles : ledger[p] = 1}

\* The membership that a removal in progress may bring back.
Removed(s) ==
    IF saga[s].pc # "idle" /\ saga[s].kind = "remove"
    THEN {[user |-> saga[s].user, role |-> saga[s].role, kept |-> saga[s].kept]}
    ELSE {}

\* Commands, requests and compensations implement the register (RoleRegister):
\* whatever overlaps, is lost or is undone, each step is one authorized change
\* that spends one receipt, a membership that begins, changes or ends with its
\* own roles, or nothing, and the audit tells the same story as the tables.
Register == INSTANCE RoleRegister
            WITH roles <- Audited, spent <- {r \in Receipts : receipt[r] = "spent"},
                 left <- [s \in Sagas |-> Removed(s)], Removals <- Sagas
ImplementsRegister == Register!Spec

\* A removal that fails after its user came back does not bring back the roles
\* of the earlier membership ("without restoring stale roles after a rejoin",
\* domain/team_repo.rs).
RestoresFreshRoles ==
    [][\A s \in Sagas :
         (saga[s].pc = "undo" /\ saga[s].kind = "remove" /\ saga[s].stale
            /\ saga'[s].pc = "idle") => roles' \subseteq roles]_vars
=============================================================================
