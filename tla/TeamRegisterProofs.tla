------------------------- MODULE TeamRegisterProofs -------------------------
(***************************************************************************)
(* TeamRoles implements RoleRegister, for every team, every set of         *)
(* commands and every number of requests in progress: each step of a       *)
(* transaction, of a request or of its compensation is one step of the     *)
(* register or none.                                                       *)
(***************************************************************************)
EXTENDS TeamRolesProofs

SpentReceipts == {r \in Receipts : receipt[r] = "spent"}
Left == [s \in Sagas |-> Removed(s)]

\* The audit tells the roles.
LEMMA AuditTells ==
  ASSUME IInv
  PROVE  Audited = roles
  <1>1. roles \subseteq Users \X Roles /\ ledger \in [Users \X Roles -> Int]
    BY DEF IInv, TypeOK
  <1>2. \A p \in Users \X Roles : ledger[p] = IF p \in roles THEN 1 ELSE 0
    BY DEF IInv, TableInv, AuditExplainsRoles
  <1> QED BY <1>1, <1>2 DEF Audited

LEMMA AuditTellsNext ==
  ASSUME IInv'
  PROVE  Audited' = roles'
  <1>1. roles' \subseteq Users \X Roles /\ ledger' \in [Users \X Roles -> Int]
    BY DEF IInv, TypeOK
  <1>2. \A p \in Users \X Roles : ledger'[p] = IF p \in roles' THEN 1 ELSE 0
    BY DEF IInv, TableInv, AuditExplainsRoles
  <1> QED BY <1>1, <1>2 DEF Audited

\* A step that changes no membership, no role, no receipt and no removal.
LEMMA HiddenStep ==
  ASSUME IInv, IInv', UNCHANGED <<team, roles>>, SpentReceipts' = SpentReceipts, Left' = Left
  PROVE  UNCHANGED Register!register
  BY AuditTells, AuditTellsNext DEF Register!register, SpentReceipts, Left

\* A commit is an authorized change.
LEMMA CommitIsAChange ==
  ASSUME IInv, IInv', NEW c \in Commands, Commit(c)
  PROVE  Register!Next
  <1>1. PICK actor \in Users, target \in Users, role \in Roles, r \in Receipts :
          /\ actor = cmd[c].actor /\ target = cmd[c].target /\ role = cmd[c].role
          /\ r = cmd[c].receipt /\ cmd[c].kind \in {"grant", "revoke"}
          /\ receipt \in [Receipts -> {"usable", "expired", "spent"}]
    BY DEF IInv, TypeOK, CommandType
  <1>2. cmd[c].pc = "commit" /\ InTransaction(c) /\ Allowed(c) /\ Applies(c)
    BY DEF Commit, InTransaction, IInv, CommandInv, Ready
  <1>3. HoldsRow(c, actor) /\ HoldsRow(c, target)
    BY <1>1, <1>2 DEF HoldsRow, Allowed, Governing, TeamRole
  <1>4. team[actor] = cmd[c].read[actor] /\ team[target] = cmd[c].read[target]
    BY <1>1, <1>3 DEF IInv, CommandInv, Locked
  <1>5. Principal[r] = actor /\ receipt[r] # "spent"
    BY <1>1, <1>2 DEF IInv, CommandInv, Claimed
  <1>6. /\ team[actor] \in {"admin", "owner"} /\ team[target] # "none" /\ role \notin Derived
        /\ cmd[c].kind = "grant" => actor # target
    BY <1>1, <1>2, <1>4 DEF Allowed, Governing, TeamRole
  <1>7. r \notin SpentReceipts /\ SpentReceipts' = SpentReceipts \cup {r}
    BY <1>1, <1>5 DEF Commit, SpentReceipts
  <1>8. UNCHANGED team /\ Left' = Left
    BY DEF Commit, payment, Left, Removed
  <1>9. Register!Authorized(actor, target, role, r)
    BY <1>5, <1>6, <1>7 DEF Register!Authorized, Register!IsMember, SpentReceipts
  <1>10. Audited = roles /\ Audited' = roles'
    BY AuditTells, AuditTellsNext
  <1>11. CASE cmd[c].kind = "grant"
    <2>1. <<target, role>> \notin roles /\ roles' = roles \cup {<<target, role>>} /\ actor # target
      BY <1>1, <1>2, <1>6, <1>11 DEF Commit, Applies
    <2>2. Register!Grant(actor, target, role, r)
      BY <1>8, <1>9, <1>10, <2>1 DEF Register!Grant, Left
    <2> QED BY <1>1, <2>2 DEF Register!Next
  <1>12. CASE cmd[c].kind = "revoke"
    <2>1. <<target, role>> \in roles /\ roles' = roles \ {<<target, role>>}
      BY <1>1, <1>2, <1>12 DEF Commit, Applies
    <2>2. Register!Revoke(actor, target, role, r)
      BY <1>8, <1>9, <1>10, <2>1 DEF Register!Revoke, Left
    <2> QED BY <1>1, <2>2 DEF Register!Next
  <1> QED BY <1>1, <1>11, <1>12

\* Nothing else that a command does changes the register.
LEMMA CommandsAreHidden ==
  ASSUME IInv, IInv',
         \/ \E r \in Receipts : Expire(r)
         \/ \E c \in Commands : LockRow(c) \/ Decide(c) \/ Deny(c) \/ ChangeFails(c)
         \/ \E c \in Commands, kind \in {"grant", "revoke"}, actor, target \in Users,
               role \in Roles, r \in Receipts : Claim(c, kind, actor, target, role, r)
  PROVE  UNCHANGED Register!register
  <1>1. UNCHANGED <<team, roles, saga>>
    BY DEF Expire, LockRow, Decide, Deny, ChangeFails, Claim, db, payment
  <1>2. SpentReceipts' = SpentReceipts
    <2>1. CASE \E r \in Receipts : Expire(r)
      BY <2>1 DEF Expire, SpentReceipts, IInv, TypeOK
    <2>2. CASE UNCHANGED receipt
      BY <2>2 DEF SpentReceipts
    <2> QED BY <2>1, <2>2 DEF LockRow, Decide, Deny, ChangeFails, Claim
  <1>3. Left' = Left
    BY <1>1 DEF Left, Removed
  <1> QED BY <1>1, <1>2, <1>3, HiddenStep

\* A saga that begins is remembered if it is a removal.
LEMMA BeginLeft ==
  ASSUME IInv, IInv', NEW s \in Sagas, NEW kind \in {"remove", "accept", "auto"},
         NEW u \in Users, NEW role \in {"member", "admin"}, NEW kept \in SUBSET (Users \X Roles),
         BeginSaga(s, kind, u, role, kept)
  PROVE  /\ Left[s] = {} /\ SpentReceipts' = SpentReceipts
         /\ Left' = [Left EXCEPT ![s] = IF kind = "remove"
                                        THEN {[user |-> u, role |-> role, kept |-> kept]} ELSE {}]
  <1>1. saga \in [Sagas -> SagaType] /\ saga[s].pc = "idle"
    BY DEF BeginSaga, IInv, TypeOK
  <1>2. /\ saga'[s] = [NoSaga EXCEPT !.pc = "bill", !.kind = kind, !.user = u, !.role = role, !.kept = kept]
        /\ DOMAIN saga' = Sagas
        /\ \A z \in Sagas \ {s} : \E b : saga'[z] = [saga[z] EXCEPT !.stale = b]
    BY DEF BeginSaga
  <1>3. Removed(s) = {} /\ Removed(s)' = IF kind = "remove"
                                          THEN {[user |-> u, role |-> role, kept |-> kept]} ELSE {}
    BY <1>1, <1>2 DEF Removed, NoSaga
  <1>4. ASSUME NEW z \in Sagas \ {s} PROVE Removed(z)' = Removed(z)
    <2>1. /\ saga'[z].pc = saga[z].pc /\ saga'[z].kind = saga[z].kind
          /\ saga'[z].user = saga[z].user /\ saga'[z].role = saga[z].role
          /\ saga'[z].kept = saga[z].kept
      BY <1>1, <1>2 DEF SagaType
    <2> QED BY <2>1 DEF Removed
  <1>5. SpentReceipts' = SpentReceipts
    BY DEF BeginSaga, SpentReceipts
  <1> QED BY <1>3, <1>4, <1>5 DEF Left

\* The end of a saga.
LEMMA EndLeft ==
  ASSUME IInv, NEW s \in Sagas, End(s), UNCHANGED receipt
  PROVE  /\ Left' = [Left EXCEPT ![s] = {}] /\ SpentReceipts' = SpentReceipts
         /\ saga[s].kind # "remove" => Left' = Left
  <1>1. saga \in [Sagas -> SagaType] /\ saga' = [saga EXCEPT ![s] = NoSaga]
    BY DEF End, IInv, TypeOK
  <1>2. Removed(s)' = {} /\ \A z \in Sagas \ {s} : Removed(z)' = Removed(z)
    BY <1>1 DEF Removed, NoSaga
  <1>3. saga[s].kind # "remove" => Removed(s) = {}
    BY DEF Removed
  <1>4. SpentReceipts' = SpentReceipts
    BY DEF SpentReceipts
  <1> QED BY <1>2, <1>3, <1>4 DEF Left

\* A change of a member's team role.
LEMMA PatchIsAPatch ==
  ASSUME IInv, IInv', NEW u \in Users, NEW role \in {"member", "admin"}, PatchRole(u, role)
  PROVE  Register!Next
  <1>1. /\ u # Owner /\ team[u] # "none" /\ team' = [team EXCEPT ![u] = role] /\ roles' = roles
        /\ SpentReceipts' = SpentReceipts /\ Left' = Left
    BY DEF PatchRole, IsMember, payment, SpentReceipts, Left, Removed
  <1>2. Register!Patch(u, role)
    BY <1>1, AuditTells, AuditTellsNext
       DEF Register!Patch, Register!IsMember, SpentReceipts, Left
  <1> QED BY <1>2 DEF Register!Next

\* What a deletion does to the register.
LEMMA DeletionDeparts ==
  ASSUME IInv, IInv', NEW u \in Users, u # Owner, IsMember(u), DeleteMembership(u),
         SpentReceipts' = SpentReceipts
  PROVE  Register!Depart(u)
  <1>1. team' = [team EXCEPT ![u] = "none"] /\ roles' = roles \ RolesOf(u) /\ team[u] # "none"
    BY DEF DeleteMembership, IsMember
  <1> QED BY <1>1, AuditTells, AuditTellsNext
          DEF Register!Depart, Register!IsMember, Register!RolesOf, RolesOf, SpentReceipts

\* Additions and removals begin.
LEMMA RequestIsAStep ==
  ASSUME IInv, IInv', NEW s \in Sagas, NEW u \in Users,
         RemoveUser(s, u) \/ AcceptInvite(s, u) \/ AutoJoin(s, u)
  PROVE  Register!Next
  <1>0. /\ team \in [Users -> TeamRole \cup {"none"}] /\ roles \in SUBSET (Users \X Roles)
        /\ invites \in [Users -> {"none", "member", "admin"}]
        /\ \A v \in Users : team[v] = "owner" <=> v = Owner
    BY DEF IInv, TypeOK, TableInv, OwnerOnly
  <1>1. CASE RemoveUser(s, u)
    <2>1. /\ u # Owner /\ IsMember(u) /\ DeleteMembership(u)
          /\ BeginSaga(s, "remove", u, team[u], RolesOf(u))
      BY <1>1 DEF RemoveUser
    <2>2. team[u] \in {"member", "admin"} /\ RolesOf(u) \in SUBSET (Users \X Roles)
      BY <1>0, <2>1 DEF TeamRole, IsMember, RolesOf
    <2>3. /\ Left[s] = {} /\ SpentReceipts' = SpentReceipts
          /\ Left' = [Left EXCEPT ![s] =
                        {[user |-> u, role |-> team[u], kept |-> RolesOf(u)]}]
      BY <2>1, <2>2, BeginLeft
    <2>4. Register!Depart(u)
      BY <2>1, <2>3, DeletionDeparts
    <2>5. Register!Remove(s, u)
      BY <2>3, <2>4, AuditTells DEF Register!Remove, Register!RolesOf, RolesOf, Left
    <2> QED BY <2>5 DEF Register!Next
  <1>2. ASSUME NEW role \in {"member", "admin"}, NEW kind \in {"accept", "auto"}, ~IsMember(u),
               InsertMembership(u, role, {}), BeginSaga(s, kind, u, role, {})
        PROVE  Register!Next
    <2>1. Left[s] = {} /\ Left' = [Left EXCEPT ![s] = {}] /\ SpentReceipts' = SpentReceipts
      BY <1>2, BeginLeft
    <2>2. Left' = Left
      BY <2>1 DEF Left
    <2>3. team' = [team EXCEPT ![u] = role] /\ roles' = roles
      BY <1>2 DEF InsertMembership
    <2>4. Register!Join(u, role)
      BY <1>2, <2>1, <2>2, <2>3, AuditTells, AuditTellsNext
         DEF Register!Join, Register!IsMember, IsMember, SpentReceipts, Left
    <2> QED BY <2>4 DEF Register!Next
  <1>3. CASE AcceptInvite(s, u)
    <2>1. PICK role \in {"member", "admin"} : role = invites[u]
      BY <1>0, <1>3 DEF AcceptInvite
    <2> QED BY <1>2, <1>3, <2>1 DEF AcceptInvite
  <1>4. CASE AutoJoin(s, u)
    BY <1>2, <1>4 DEF AutoJoin
  <1> QED BY <1>1, <1>3, <1>4

\* The calls to the payment provider are no steps of the register.
LEMMA BillingIsHidden ==
  ASSUME IInv, IInv', NEW s \in Sagas,
         BillRead(s) \/ BillWrite(s) \/ BillAnswerLost(s) \/ BillFails(s) \/ RestFails(s)
  PROVE  UNCHANGED Register!register
  <1>1. /\ UNCHANGED <<team, roles, receipt>> /\ saga[s].pc # "idle"
        /\ saga \in [Sagas -> SagaType] /\ saga' \in [Sagas -> SagaType]
    BY DEF BillRead, BillWrite, BillAnswerLost, BillFails, RestFails, db, IInv, TypeOK
  <1>2. PICK pc \in {"write", "unwrite", "rest", "undo", "unbill"}, n \in Nat :
          saga' = [saga EXCEPT ![s].pc = pc, ![s].quantity = n]
    BY DEF BillRead, BillWrite, BillAnswerLost, BillFails, RestFails, Advance, IInv, TypeOK
  <1>3. /\ saga'[s].pc # "idle" /\ saga'[s].kind = saga[s].kind /\ saga'[s].user = saga[s].user
        /\ saga'[s].role = saga[s].role /\ saga'[s].kept = saga[s].kept
        /\ \A z \in Sagas \ {s} : saga'[z] = saga[z]
    BY <1>1, <1>2 DEF SagaType
  <1>4. Left' = Left
    <2>1. Removed(s)' = Removed(s)
      BY <1>1, <1>3 DEF Removed
    <2>2. \A z \in Sagas \ {s} : Removed(z)' = Removed(z)
      BY <1>3 DEF Removed
    <2> QED BY <2>1, <2>2 DEF Left
  <1>5. SpentReceipts' = SpentReceipts
    BY <1>1 DEF SpentReceipts
  <1> QED BY <1>1, <1>4, <1>5, HiddenStep

\* The end of a request, with its compensation or without.
LEMMA EndingIsAStep ==
  ASSUME IInv, IInv', NEW s \in Sagas,
         RestSucceeds(s) \/ SagaLost(s) \/ UndoRemoval(s) \/ UndoAddition(s)
  PROVE  Register!Next
  <1>0. /\ saga[s].pc # "idle" /\ saga[s] \in SagaType /\ End(s) /\ UNCHANGED receipt
    BY DEF RestSucceeds, SagaLost, UndoRemoval, UndoAddition, IInv, TypeOK
  <1>1. /\ Left' = [Left EXCEPT ![s] = {}] /\ SpentReceipts' = SpentReceipts
        /\ saga[s].kind # "remove" => Left' = Left
    BY <1>0, EndLeft
  <1>2. CASE UNCHANGED <<team, roles>>
    <2>1. Register!Finish(s)
      BY <1>1, <1>2, AuditTells, AuditTellsNext DEF Register!Finish, SpentReceipts, Left
    <2> QED BY <2>1 DEF Register!Next
  <1>3. CASE UndoRemoval(s) /\ ~IsMember(saga[s].user)
    <2>. DEFINE m == [user |-> saga[s].user, role |-> saga[s].role, kept |-> saga[s].kept]
    <2>1. Left[s] = {m}
      BY <1>0, <1>3 DEF Left, Removed, UndoRemoval
    <2>2. /\ team' = [team EXCEPT ![m.user] = m.role] /\ roles' = roles \cup m.kept
          /\ team[m.user] # "none" => FALSE
      BY <1>3 DEF UndoRemoval, InsertMembership, IsMember
    <2>3. Register!Restore(s)
      BY <1>1, <2>1, <2>2, AuditTells, AuditTellsNext
         DEF Register!Restore, Register!IsMember, SpentReceipts, Left
    <2> QED BY <2>3 DEF Register!Next
  <1>4. CASE UndoAddition(s) /\ IsMember(saga[s].user)
    <2>1. PICK u \in Users : u = saga[s].user
      BY <1>0 DEF SagaType
    <2>2. u # Owner /\ DeleteMembership(u) /\ saga[s].kind # "remove"
      BY <1>0, <1>4, <2>1 DEF UndoAddition, IInv, SagaInv
    <2>3. Register!Depart(u)
      BY <1>1, <1>4, <2>1, <2>2, DeletionDeparts
    <2>4. Register!Withdraw(u)
      BY <1>1, <2>2, <2>3 DEF Register!Withdraw, Left
    <2> QED BY <2>4 DEF Register!Next
  <1> QED BY <1>2, <1>3, <1>4
          DEF RestSucceeds, SagaLost, UndoRemoval, UndoAddition, DeleteMembership, db

\* The steps of a team are steps of the register.
LEMMA StepsOfTheRegister ==
  ASSUME IInv, IInv', [Next]_vars
  PROVE  [Register!Next]_(Register!register)
  <1>1. CASE \E c \in Commands : Commit(c)
    BY <1>1, CommitIsAChange
  <1>2. CASE \/ \E r \in Receipts : Expire(r)
             \/ \E c \in Commands : LockRow(c) \/ Decide(c) \/ Deny(c) \/ ChangeFails(c)
             \/ \E c \in Commands, kind \in {"grant", "revoke"}, actor, target \in Users,
                   role \in Roles, r \in Receipts : Claim(c, kind, actor, target, role, r)
    BY <1>2, CommandsAreHidden
  <1>3. CASE \E u \in Users, role \in {"member", "admin"} : PatchRole(u, role)
    BY <1>3, PatchIsAPatch
  <1>4. CASE \E s \in Sagas, u \in Users : RemoveUser(s, u) \/ AcceptInvite(s, u) \/ AutoJoin(s, u)
    BY <1>4, RequestIsAStep
  <1>5. CASE \E s \in Sagas : SagaStep(s)
    BY <1>5, BillingIsHidden, EndingIsAStep DEF SagaStep
  <1>6. CASE UNCHANGED vars
    <2>1. UNCHANGED <<team, roles, receipt, saga>>
      BY <1>6 DEF vars, db, payment
    <2> QED BY <2>1, HiddenStep DEF SpentReceipts, Left, Removed
  <1> QED BY <1>1, <1>2, <1>3, <1>4, <1>5, <1>6 DEF Next, ChangeStep

\* The team implements the register of its roles: however commands, removals,
\* rejoins and compensations overlap, fail or lose their answers, what the
\* tables and the audit show is a history of authorized changes, each paid for
\* by one receipt, and of memberships that begin and end with their own roles.
THEOREM TeamImplementsRegister == Spec => ImplementsRegister
  <1>1. Init => Register!Init
    <2> SUFFICES ASSUME Init PROVE Register!Init
      OBVIOUS
    <2>1. IInv
      BY InitIInv
    <2>2. Audited = roles
      BY <2>1, AuditTells
    <2>3. SpentReceipts = {} /\ Left = [s \in Sagas |-> {}]
      BY DEF Init, SpentReceipts, Left, Removed, NoSaga
    <2> QED BY <2>2, <2>3
            DEF Init, Register!Init, Register!IsMember, IsMember, TeamRole, SpentReceipts, Left
  <1>2. IInv /\ IInv' /\ [Next]_vars => [Register!Next]_(Register!register)
    BY StepsOfTheRegister
  <1> QED BY <1>1, <1>2, InductiveInvariant, PTL DEF Spec, ImplementsRegister, Register!Spec
=============================================================================
