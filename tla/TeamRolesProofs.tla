-------------------------- MODULE TeamRolesProofs --------------------------
(***************************************************************************)
(* The safety of role changes and membership, for every team, every set of *)
(* commands and every number of requests in progress.                      *)
(***************************************************************************)
EXTENDS TeamRoles, FiniteSetTheorems, WellFoundedInduction, TLAPS

OwnerOnly == \A u \in Users : team[u] = "owner" <=> u = Owner

\* A locked membership is as it was read, and locked by nobody else.
Locked ==
    \A c \in Commands, u \in Users : HoldsRow(c, u) =>
        /\ team[u] = cmd[c].read[u]
        /\ \A d \in Commands : HoldsRow(d, u) => d = c

\* What Decide found still holds at the commit.
Ready == \A c \in Commands : cmd[c].pc = "commit" => Allowed(c) /\ Applies(c)

\* A claimed receipt is the actor's, not spent, and claimed by nobody else.
Claimed ==
    \A c \in Commands : InTransaction(c) =>
        /\ Principal[cmd[c].receipt] = cmd[c].actor
        /\ receipt[cmd[c].receipt] # "spent"
        /\ \A d \in Commands : HoldsReceipt(d, cmd[c].receipt) => d = c

\* Events are written when a command ends.
Logged ==
    \A c \in Commands :
        /\ cmd[c].log \in {<<>>, <<"success">>, <<"denied">>}
        /\ cmd[c].pc \in {"idle", "lock", "commit", "deny"} => cmd[c].log = <<>>
        /\ cmd[c].pc = "done" => cmd[c].log = <<"success">>
        /\ cmd[c].pc = "denied" => cmd[c].log = <<"denied">>

Spent ==
    \A r \in Receipts :
        /\ receipt[r] = "spent" <=>
             \E c \in Commands : cmd[c].log = <<"success">> /\ cmd[c].receipt = r
        /\ \A c, d \in Commands :
             (/\ cmd[c].log = <<"success">> /\ cmd[d].log = <<"success">>
              /\ cmd[c].receipt = r /\ cmd[d].receipt = r) => c = d

\* Rows are read in order, and only those of actor and target.
InOrder ==
    \A c \in Commands :
        /\ \A u \in Users : cmd[c].read[u] # "unread" => u \in Parties(c)
        /\ \A u, v \in Parties(c) :
             (cmd[c].read[u] # "unread" /\ cmd[c].read[v] = "unread") => u < v

CommandInv == Locked /\ Ready /\ Claimed /\ Logged /\ Spent /\ InOrder

TableInv == OwnerOnly /\ RolesHaveMembers /\ AuditExplainsRoles /\ SeatsCountMembers

\* What a saga remembers of a removed user.
SagaInv ==
    \A s \in Sagas : saga[s].pc # "idle" =>
        /\ saga[s].user # Owner
        /\ \A p \in saga[s].kept : p[1] = saga[s].user /\ p[2] \notin Derived

\* b is at most k away from n.
Near(b, n, k) == b <= n + k /\ n <= b + k

\* The seats that saga s found.
Before(s) == IF saga[s].kind = "remove" THEN seats + 1 ELSE seats - 1

\* What is billed while one request is at work, up to what slipped.
Progress(s) ==
    /\ IsMember(saga[s].user) <=> saga[s].kind # "remove"
    /\ saga[s].pc \in {"bill", "write", "undo"} => Near(billed, Before(s), slips)
    /\ saga[s].pc \in {"rest", "unbill", "unwrite"} => Near(billed, seats, slips)
    /\ saga[s].pc \in {"write", "unwrite"} => saga[s].quantity = billed

BillingInv ==
    ~overlapped =>
        /\ \A s, z \in Sagas : (saga[s].pc # "idle" /\ saga[z].pc # "idle") => s = z
        /\ \A s \in Sagas : saga[s].pc # "idle" => Progress(s)
        /\ (\A s \in Sagas : saga[s].pc = "idle") => Near(billed, seats, slips)

IInv == TypeOK /\ CommandInv /\ TableInv /\ SagaInv /\ BillingInv

-----------------------------------------------------------------------------
(* Types.                                                                  *)

LEMMA RestingTypes == NoCommand \in CommandType /\ NoSaga \in SagaType
  <1>1. (CHOOSE r \in Roles : TRUE) \in Roles /\ (CHOOSE r \in Receipts : TRUE) \in Receipts
    BY TeamAssumption
  <1>2. <<>> \in Seq({"success", "denied"})
    OBVIOUS
  <1>3. NoCommand \in CommandType
    BY <1>1, <1>2, TeamAssumption DEF NoCommand, CommandType, Unread
  <1>4. NoSaga \in SagaType
    BY TeamAssumption DEF NoSaga, SagaType
  <1> QED BY <1>3, <1>4

\* The next row is one of those to be read, and below the others.
LEMMA NextRowFacts ==
  ASSUME TypeOK, NEW c \in Commands, ToRead(c) # {}
  PROVE  /\ NextRow(c) \in ToRead(c) /\ NextRow(c) \in Users /\ NextRow(c) \in Parties(c)
         /\ cmd[c].read[NextRow(c)] = "unread"
         /\ \A v \in ToRead(c) : NextRow(c) <= v
  <1>1. cmd[c].actor \in Users /\ cmd[c].target \in Users /\ Users \subseteq Int
    BY TeamAssumption DEF TypeOK, CommandType
  <1>2. \E u \in ToRead(c) : \A v \in ToRead(c) : u <= v
    <2>1. PICK a \in ToRead(c) : TRUE
      OBVIOUS
    <2>2. ToRead(c) \subseteq {cmd[c].actor, cmd[c].target}
      BY DEF ToRead, Parties
    <2>3. CASE \A v \in ToRead(c) : a <= v
      BY <2>3
    <2>4. CASE \E v \in ToRead(c) : ~(a <= v)
      <3>1. PICK v \in ToRead(c) : ~(a <= v)
        BY <2>4
      <3>2. a \in Int /\ v \in Int /\ ToRead(c) \subseteq {a, v}
        <4>1. a \in Int /\ v \in Int
          BY <1>1, <2>1, <2>2, <3>1
        <4>2. a # v
          BY <3>1, <4>1
        <4> QED BY <2>1, <2>2, <3>1, <4>1, <4>2
      <3>3. v <= a /\ v <= v
        BY <3>1, <3>2
      <3>4. \A w \in ToRead(c) : v <= w
        BY <3>2, <3>3
      <3> QED BY <3>1, <3>4
    <2> QED BY <2>3, <2>4
  <1>3. NextRow(c) \in ToRead(c) /\ \A v \in ToRead(c) : NextRow(c) <= v
    BY <1>2 DEF NextRow
  <1> QED BY <1>1, <1>3 DEF ToRead, Parties

LEMMA LeaveTypes ==
  ASSUME TypeOK, NEW c \in Commands, NEW log \in Seq({"success", "denied"}),
         NEW pc \in {"deny", "done", "denied", "error"}, Leave(c, pc, log)
  PROVE  /\ cmd' \in [Commands -> CommandType]
         /\ \A d \in Commands \ {c} : cmd'[d] = cmd[d]
         /\ cmd'[c].pc = pc /\ cmd'[c].log = log /\ cmd'[c].receipt = cmd[c].receipt
         /\ \A u \in Users : cmd'[c].read[u] = "unread"
  <1>1. [NoCommand EXCEPT !.pc = pc, !.receipt = cmd[c].receipt, !.log = log] \in CommandType
    BY RestingTypes DEF TypeOK, CommandType
  <1>2. /\ [NoCommand EXCEPT !.pc = pc, !.receipt = cmd[c].receipt, !.log = log].pc = pc
        /\ [NoCommand EXCEPT !.pc = pc, !.receipt = cmd[c].receipt, !.log = log].log = log
        /\ [NoCommand EXCEPT !.pc = pc, !.receipt = cmd[c].receipt, !.log = log].receipt = cmd[c].receipt
        /\ [NoCommand EXCEPT !.pc = pc, !.receipt = cmd[c].receipt, !.log = log].read = Unread
    BY DEF NoCommand
  <1> QED BY <1>1, <1>2 DEF TypeOK, Leave, Unread

LEMMA LockFacts ==
  ASSUME TypeOK, NEW c \in Commands, LockRow(c)
  PROVE  /\ cmd' \in [Commands -> CommandType]
         /\ \A d \in Commands \ {c} : cmd'[d] = cmd[d]
         /\ cmd'[c].pc = "lock" /\ cmd'[c].actor = cmd[c].actor /\ cmd'[c].target = cmd[c].target
         /\ cmd'[c].receipt = cmd[c].receipt /\ cmd'[c].log = cmd[c].log
         /\ \A u \in Users :
              cmd'[c].read[u] = IF u = NextRow(c) THEN team[u] ELSE cmd[c].read[u]
  <1> DEFINE read == [cmd[c].read EXCEPT ![NextRow(c)] = team[NextRow(c)]]
             new == [cmd[c] EXCEPT !.read = read]
  <1>1. NextRow(c) \in Users
    BY NextRowFacts DEF LockRow
  <1>2. cmd[c] \in CommandType /\ team[NextRow(c)] \in TeamRole \cup {"none", "unread"}
    BY <1>1 DEF TypeOK
  <1>3. /\ read \in [Users -> TeamRole \cup {"none", "unread"}]
        /\ \A u \in Users : read[u] = IF u = NextRow(c) THEN team[u] ELSE cmd[c].read[u]
    BY <1>1, <1>2 DEF CommandType
  <1>4. new \in CommandType
    BY <1>2, <1>3 DEF CommandType
  <1>5. /\ new.pc = cmd[c].pc /\ new.actor = cmd[c].actor /\ new.target = cmd[c].target
        /\ new.receipt = cmd[c].receipt /\ new.log = cmd[c].log /\ new.read = read
    BY <1>2 DEF CommandType
  <1>6. cmd' = [cmd EXCEPT ![c] = new]
    BY DEF LockRow
  <1>7. cmd[c].pc = "lock"
    BY DEF LockRow
  <1> HIDE DEF new, read
  <1>8. cmd' \in [Commands -> CommandType] /\ cmd'[c] = new /\ \A d \in Commands \ {c} : cmd'[d] = cmd[d]
    BY <1>4, <1>6 DEF TypeOK
  <1> QED BY <1>3, <1>5, <1>7, <1>8

LEMMA GotoFacts ==
  ASSUME TypeOK, NEW c \in Commands, Goto(c, "commit")
  PROVE  /\ cmd' \in [Commands -> CommandType]
         /\ \A d \in Commands \ {c} : cmd'[d] = cmd[d]
         /\ cmd'[c].pc = "commit" /\ cmd'[c].actor = cmd[c].actor /\ cmd'[c].target = cmd[c].target
         /\ cmd'[c].kind = cmd[c].kind /\ cmd'[c].role = cmd[c].role
         /\ cmd'[c].receipt = cmd[c].receipt /\ cmd'[c].log = cmd[c].log
         /\ cmd'[c].read = cmd[c].read
  <1> DEFINE new == [cmd[c] EXCEPT !.pc = "commit"]
  <1>1. cmd[c] \in CommandType
    BY DEF TypeOK
  <1>2. new \in CommandType
    BY <1>1 DEF CommandType
  <1>3. /\ new.pc = "commit" /\ new.actor = cmd[c].actor /\ new.target = cmd[c].target
        /\ new.kind = cmd[c].kind /\ new.role = cmd[c].role
        /\ new.receipt = cmd[c].receipt /\ new.log = cmd[c].log /\ new.read = cmd[c].read
    BY <1>1 DEF CommandType
  <1>4. cmd' = [cmd EXCEPT ![c] = new]
    BY DEF Goto
  <1> HIDE DEF new
  <1>5. cmd' \in [Commands -> CommandType] /\ cmd'[c] = new /\ \A d \in Commands \ {c} : cmd'[d] = cmd[d]
    BY <1>2, <1>4 DEF TypeOK
  <1> QED BY <1>3, <1>5

LEMMA ClaimFacts ==
  ASSUME TypeOK, NEW c \in Commands, NEW kind \in {"grant", "revoke"}, NEW actor \in Users,
         NEW target \in Users, NEW role \in Roles, NEW r \in Receipts,
         Claim(c, kind, actor, target, role, r)
  PROVE  /\ cmd' \in [Commands -> CommandType]
         /\ \A d \in Commands \ {c} : cmd'[d] = cmd[d]
         /\ cmd'[c].receipt = r /\ cmd'[c].log = <<>>
         /\ \A u \in Users : cmd'[c].read[u] = "unread"
         /\ \/ /\ receipt[r] = "usable" /\ Principal[r] = actor
               /\ \A d \in Commands : ~HoldsReceipt(d, r)
               /\ cmd'[c].pc = "lock" /\ cmd'[c].actor = actor
            \/ cmd'[c].pc = "deny"
  <1> DEFINE new == [NoCommand EXCEPT !.pc = "lock", !.kind = kind, !.actor = actor,
                                      !.target = target, !.role = role, !.receipt = r]
             bad == [NoCommand EXCEPT !.pc = "deny", !.receipt = r]
  <1>1. new \in CommandType /\ bad \in CommandType
    BY RestingTypes DEF CommandType
  <1>2. /\ new.pc = "lock" /\ new.actor = actor /\ new.receipt = r /\ new.log = <<>> /\ new.read = Unread
        /\ bad.pc = "deny" /\ bad.receipt = r /\ bad.log = <<>> /\ bad.read = Unread
    BY DEF NoCommand
  <1>3. \A u \in Users : Unread[u] = "unread"
    BY DEF Unread
  <1>4. \/ /\ receipt[r] = "usable" /\ Principal[r] = actor
           /\ \A d \in Commands : ~HoldsReceipt(d, r)
           /\ cmd' = [cmd EXCEPT ![c] = new]
        \/ cmd' = [cmd EXCEPT ![c] = bad]
    BY DEF Claim
  <1> HIDE DEF new, bad
  <1>5. CASE /\ receipt[r] = "usable" /\ Principal[r] = actor
             /\ \A d \in Commands : ~HoldsReceipt(d, r)
             /\ cmd' = [cmd EXCEPT ![c] = new]
    <2>1. cmd' \in [Commands -> CommandType] /\ cmd'[c] = new /\ \A d \in Commands \ {c} : cmd'[d] = cmd[d]
      BY <1>1, <1>5 DEF TypeOK
    <2> QED BY <1>2, <1>3, <1>5, <2>1
  <1>6. CASE cmd' = [cmd EXCEPT ![c] = bad]
    <2>1. cmd' \in [Commands -> CommandType] /\ cmd'[c] = bad /\ \A d \in Commands \ {c} : cmd'[d] = cmd[d]
      BY <1>1, <1>6 DEF TypeOK
    <2> QED BY <1>2, <1>3, <2>1
  <1> QED BY <1>4, <1>5, <1>6

LEMMA ChangeTypes ==
  ASSUME IInv, NEW c \in Commands, ChangeStep(c) PROVE TypeOK'
  <1>a. TypeOK
    BY DEF IInv
  <1>1. CASE LockRow(c)
    <2>1. cmd' \in [Commands -> CommandType]
      BY <1>1, <1>a, LockFacts
    <2> QED BY <1>1, <1>a, <2>1 DEF LockRow, TypeOK, db, payment, history
  <1>2. CASE Decide(c)
    <2>1. cmd' \in [Commands -> CommandType]
      <3>1. CASE Goto(c, "commit")
        BY <1>a, <3>1, GotoFacts
      <3>2. CASE Leave(c, "deny", cmd[c].log)
        <4>1. cmd[c].log \in Seq({"success", "denied"})
          BY <1>a DEF TypeOK, CommandType
        <4> QED BY <1>a, <3>2, <4>1, LeaveTypes
      <3> QED BY <1>2, <3>1, <3>2 DEF Decide
    <2> QED BY <1>2, <1>a, <2>1 DEF Decide, TypeOK, db, payment, history
  <1>3. CASE Commit(c)
    <2> DEFINE p == <<cmd[c].target, cmd[c].role>>
    <2>1. cmd[c].log = <<>>
      BY <1>3 DEF Commit, IInv, CommandInv, Logged
    <2>2. Append(<<>>, "success") \in Seq({"success", "denied"})
      OBVIOUS
    <2>3. cmd' \in [Commands -> CommandType]
      BY <1>3, <1>a, <2>1, <2>2, LeaveTypes DEF Commit
    <2>4. p \in Users \X Roles /\ cmd[c].receipt \in Receipts
      BY <1>a DEF TypeOK, CommandType
    <2>5. roles' \in SUBSET (Users \X Roles) /\ ledger' \in [Users \X Roles -> Int]
      BY <1>3, <1>a, <2>4 DEF Commit, TypeOK
    <2>6. receipt' \in [Receipts -> {"usable", "expired", "spent"}]
      BY <1>3, <1>a, <2>4 DEF Commit, TypeOK
    <2> QED BY <1>3, <1>a, <2>3, <2>5, <2>6 DEF Commit, TypeOK, payment, history
  <1>4. CASE Deny(c)
    <2>1. cmd[c].log = <<>>
      BY <1>4 DEF Deny, IInv, CommandInv, Logged
    <2>2. Append(<<>>, "denied") \in Seq({"success", "denied"})
      OBVIOUS
    <2>3. cmd' \in [Commands -> CommandType]
      BY <1>4, <1>a, <2>1, <2>2, LeaveTypes DEF Deny
    <2> QED BY <1>4, <1>a, <2>3 DEF Deny, TypeOK, db, payment, history
  <1>5. CASE ChangeFails(c)
    <2>1. cmd[c].log \in Seq({"success", "denied"})
      BY <1>a DEF TypeOK, CommandType
    <2>2. cmd' \in [Commands -> CommandType]
      BY <1>5, <1>a, <2>1, LeaveTypes DEF ChangeFails
    <2> QED BY <1>5, <1>a, <2>2 DEF ChangeFails, TypeOK, db, payment, history
  <1> QED BY <1>1, <1>2, <1>3, <1>4, <1>5 DEF ChangeStep

-----------------------------------------------------------------------------
(* Locks, receipts and events.                                             *)

\* Steps that leave commands and the tables they lock alone.
LEMMA CommandFrame ==
  ASSUME TypeOK, CommandInv, UNCHANGED <<cmd, team, roles>>,
         \A r \in Receipts : receipt'[r] = "spent" <=> receipt[r] = "spent"
  PROVE  CommandInv'
  <1>1. Locked'
    BY DEF CommandInv, Locked, HoldsRow, InTransaction
  <1>2. Ready'
    BY DEF CommandInv, Ready, Allowed, Applies
  <1>3. Claimed'
    <2>1. \A c \in Commands : cmd[c].receipt \in Receipts
      BY DEF TypeOK, CommandType
    <2> QED BY <2>1 DEF CommandInv, Claimed, HoldsReceipt, InTransaction
  <1>4. Logged' /\ InOrder'
    BY DEF CommandInv, Logged, InOrder, Parties
  <1>5. Spent'
    BY DEF CommandInv, Spent
  <1> QED BY <1>1, <1>2, <1>3, <1>4, <1>5 DEF CommandInv

\* A member's row that no command has locked, and his roles, are free to change.
LEMMA TouchKeepsCommands ==
  ASSUME TypeOK, CommandInv, NEW u \in Users, RowFree(u), UNCHANGED <<cmd, receipt>>,
         \A v \in Users \ {u} : team'[v] = team[v],
         \A p \in Users \X Roles : p[1] # u => (p \in roles' <=> p \in roles)
  PROVE  CommandInv'
  <1>1. Locked'
    BY DEF CommandInv, Locked, RowFree, HoldsRow, InTransaction
  <1>2. Ready'
    <2> SUFFICES ASSUME NEW c \in Commands, cmd[c].pc = "commit"
                 PROVE  Allowed(c)' /\ Applies(c)'
      BY DEF Ready
    <2>1. Allowed(c) /\ Applies(c)
      BY DEF CommandInv, Ready
    <2>2. cmd[c].target \in Users /\ cmd[c].role \in Roles
      BY DEF TypeOK, CommandType
    <2>3. HoldsRow(c, cmd[c].target)
      BY <2>1 DEF HoldsRow, InTransaction, Allowed
    <2>4. cmd[c].target # u
      BY <2>3 DEF RowFree
    <2>5. <<cmd[c].target, cmd[c].role>> \in roles' <=> <<cmd[c].target, cmd[c].role>> \in roles
      BY <2>2, <2>4
    <2> QED BY <2>1, <2>5 DEF Allowed, Applies
  <1>3. Claimed' /\ Logged' /\ Spent'
    BY DEF CommandInv, Claimed, Logged, Spent, HoldsReceipt, InTransaction
  <1>4. InOrder'
    BY DEF CommandInv, InOrder, Parties
  <1> QED BY <1>1, <1>2, <1>3, <1>4 DEF CommandInv

\* Steps that spend no receipt.
LEMMA SpentFrame ==
  ASSUME Spent, receipt' = receipt,
         \A d \in Commands : /\ cmd'[d].log = <<"success">> <=> cmd[d].log = <<"success">>
                             /\ cmd[d].log = <<"success">> => cmd'[d].receipt = cmd[d].receipt
  PROVE  Spent'
  <1> SUFFICES ASSUME NEW r \in Receipts
               PROVE  /\ receipt'[r] = "spent" <=>
                           \E c \in Commands : cmd'[c].log = <<"success">> /\ cmd'[c].receipt = r
                      /\ \A c, d \in Commands :
                           (/\ cmd'[c].log = <<"success">> /\ cmd'[d].log = <<"success">>
                            /\ cmd'[c].receipt = r /\ cmd'[d].receipt = r) => c = d
    BY DEF Spent
  <1>1. \A d \in Commands : (cmd'[d].log = <<"success">> /\ cmd'[d].receipt = r)
                              <=> (cmd[d].log = <<"success">> /\ cmd[d].receipt = r)
    BY Zenon
  <1>2. /\ receipt[r] = "spent" <=>
             \E c \in Commands : cmd[c].log = <<"success">> /\ cmd[c].receipt = r
        /\ \A c, d \in Commands :
             (/\ cmd[c].log = <<"success">> /\ cmd[d].log = <<"success">>
              /\ cmd[c].receipt = r /\ cmd[d].receipt = r) => c = d
    BY DEF Spent
  <1> QED BY <1>1, <1>2, Zenon

LEMMA ClaimCommands ==
  ASSUME TypeOK, CommandInv, NEW c \in Commands, NEW kind \in {"grant", "revoke"},
         NEW actor \in Users, NEW target \in Users, NEW role \in Roles, NEW r \in Receipts,
         Claim(c, kind, actor, target, role, r)
  PROVE  CommandInv'
  <1>0. UNCHANGED <<team, roles, receipt>> /\ cmd[c].pc = "idle"
    BY DEF Claim, db
  <1>1. /\ \A d \in Commands \ {c} : cmd'[d] = cmd[d]
        /\ cmd'[c].receipt = r /\ cmd'[c].log = <<>>
        /\ \A u \in Users : cmd'[c].read[u] = "unread"
        /\ \/ /\ receipt[r] = "usable" /\ Principal[r] = actor
              /\ \A d \in Commands : ~HoldsReceipt(d, r)
              /\ cmd'[c].pc = "lock" /\ cmd'[c].actor = actor
           \/ cmd'[c].pc = "deny"
    BY ClaimFacts
  <1>2. Locked'
    BY <1>0, <1>1 DEF CommandInv, Locked, HoldsRow, InTransaction, TeamRole
  <1>3. Ready'
    BY <1>0, <1>1 DEF CommandInv, Ready, Allowed, Applies
  <1>4. Claimed'
    <2> SUFFICES ASSUME NEW d \in Commands, InTransaction(d)'
                 PROVE  /\ Principal[cmd'[d].receipt] = cmd'[d].actor
                        /\ receipt'[cmd'[d].receipt] # "spent"
                        /\ \A e \in Commands : HoldsReceipt(e, cmd[d].receipt)' => e = d
      BY DEF Claimed
    <2>1. CASE d = c
      BY <1>0, <1>1, <2>1 DEF InTransaction, HoldsReceipt
    <2>2. CASE d # c
      BY <1>0, <1>1, <2>2 DEF CommandInv, Claimed, InTransaction, HoldsReceipt
    <2> QED BY <2>1, <2>2
  <1>5. Logged'
    BY <1>1 DEF CommandInv, Logged
  <1>6. Spent'
    <2>1. cmd[c].log = <<>> /\ <<>> # <<"success">>
      BY <1>0 DEF CommandInv, Logged
    <2>2. \A d \in Commands :
            /\ cmd'[d].log = <<"success">> <=> cmd[d].log = <<"success">>
            /\ cmd[d].log = <<"success">> => cmd'[d].receipt = cmd[d].receipt
      BY <1>1, <2>1
    <2> QED BY <1>0, <2>2, SpentFrame DEF CommandInv
  <1>7. InOrder'
    <2> SUFFICES ASSUME NEW d \in Commands
                 PROVE  /\ \A u \in Users : cmd'[d].read[u] # "unread" => u \in Parties(d)'
                        /\ \A u, v \in Parties(d)' :
                             (cmd'[d].read[u] # "unread" /\ cmd'[d].read[v] = "unread") => u < v
      BY DEF InOrder
    <2>1. CASE d = c
      <3>1. Parties(d)' \subseteq Users
        BY ClaimFacts DEF Parties, CommandType
      <3> QED BY <1>1, <2>1, <3>1
    <2>2. CASE d # c
      BY <1>1, <2>2 DEF CommandInv, InOrder, Parties
    <2> QED BY <2>1, <2>2
  <1> QED BY <1>2, <1>3, <1>4, <1>5, <1>6, <1>7 DEF CommandInv

LEMMA LockCommands ==
  ASSUME TypeOK, CommandInv, NEW c \in Commands, LockRow(c)
  PROVE  CommandInv'
  <1> DEFINE n == NextRow(c)
  <1>0. /\ UNCHANGED <<team, roles, receipt>> /\ cmd[c].pc = "lock" /\ RowFree(n) /\ ToRead(c) # {}
    BY DEF LockRow, db
  <1>1. /\ \A d \in Commands \ {c} : cmd'[d] = cmd[d]
        /\ cmd'[c].pc = "lock" /\ cmd'[c].actor = cmd[c].actor /\ cmd'[c].target = cmd[c].target
        /\ cmd'[c].receipt = cmd[c].receipt /\ cmd'[c].log = cmd[c].log
        /\ \A u \in Users : cmd'[c].read[u] = IF u = n THEN team[u] ELSE cmd[c].read[u]
    BY LockFacts
  <1>2. /\ n \in Users /\ n \in Parties(c) /\ cmd[c].read[n] = "unread"
        /\ \A v \in ToRead(c) : n <= v
    BY <1>0, NextRowFacts
  <1> HIDE DEF n
  <1>3. \A d \in Commands, u \in Users :
          HoldsRow(d, u)' <=> HoldsRow(d, u) \/ (d = c /\ u = n /\ team[u] \in TeamRole)
    <2> SUFFICES ASSUME NEW d \in Commands, NEW u \in Users
                 PROVE  HoldsRow(d, u)' <=> HoldsRow(d, u) \/ (d = c /\ u = n /\ team[u] \in TeamRole)
      OBVIOUS
    <2>1. CASE d # c
      BY <1>1, <2>1 DEF HoldsRow, InTransaction
    <2>2. CASE d = c /\ u # n
      BY <1>0, <1>1, <2>2 DEF HoldsRow, InTransaction
    <2>3. CASE d = c /\ u = n
      BY <1>0, <1>1, <1>2, <2>3 DEF HoldsRow, InTransaction, TeamRole
    <2> QED BY <2>1, <2>2, <2>3
  <1>4. Locked'
    <2> SUFFICES ASSUME NEW d \in Commands, NEW u \in Users, HoldsRow(d, u)'
                 PROVE  /\ team'[u] = cmd'[d].read[u]
                        /\ \A e \in Commands : HoldsRow(e, u)' => e = d
      BY DEF Locked
    <2>1. CASE u = n
      BY <1>0, <1>1, <1>3, <2>1 DEF RowFree
    <2>2. CASE u # n
      BY <1>0, <1>1, <1>3, <2>2 DEF CommandInv, Locked
    <2> QED BY <2>1, <2>2
  <1>5. Ready'
    BY <1>0, <1>1 DEF CommandInv, Ready, Allowed, Applies
  <1>6. Claimed'
    BY <1>0, <1>1 DEF CommandInv, Claimed, InTransaction, HoldsReceipt
  <1>7. Logged'
    BY <1>0, <1>1 DEF CommandInv, Logged
  <1>8. Spent'
    <2>1. \A d \in Commands :
            /\ cmd'[d].log = <<"success">> <=> cmd[d].log = <<"success">>
            /\ cmd[d].log = <<"success">> => cmd'[d].receipt = cmd[d].receipt
      BY <1>1
    <2> QED BY <1>0, <2>1, SpentFrame DEF CommandInv
  <1>9. InOrder'
    <2> SUFFICES ASSUME NEW d \in Commands
                 PROVE  /\ \A u \in Users : cmd'[d].read[u] # "unread" => u \in Parties(d)'
                        /\ \A u, v \in Parties(d)' :
                             (cmd'[d].read[u] # "unread" /\ cmd'[d].read[v] = "unread") => u < v
      BY DEF InOrder
    <2>1. CASE d # c
      BY <1>1, <2>1 DEF CommandInv, InOrder, Parties
    <2>2. CASE d = c
      <3>1. Parties(c)' = Parties(c) /\ Parties(c) \subseteq Users /\ Users \subseteq Int
        BY <1>1, TeamAssumption DEF Parties, TypeOK, CommandType
      <3>2. \A u \in Users : cmd'[c].read[u] # "unread" => u \in Parties(c)
        BY <1>1, <1>2 DEF CommandInv, InOrder
      <3>3. ASSUME NEW u \in Parties(c), NEW v \in Parties(c),
                   cmd'[c].read[u] # "unread", cmd'[c].read[v] = "unread"
            PROVE  u < v
        <4>0. u \in Users /\ v \in Users /\ u \in Int /\ v \in Int
          BY <3>1
        <4>1. team[n] # "unread"
          BY <1>2 DEF TypeOK, TeamRole
        <4>2. v # n /\ cmd[c].read[v] = "unread"
          BY <1>1, <3>3, <4>0, <4>1
        <4>3. CASE u = n
          <5>1. v \in ToRead(c)
            BY <4>2 DEF ToRead
          <5> QED BY <1>2, <4>0, <4>2, <4>3, <5>1
        <4>4. CASE u # n
          <5>1. cmd[c].read[u] # "unread"
            BY <1>1, <3>3, <4>0, <4>4
          <5> QED BY <4>2, <5>1 DEF CommandInv, InOrder
        <4> QED BY <4>3, <4>4
      <3> QED BY <2>2, <3>1, <3>2, <3>3
    <2> QED BY <2>1, <2>2
  <1> QED BY <1>4, <1>5, <1>6, <1>7, <1>8, <1>9 DEF CommandInv

LEMMA GotoCommands ==
  ASSUME TypeOK, CommandInv, NEW c \in Commands, cmd[c].pc = "lock", Allowed(c), Applies(c),
         Goto(c, "commit"), UNCHANGED <<team, roles, receipt>>
  PROVE  CommandInv'
  <1>1. /\ \A d \in Commands \ {c} : cmd'[d] = cmd[d]
        /\ cmd'[c].pc = "commit" /\ cmd'[c].actor = cmd[c].actor /\ cmd'[c].target = cmd[c].target
        /\ cmd'[c].kind = cmd[c].kind /\ cmd'[c].role = cmd[c].role
        /\ cmd'[c].receipt = cmd[c].receipt /\ cmd'[c].log = cmd[c].log
        /\ cmd'[c].read = cmd[c].read
    BY GotoFacts
  <1>2. \A d \in Commands : /\ InTransaction(d)' <=> InTransaction(d)
                            /\ cmd'[d].read = cmd[d].read /\ cmd'[d].receipt = cmd[d].receipt
                            /\ cmd'[d].actor = cmd[d].actor /\ cmd'[d].target = cmd[d].target
                            /\ cmd'[d].log = cmd[d].log
    BY <1>1 DEF InTransaction
  <1>3. Locked'
    BY <1>2 DEF CommandInv, Locked, HoldsRow
  <1>4. Ready'
    BY <1>1 DEF CommandInv, Ready, Allowed, Applies
  <1>5. Claimed'
    BY <1>2 DEF CommandInv, Claimed, HoldsReceipt
  <1>6. Logged'
    BY <1>1 DEF CommandInv, Logged
  <1>7. Spent'
    <2>1. \A d \in Commands :
            /\ cmd'[d].log = <<"success">> <=> cmd[d].log = <<"success">>
            /\ cmd[d].log = <<"success">> => cmd'[d].receipt = cmd[d].receipt
      BY <1>2
    <2> QED BY <2>1, SpentFrame DEF CommandInv
  <1>8. InOrder'
    BY <1>2 DEF CommandInv, InOrder, Parties
  <1> QED BY <1>3, <1>4, <1>5, <1>6, <1>7, <1>8 DEF CommandInv

\* However a transaction ends, its locks are gone.
LEMMA LeaveShared ==
  ASSUME TypeOK, CommandInv, NEW c \in Commands, team' = team,
         NEW pc \in {"deny", "done", "denied", "error"},
         NEW log \in {<<>>, <<"success">>, <<"denied">>},
         pc = "deny" => log = <<>>, pc = "done" => log = <<"success">>,
         pc = "denied" => log = <<"denied">>, Leave(c, pc, log)
  PROVE  /\ Locked' /\ Logged' /\ InOrder'
         /\ \A d \in Commands : InTransaction(d)' <=> d # c /\ InTransaction(d)
         /\ \A d \in Commands \ {c} : cmd'[d] = cmd[d]
         /\ cmd'[c].pc = pc /\ cmd'[c].log = log /\ cmd'[c].receipt = cmd[c].receipt
  <1>0. log \in Seq({"success", "denied"})
    <2>1. <<>> \in Seq({"success", "denied"}) /\ <<"success">> \in Seq({"success", "denied"})
      OBVIOUS
    <2>2. <<"denied">> \in Seq({"success", "denied"})
      OBVIOUS
    <2> QED BY <2>1, <2>2
  <1>1. /\ cmd' \in [Commands -> CommandType]
        /\ \A d \in Commands \ {c} : cmd'[d] = cmd[d]
        /\ cmd'[c].pc = pc /\ cmd'[c].log = log /\ cmd'[c].receipt = cmd[c].receipt
        /\ \A u \in Users : cmd'[c].read[u] = "unread"
    BY <1>0, LeaveTypes
  <1>2. \A d \in Commands : InTransaction(d)' <=> d # c /\ InTransaction(d)
    BY <1>1 DEF InTransaction
  <1>3. Locked'
    BY <1>1, <1>2 DEF CommandInv, Locked, HoldsRow
  <1>4. Logged'
    BY <1>1 DEF CommandInv, Logged
  <1>5. InOrder'
    <2> SUFFICES ASSUME NEW d \in Commands
                 PROVE  /\ \A u \in Users : cmd'[d].read[u] # "unread" => u \in Parties(d)'
                        /\ \A u, v \in Parties(d)' :
                             (cmd'[d].read[u] # "unread" /\ cmd'[d].read[v] = "unread") => u < v
      BY DEF InOrder
    <2>1. CASE d = c
      <3>1. Parties(d)' \subseteq Users
        BY <1>1 DEF Parties, CommandType
      <3> QED BY <1>1, <2>1, <3>1
    <2>2. CASE d # c
      BY <1>1, <2>2 DEF CommandInv, InOrder, Parties
    <2> QED BY <2>1, <2>2
  <1> QED BY <1>1, <1>2, <1>3, <1>4, <1>5

\* A transaction that ends without a commit, or a denial that is written.
LEMMA LeaveCommands ==
  ASSUME TypeOK, CommandInv, NEW c \in Commands, cmd[c].pc \in {"lock", "commit", "deny"},
         UNCHANGED <<team, roles, receipt>>,
         NEW pc \in {"deny", "denied", "error"}, NEW log \in {<<>>, <<"denied">>},
         pc = "deny" => log = <<>>, pc = "denied" => log = <<"denied">>, Leave(c, pc, log)
  PROVE  CommandInv'
  <1>1. /\ Locked' /\ Logged' /\ InOrder'
        /\ \A d \in Commands : InTransaction(d)' <=> d # c /\ InTransaction(d)
        /\ \A d \in Commands \ {c} : cmd'[d] = cmd[d]
        /\ cmd'[c].pc = pc /\ cmd'[c].log = log /\ cmd'[c].receipt = cmd[c].receipt
    BY LeaveShared
  <1>2. Ready'
    BY <1>1 DEF CommandInv, Ready, Allowed, Applies
  <1>3. Claimed'
    BY <1>1 DEF CommandInv, Claimed, HoldsReceipt
  <1>4. Spent'
    <2>1. cmd[c].log = <<>> /\ <<>> # <<"success">> /\ <<"denied">> # <<"success">>
      BY DEF CommandInv, Logged
    <2>2. \A d \in Commands :
            /\ cmd'[d].log = <<"success">> <=> cmd[d].log = <<"success">>
            /\ cmd[d].log = <<"success">> => cmd'[d].receipt = cmd[d].receipt
      BY <1>1, <2>1
    <2> QED BY <2>2, SpentFrame DEF CommandInv
  <1> QED BY <1>1, <1>2, <1>3, <1>4 DEF CommandInv

LEMMA CommitCommands ==
  ASSUME TypeOK, CommandInv, NEW c \in Commands, Commit(c)
  PROVE  CommandInv'
  <1> DEFINE r == cmd[c].receipt
             p == <<cmd[c].target, cmd[c].role>>
  <1>0. cmd[c].pc = "commit" /\ InTransaction(c) /\ HoldsReceipt(c, r)
    BY DEF Commit, InTransaction, HoldsReceipt
  <1>1. cmd[c].log = <<>>
    BY <1>0 DEF CommandInv, Logged
  <1>2. PICK pc \in {"done", "error"} : Leave(c, pc, <<"success">>)
    <2>1. Append(<<>>, "success") = <<"success">>
      OBVIOUS
    <2> QED BY <1>1, <2>1 DEF Commit
  <1>3. /\ Locked' /\ Logged' /\ InOrder'
        /\ \A d \in Commands : InTransaction(d)' <=> d # c /\ InTransaction(d)
        /\ \A d \in Commands \ {c} : cmd'[d] = cmd[d]
        /\ cmd'[c].pc = pc /\ cmd'[c].log = <<"success">> /\ cmd'[c].receipt = r
    BY <1>2, LeaveShared DEF Commit
  <1>4. Allowed(c) /\ HoldsRow(c, cmd[c].target) /\ cmd[c].target \in Users /\ r \in Receipts
    BY <1>0 DEF CommandInv, Ready, Allowed, HoldsRow, TypeOK, CommandType
  <1>5. /\ \A q \in Receipts \ {r} : receipt'[q] = receipt[q]
        /\ receipt'[r] = "spent"
    BY <1>4 DEF Commit, TypeOK
  <1>6. \A q : q # p => (q \in roles' <=> q \in roles)
    BY DEF Commit
  <1>7. \A d \in Commands \ {c} : InTransaction(d) => cmd[d].receipt # r
    BY <1>0 DEF CommandInv, Claimed, HoldsReceipt
  <1>8. receipt[r] # "spent"
    BY <1>0 DEF CommandInv, Claimed
  <1> HIDE DEF r, p
  <1>9. Ready'
    <2> SUFFICES ASSUME NEW d \in Commands, cmd'[d].pc = "commit"
                 PROVE  Allowed(d)' /\ Applies(d)'
      BY DEF Ready
    <2>1. d # c /\ cmd'[d] = cmd[d]
      BY <1>3
    <2>2. Allowed(d) /\ Applies(d) /\ HoldsRow(d, cmd[d].target)
      BY <2>1 DEF CommandInv, Ready, Allowed, HoldsRow, InTransaction
    <2>3. cmd[d].target # cmd[c].target
      BY <1>4, <2>1, <2>2 DEF CommandInv, Locked
    <2>4. <<cmd[d].target, cmd[d].role>> \in roles' <=> <<cmd[d].target, cmd[d].role>> \in roles
      BY <1>6, <2>3 DEF p
    <2> QED BY <2>1, <2>2, <2>4 DEF Allowed, Applies
  <1>10. Claimed'
    <2>1. \A d \in Commands : cmd[d].receipt \in Receipts
      BY DEF TypeOK, CommandType
    <2> QED BY <1>3, <1>5, <1>7, <2>1 DEF CommandInv, Claimed, HoldsReceipt
  <1>11. Spent'
    <2> SUFFICES ASSUME NEW q \in Receipts
                 PROVE  /\ receipt'[q] = "spent" <=>
                             \E d \in Commands : cmd'[d].log = <<"success">> /\ cmd'[d].receipt = q
                        /\ \A d, e \in Commands :
                             (/\ cmd'[d].log = <<"success">> /\ cmd'[e].log = <<"success">>
                              /\ cmd'[d].receipt = q /\ cmd'[e].receipt = q) => d = e
      BY DEF Spent
    <2>1. /\ receipt[q] = "spent" <=>
               \E d \in Commands : cmd[d].log = <<"success">> /\ cmd[d].receipt = q
          /\ \A d, e \in Commands :
               (/\ cmd[d].log = <<"success">> /\ cmd[e].log = <<"success">>
                /\ cmd[d].receipt = q /\ cmd[e].receipt = q) => d = e
      BY DEF CommandInv, Spent
    <2>2. CASE q = r
      <3>1. \A d \in Commands : ~(cmd[d].log = <<"success">> /\ cmd[d].receipt = q)
        BY <1>8, <2>1, <2>2
      <3>2. \A d \in Commands : cmd'[d].log = <<"success">> /\ cmd'[d].receipt = q <=> d = c
        BY <1>3, <2>2, <3>1
      <3> QED BY <1>5, <2>2, <3>2
    <2>3. CASE q # r
      <3>1. <<>> # <<"success">>
        OBVIOUS
      <3>2. \A d \in Commands : (cmd'[d].log = <<"success">> /\ cmd'[d].receipt = q)
                                <=> (cmd[d].log = <<"success">> /\ cmd[d].receipt = q)
        BY <1>1, <1>3, <2>3, <3>1
      <3> QED BY <1>5, <2>1, <2>3, <3>2
    <2> QED BY <2>2, <2>3
  <1> QED BY <1>3, <1>9, <1>10, <1>11 DEF CommandInv

LEMMA ChangeCommands ==
  ASSUME TypeOK, CommandInv, NEW c \in Commands, ChangeStep(c)
  PROVE  CommandInv'
  <1>0. cmd[c].pc \in {"idle", "lock", "commit", "deny"} => cmd[c].log = <<>>
    BY DEF CommandInv, Logged
  <1>1. CASE LockRow(c)
    BY <1>1, LockCommands
  <1>2. CASE Decide(c)
    <2>1. cmd[c].pc = "lock" /\ UNCHANGED <<team, roles, receipt>>
      BY <1>2 DEF Decide, db
    <2>2. CASE Allowed(c) /\ Applies(c)
      BY <1>2, <2>1, <2>2, GotoCommands DEF Decide
    <2>3. CASE ~(Allowed(c) /\ Applies(c))
      <3>1. Leave(c, "deny", <<>>)
        BY <1>0, <1>2, <2>1, <2>3 DEF Decide
      <3> QED BY <2>1, <3>1, LeaveCommands
    <2> QED BY <2>2, <2>3
  <1>3. CASE Commit(c)
    BY <1>3, CommitCommands
  <1>4. CASE Deny(c)
    <2>1. cmd[c].pc = "deny" /\ UNCHANGED <<team, roles, receipt>>
      BY <1>4 DEF Deny, db
    <2>2. Append(<<>>, "denied") = <<"denied">>
      OBVIOUS
    <2>3. PICK pc \in {"denied", "error"} : Leave(c, pc, <<"denied">>)
      BY <1>0, <1>4, <2>1, <2>2 DEF Deny
    <2> QED BY <2>1, <2>3, LeaveCommands
  <1>5. CASE ChangeFails(c)
    <2>1. cmd[c].pc \in {"lock", "commit", "deny"} /\ UNCHANGED <<team, roles, receipt>>
      BY <1>5 DEF ChangeFails, db
    <2>2. Leave(c, "error", <<>>)
      BY <1>0, <1>5, <2>1 DEF ChangeFails
    <2> QED BY <2>1, <2>2, LeaveCommands
  <1> QED BY <1>1, <1>2, <1>3, <1>4, <1>5 DEF ChangeStep

-----------------------------------------------------------------------------
(* The tables.                                                             *)

Members == {u \in Users : IsMember(u)}

LEMMA SeatFacts ==
  ASSUME TypeOK, TableInv
  PROVE  /\ IsFiniteSet(Members) /\ seats = Cardinality(Members) /\ seats \in Nat
         /\ seats >= 1
         /\ \A u \in Users : (u # Owner /\ IsMember(u)) => seats >= 2
  <1>1. IsFiniteSet(Members)
    BY TeamAssumption, FS_Subset DEF Members
  <1>2. seats = Cardinality(Members) /\ seats \in Nat
    BY <1>1, FS_CardinalityType DEF TableInv, SeatsCountMembers, Members
  <1>3. Owner \in Members
    BY TeamAssumption DEF Members, TableInv, OwnerOnly, IsMember
  <1>4. IsFiniteSet({}) /\ Cardinality({}) = 0
    BY FS_EmptySet
  <1>5. IsFiniteSet({Owner}) /\ Cardinality({Owner}) = 1
    <2>1. {} \cup {Owner} = {Owner}
      OBVIOUS
    <2> QED BY <1>4, <2>1, FS_AddElement
  <1>6. seats >= 1
    <2>1. Cardinality({Owner}) <= Cardinality(Members)
      BY <1>1, <1>3, FS_Subset
    <2> QED BY <1>2, <1>5, <2>1
  <1>7. ASSUME NEW u \in Users, u # Owner, IsMember(u) PROVE seats >= 2
    <2>1. IsFiniteSet({Owner} \cup {u}) /\ Cardinality({Owner} \cup {u}) = 2
      BY <1>5, <1>7, FS_AddElement
    <2>2. {Owner} \cup {u} \subseteq Members
      BY <1>3, <1>7 DEF Members
    <2>3. Cardinality({Owner} \cup {u}) <= Cardinality(Members)
      BY <1>1, <2>2, FS_Subset
    <2> QED BY <1>2, <2>1, <2>3
  <1> QED BY <1>1, <1>2, <1>6, <1>7

\* Steps that change who is a member of the team nowhere.
LEMMA TableFrame ==
  ASSUME TableInv, UNCHANGED db
  PROVE  TableInv'
  <1>1. OwnerOnly' /\ RolesHaveMembers' /\ AuditExplainsRoles'
    BY DEF TableInv, OwnerOnly, RolesHaveMembers, AuditExplainsRoles, db, IsMember
  <1>2. SeatsCountMembers'
    BY DEF TableInv, SeatsCountMembers, db, IsMember
  <1> QED BY <1>1, <1>2 DEF TableInv

LEMMA PatchTables ==
  ASSUME TypeOK, TableInv, NEW u \in Users, NEW role \in {"member", "admin"}, PatchRole(u, role)
  PROVE  /\ team' \in [Users -> TeamRole \cup {"none"}] /\ TableInv'
         /\ \A v \in Users \ {u} : team'[v] = team[v]
         /\ \A v \in Users : IsMember(v)' <=> IsMember(v)
  <1>1. u # Owner /\ IsMember(u) /\ team' = [team EXCEPT ![u] = role]
    BY DEF PatchRole
  <1>2. UNCHANGED <<roles, seats, ledger>>
    BY DEF PatchRole
  <1>3. /\ team' \in [Users -> TeamRole \cup {"none"}]
        /\ \A v \in Users : team'[v] = IF v = u THEN role ELSE team[v]
    BY <1>1 DEF TypeOK, TeamRole
  <1>4. \A v \in Users : IsMember(v)' <=> IsMember(v)
    BY <1>1, <1>3 DEF IsMember
  <1>5. OwnerOnly'
    BY <1>1, <1>3 DEF TableInv, OwnerOnly
  <1>6. RolesHaveMembers' /\ AuditExplainsRoles'
    BY <1>2, <1>4 DEF TableInv, RolesHaveMembers, AuditExplainsRoles, TypeOK
  <1>7. SeatsCountMembers'
    <2>1. {v \in Users : IsMember(v)'} = {v \in Users : IsMember(v)}
      BY <1>4
    <2> QED BY <1>2, <2>1 DEF TableInv, SeatsCountMembers
  <1> QED BY <1>3, <1>4, <1>5, <1>6, <1>7 DEF TableInv

LEMMA DeleteTables ==
  ASSUME TypeOK, TableInv, NEW u \in Users, u # Owner, DeleteMembership(u)
  PROVE  /\ team' \in [Users -> TeamRole \cup {"none"}] /\ roles' \in SUBSET (Users \X Roles)
         /\ seats' \in Int /\ ledger' \in [Users \X Roles -> Int] /\ TableInv'
         /\ \A v \in Users \ {u} : team'[v] = team[v]
         /\ ~IsMember(u)' /\ \A v \in Users \ {u} : IsMember(v)' <=> IsMember(v)
         /\ \A p \in Users \X Roles : p[1] # u => (p \in roles' <=> p \in roles)
         /\ seats' = IF IsMember(u) THEN seats - 1 ELSE seats
  <1>1. CASE ~IsMember(u)
    <2>1. UNCHANGED <<team, roles, seats, ledger>> /\ UNCHANGED db
      BY <1>1 DEF DeleteMembership, db
    <2>2. TableInv'
      BY <2>1, TableFrame
    <2> QED BY <1>1, <2>1, <2>2 DEF TypeOK, IsMember
  <1>2. CASE IsMember(u)
    <2>1. /\ team' = [team EXCEPT ![u] = "none"]
          /\ roles' = roles \ RolesOf(u)
          /\ seats' = seats - 1
          /\ ledger' = [p \in DOMAIN ledger |->
                          IF p \in RolesOf(u) THEN ledger[p] - 1 ELSE ledger[p]]
      BY <1>2 DEF DeleteMembership
    <2>2. /\ team' \in [Users -> TeamRole \cup {"none"}]
          /\ \A v \in Users : team'[v] = IF v = u THEN "none" ELSE team[v]
      BY <2>1 DEF TypeOK
    <2>3. /\ ~IsMember(u)' /\ \A v \in Users \ {u} : IsMember(v)' <=> IsMember(v)
      BY <2>2 DEF IsMember
    <2>4. /\ roles' \in SUBSET (Users \X Roles)
          /\ \A p \in Users \X Roles : p \in roles' <=> p \in roles /\ p[1] # u
      BY <2>1 DEF TypeOK, RolesOf
    <2>5. /\ ledger' \in [Users \X Roles -> Int]
          /\ \A p \in Users \X Roles :
               ledger'[p] = IF p \in RolesOf(u) THEN ledger[p] - 1 ELSE ledger[p]
      BY <2>1 DEF TypeOK
    <2>6. OwnerOnly'
      BY <2>2, TeamAssumption DEF TableInv, OwnerOnly
    <2>7. RolesHaveMembers'
      <3>1. \A p \in Users \X Roles : p[1] \in Users
        OBVIOUS
      <3> QED BY <2>3, <2>4, <3>1 DEF TableInv, RolesHaveMembers
    <2>8. AuditExplainsRoles'
      BY <2>4, <2>5 DEF TableInv, AuditExplainsRoles, RolesOf
    <2>9. SeatsCountMembers'
      <3>1. {v \in Users : IsMember(v)'} = Members \ {u} /\ u \in Members
        BY <1>2, <2>3 DEF Members
      <3>2. Cardinality(Members \ {u}) = Cardinality(Members) - 1
        BY <3>1, SeatFacts, FS_RemoveElement
      <3> QED BY <2>1, <3>1, <3>2, SeatFacts DEF SeatsCountMembers
    <2>10. seats' \in Int /\ seats' = seats - 1
      BY <2>1 DEF TypeOK
    <2>11. TableInv'
      BY <2>6, <2>7, <2>8, <2>9 DEF TableInv
    <2> QED BY <1>2, <2>2, <2>3, <2>4, <2>5, <2>10, <2>11
  <1> QED BY <1>1, <1>2

LEMMA InsertTables ==
  ASSUME TypeOK, TableInv, NEW u \in Users, u # Owner, ~IsMember(u),
         NEW role \in {"member", "admin"}, NEW kept \in SUBSET (Users \X Roles),
         \A p \in kept : p[1] = u /\ p[2] \notin Derived, InsertMembership(u, role, kept)
  PROVE  /\ team' \in [Users -> TeamRole \cup {"none"}] /\ roles' \in SUBSET (Users \X Roles)
         /\ seats' \in Int /\ ledger' \in [Users \X Roles -> Int] /\ TableInv'
         /\ \A v \in Users \ {u} : team'[v] = team[v]
         /\ IsMember(u)' /\ \A v \in Users \ {u} : IsMember(v)' <=> IsMember(v)
         /\ \A p \in Users \X Roles : p[1] # u => (p \in roles' <=> p \in roles)
         /\ seats' = seats + 1
  <1>1. /\ team' = [team EXCEPT ![u] = role]
        /\ roles' = roles \cup kept
        /\ seats' = seats + 1
        /\ ledger' = [p \in DOMAIN ledger |-> IF p \in kept THEN ledger[p] + 1 ELSE ledger[p]]
    BY DEF InsertMembership
  <1>2. /\ team' \in [Users -> TeamRole \cup {"none"}]
        /\ \A v \in Users : team'[v] = IF v = u THEN role ELSE team[v]
    BY <1>1 DEF TypeOK, TeamRole
  <1>3. IsMember(u)' /\ \A v \in Users \ {u} : IsMember(v)' <=> IsMember(v)
    BY <1>2 DEF IsMember
  <1>4. roles' \in SUBSET (Users \X Roles)
    BY <1>1 DEF TypeOK
  <1>5. \A p \in Users \X Roles : p[1] # u => (p \in roles' <=> p \in roles)
    BY <1>1
  <1>6. /\ ledger' \in [Users \X Roles -> Int]
        /\ \A p \in Users \X Roles : ledger'[p] = IF p \in kept THEN ledger[p] + 1 ELSE ledger[p]
    BY <1>1 DEF TypeOK
  <1>7. OwnerOnly'
    BY <1>2, TeamAssumption DEF TableInv, OwnerOnly
  <1>8. \A p \in kept : p \notin roles
    BY DEF TableInv, RolesHaveMembers
  <1>9. RolesHaveMembers'
    <2>1. \A p \in Users \X Roles : p[1] \in Users
      OBVIOUS
    <2> QED BY <1>1, <1>3, <1>4, <2>1 DEF TableInv, RolesHaveMembers
  <1>10. AuditExplainsRoles'
    BY <1>1, <1>6, <1>8 DEF TableInv, AuditExplainsRoles
  <1>11. SeatsCountMembers'
    <2>1. {v \in Users : IsMember(v)'} = Members \cup {u} /\ u \notin Members
      BY <1>3 DEF Members
    <2>2. Cardinality(Members \cup {u}) = Cardinality(Members) + 1
      BY <2>1, SeatFacts, FS_AddElement
    <2> QED BY <1>1, <2>1, <2>2, SeatFacts DEF SeatsCountMembers
  <1>12. seats' \in Int
    BY <1>1 DEF TypeOK
  <1> QED BY <1>1, <1>2, <1>3, <1>4, <1>5, <1>6, <1>7, <1>9, <1>10, <1>11, <1>12 DEF TableInv

\* The target of a change that is committed is a member, and the change applies.
LEMMA CommitTables ==
  ASSUME TypeOK, CommandInv, TableInv, NEW c \in Commands, Commit(c)
  PROVE  TableInv'
  <1> DEFINE p == <<cmd[c].target, cmd[c].role>>
  <1>1. Allowed(c) /\ Applies(c) /\ HoldsRow(c, cmd[c].target)
    BY DEF Commit, CommandInv, Ready, Allowed, HoldsRow, InTransaction
  <1>2. p \in Users \X Roles /\ p[1] = cmd[c].target /\ p[2] = cmd[c].role
    BY DEF TypeOK, CommandType
  <1>3. IsMember(p[1]) /\ p[2] \notin Derived
    BY <1>1, <1>2 DEF CommandInv, Locked, Allowed, HoldsRow, IsMember, TeamRole
  <1>4. \/ /\ p \notin roles /\ roles' = roles \cup {p} /\ ledger' = [ledger EXCEPT ![p] = @ + 1]
        \/ /\ p \in roles /\ roles' = roles \ {p} /\ ledger' = [ledger EXCEPT ![p] = @ - 1]
    BY <1>1 DEF Commit, Applies, TypeOK, CommandType
  <1>5. UNCHANGED <<team, seats>>
    BY DEF Commit
  <1> HIDE DEF p
  <1>6. RolesHaveMembers'
    BY <1>3, <1>4, <1>5 DEF TableInv, RolesHaveMembers, IsMember
  <1>7. AuditExplainsRoles'
    <2>1. CASE p \notin roles /\ roles' = roles \cup {p} /\ ledger' = [ledger EXCEPT ![p] = @ + 1]
      BY <1>2, <2>1 DEF TableInv, AuditExplainsRoles, TypeOK
    <2>2. CASE p \in roles /\ roles' = roles \ {p} /\ ledger' = [ledger EXCEPT ![p] = @ - 1]
      BY <1>2, <2>2 DEF TableInv, AuditExplainsRoles, TypeOK
    <2> QED BY <1>4, <2>1, <2>2
  <1>8. OwnerOnly' /\ SeatsCountMembers'
    BY <1>5 DEF TableInv, OwnerOnly, SeatsCountMembers, IsMember
  <1> QED BY <1>6, <1>7, <1>8 DEF TableInv

-----------------------------------------------------------------------------
(* Additions and removals in progress.                                     *)

LEMMA AdvanceFacts ==
  ASSUME TypeOK, NEW s \in Sagas, NEW pc \in {"rest", "undo", "unbill"}, Advance(s, pc)
  PROVE  /\ saga' \in [Sagas -> SagaType]
         /\ \A z \in Sagas \ {s} : saga'[z] = saga[z]
         /\ saga'[s].pc = pc /\ saga'[s].kind = saga[s].kind /\ saga'[s].user = saga[s].user
         /\ saga'[s].kept = saga[s].kept
  <1> DEFINE new == [saga[s] EXCEPT !.pc = pc, !.quantity = 0]
  <1>1. saga[s] \in SagaType
    BY DEF TypeOK
  <1>2. /\ new \in SagaType /\ new.pc = pc /\ new.kind = saga[s].kind /\ new.user = saga[s].user
        /\ new.kept = saga[s].kept
    BY <1>1 DEF SagaType
  <1>3. saga' = [saga EXCEPT ![s] = new]
    BY DEF Advance, TypeOK
  <1> HIDE DEF new
  <1> QED BY <1>2, <1>3 DEF TypeOK

LEMMA BillReadFacts ==
  ASSUME TypeOK, NEW s \in Sagas, BillRead(s)
  PROVE  /\ saga' \in [Sagas -> SagaType]
         /\ \A z \in Sagas \ {s} : saga'[z] = saga[z]
         /\ saga'[s].pc = IF saga[s].pc = "bill" THEN "write" ELSE "unwrite"
         /\ saga'[s].kind = saga[s].kind /\ saga'[s].user = saga[s].user
         /\ saga'[s].kept = saga[s].kept /\ saga'[s].quantity = billed
  <1> DEFINE pc == IF saga[s].pc = "bill" THEN "write" ELSE "unwrite"
             new == [saga[s] EXCEPT !.pc = pc, !.quantity = billed]
  <1>1. saga[s] \in SagaType /\ billed \in Nat
    BY DEF TypeOK
  <1>2. /\ new \in SagaType /\ new.pc = pc /\ new.kind = saga[s].kind /\ new.user = saga[s].user
        /\ new.kept = saga[s].kept /\ new.quantity = billed
    BY <1>1 DEF SagaType
  <1>3. saga' = [saga EXCEPT ![s] = new]
    BY DEF BillRead, TypeOK
  <1> HIDE DEF new
  <1> QED BY <1>2, <1>3 DEF TypeOK

LEMMA EndFacts ==
  ASSUME TypeOK, NEW s \in Sagas, End(s)
  PROVE  /\ saga' \in [Sagas -> SagaType]
         /\ \A z \in Sagas \ {s} : saga'[z] = saga[z]
         /\ saga'[s].pc = "idle"
  <1>1. NoSaga.pc = "idle"
    BY DEF NoSaga
  <1> QED BY <1>1, RestingTypes DEF TypeOK, End

LEMMA QuantityFacts ==
  ASSUME TypeOK, NEW s \in Sagas
  PROVE  Quantity(s) \in Nat \ {0}
  <1>1. saga[s].quantity \in Nat
    BY DEF TypeOK, SagaType
  <1> QED BY <1>1 DEF Quantity

\* Steps that leave the sagas and who is a member alone.
LEMMA SagaFrame ==
  ASSUME TypeOK, SagaInv, BillingInv, UNCHANGED payment, seats' = seats,
         \A u \in Users : IsMember(u)' <=> IsMember(u)
  PROVE  SagaInv' /\ BillingInv'
  <1>1. UNCHANGED <<billed, saga, overlapped, slips>>
    BY DEF payment, history
  <1>2. SagaInv'
    BY <1>1 DEF SagaInv
  <1>3. \A s \in Sagas : saga[s].user \in Users
    BY DEF TypeOK, SagaType
  <1>4. \A s \in Sagas : Progress(s) => Progress(s)'
    BY <1>1, <1>3 DEF Progress, Before
  <1>5. BillingInv'
    BY <1>1, <1>4 DEF BillingInv
  <1> QED BY <1>2, <1>5

\* A step of one saga.
LEMMA SagaMoves ==
  ASSUME SagaInv, BillingInv, NEW s \in Sagas, saga[s].pc # "idle",
         \A z \in Sagas \ {s} : saga'[z] = saga[z],
         saga'[s].pc = "idle" \/ (saga'[s].user = saga[s].user /\ saga'[s].kept = saga[s].kept),
         ~overlapped' => /\ ~overlapped
                         /\ saga'[s].pc # "idle" => Progress(s)'
                         /\ saga'[s].pc = "idle" => Near(billed', seats', slips')
  PROVE  SagaInv' /\ BillingInv'
  <1>1. SagaInv'
    BY DEF SagaInv
  <1>2. BillingInv'
    <2> SUFFICES ASSUME ~overlapped'
                 PROVE  /\ \A y, z \in Sagas : (saga'[y].pc # "idle" /\ saga'[z].pc # "idle") => y = z
                        /\ \A z \in Sagas : saga'[z].pc # "idle" => Progress(z)'
                        /\ (\A z \in Sagas : saga'[z].pc = "idle") => Near(billed', seats', slips')
      BY DEF BillingInv
    <2>1. \A z \in Sagas \ {s} : saga'[z].pc = "idle"
      BY DEF BillingInv
    <2> QED BY <2>1
  <1> QED BY <1>1, <1>2

LEMMA BeginFacts ==
  ASSUME TypeOK, SagaInv, BillingInv, NEW s \in Sagas, NEW u \in Users, u # Owner,
         NEW kind \in {"remove", "accept", "auto"}, NEW role \in {"member", "admin"},
         NEW kept \in SUBSET (Users \X Roles),
         \A p \in kept : p[1] = u /\ p[2] \notin Derived,
         BeginSaga(s, kind, u, role, kept),
         IsMember(u)' <=> kind # "remove",
         seats' = IF kind = "remove" THEN seats - 1 ELSE seats + 1
  PROVE  /\ saga' \in [Sagas -> SagaType] /\ requests' \in Nat
         /\ overlapped' \in BOOLEAN /\ slips' \in Nat /\ SagaInv' /\ BillingInv'
  <1> DEFINE new == [NoSaga EXCEPT !.pc = "bill", !.kind = kind, !.user = u,
                                   !.role = role, !.kept = kept]
             old(z) == [saga[z] EXCEPT !.stale = @ \/ (kind # "remove" /\ saga[z].pc # "idle"
                                                       /\ saga[z].user = u)]
  <1>1. saga' = [z \in Sagas |-> IF z = s THEN new ELSE old(z)]
    BY DEF BeginSaga
  <1>2. /\ new \in SagaType /\ new.pc = "bill" /\ new.kind = kind /\ new.user = u
        /\ new.kept = kept
    BY RestingTypes DEF SagaType, NoSaga
  <1>3. ASSUME NEW z \in Sagas
        PROVE  /\ old(z) \in SagaType /\ old(z).pc = saga[z].pc /\ old(z).user = saga[z].user
               /\ old(z).kept = saga[z].kept
    <2>1. saga[z] \in SagaType
      BY DEF TypeOK
    <2> QED BY <2>1 DEF SagaType
  <1> HIDE DEF new, old
  <1>4. /\ saga' \in [Sagas -> SagaType] /\ saga'[s] = new
        /\ \A z \in Sagas \ {s} : saga'[z] = old(z)
    BY <1>1, <1>2, <1>3
  <1>5. SagaInv'
    BY <1>2, <1>3, <1>4 DEF SagaInv
  <1>6. requests' \in Nat /\ overlapped' \in BOOLEAN /\ slips' \in Nat
    BY DEF BeginSaga, TypeOK
  <1>7. BillingInv'
    <2> SUFFICES ASSUME ~overlapped'
                 PROVE  /\ \A y, z \in Sagas : (saga'[y].pc # "idle" /\ saga'[z].pc # "idle") => y = z
                        /\ \A z \in Sagas : saga'[z].pc # "idle" => Progress(z)'
                        /\ (\A z \in Sagas : saga'[z].pc = "idle") => Near(billed', seats', slips')
      BY DEF BillingInv
    <2>1. ~overlapped /\ \A z \in Sagas : saga[z].pc = "idle"
      BY DEF BeginSaga
    <2>2. Near(billed, seats, slips) /\ billed' = billed /\ slips' = slips
      BY <2>1 DEF BillingInv, BeginSaga
    <2>3. \A z \in Sagas \ {s} : saga'[z].pc = "idle"
      BY <1>3, <1>4, <2>1
    <2>4. Near(billed', Before(s)', slips')
      <3>1. seats \in Int /\ Before(s)' = seats
        BY <1>2, <1>4 DEF TypeOK, Before
      <3> QED BY <2>2, <3>1
    <2>5. Progress(s)'
      BY <1>2, <1>4, <2>4 DEF Progress
    <2> QED BY <1>2, <1>4, <2>3, <2>5
  <1> QED BY <1>4, <1>5, <1>6, <1>7

-----------------------------------------------------------------------------
(* The steps, together.                                                    *)

\* Nobody has locked a membership that does not exist.
LEMMA NobodyIsFree ==
  ASSUME TypeOK, CommandInv, NEW u \in Users, ~IsMember(u)
  PROVE  RowFree(u)
  BY DEF CommandInv, Locked, RowFree, HoldsRow, IsMember, TeamRole

LEMMA ChangePreserves ==
  ASSUME IInv, NEW c \in Commands, ChangeStep(c)
  PROVE  IInv'
  <1>0. TypeOK /\ CommandInv /\ TableInv /\ SagaInv /\ BillingInv
    BY DEF IInv
  <1>1. TypeOK' /\ CommandInv'
    BY <1>0, ChangeTypes, ChangeCommands
  <1>2. UNCHANGED payment /\ UNCHANGED <<team, seats>>
    BY DEF ChangeStep, LockRow, Decide, Commit, Deny, ChangeFails, db
  <1>3. TableInv'
    <2>1. CASE Commit(c)
      BY <1>0, <2>1, CommitTables
    <2>2. CASE ~Commit(c)
      <3>1. UNCHANGED db
        BY <2>2 DEF ChangeStep, LockRow, Decide, Deny, ChangeFails
      <3> QED BY <1>0, <3>1, TableFrame
    <2> QED BY <2>1, <2>2
  <1>4. \A u \in Users : IsMember(u)' <=> IsMember(u)
    BY <1>2 DEF IsMember
  <1>5. SagaInv' /\ BillingInv'
    BY <1>0, <1>2, <1>4, SagaFrame
  <1> QED BY <1>1, <1>3, <1>5 DEF IInv

LEMMA ClaimPreserves ==
  ASSUME IInv, NEW c \in Commands, NEW kind \in {"grant", "revoke"}, NEW actor \in Users,
         NEW target \in Users, NEW role \in Roles, NEW r \in Receipts,
         Claim(c, kind, actor, target, role, r)
  PROVE  IInv'
  <1>0. TypeOK /\ CommandInv /\ TableInv /\ SagaInv /\ BillingInv
    BY DEF IInv
  <1>1. CommandInv' /\ cmd' \in [Commands -> CommandType]
    BY <1>0, ClaimCommands, ClaimFacts
  <1>2. UNCHANGED <<db, invites, receipt, payment>> /\ requests' = requests + 1
    BY DEF Claim
  <1>3. TypeOK'
    BY <1>0, <1>1, <1>2 DEF TypeOK, db, payment, history
  <1>4. TableInv'
    BY <1>0, <1>2, TableFrame
  <1>5. SagaInv' /\ BillingInv'
    <2>1. seats' = seats /\ \A u \in Users : IsMember(u)' <=> IsMember(u)
      BY <1>2 DEF db, IsMember
    <2> QED BY <1>0, <1>2, <2>1, SagaFrame
  <1> QED BY <1>1, <1>3, <1>4, <1>5 DEF IInv

LEMMA ExpirePreserves ==
  ASSUME IInv, NEW r \in Receipts, Expire(r)
  PROVE  IInv'
  <1>0. TypeOK /\ CommandInv /\ TableInv /\ SagaInv /\ BillingInv
    BY DEF IInv
  <1>1. UNCHANGED <<db, invites, cmd, payment, requests>>
    BY DEF Expire
  <1>2. /\ receipt' \in [Receipts -> {"usable", "expired", "spent"}]
        /\ \A q \in Receipts : receipt'[q] = "spent" <=> receipt[q] = "spent"
    BY <1>0 DEF Expire, TypeOK
  <1>3. TypeOK'
    BY <1>0, <1>1, <1>2 DEF TypeOK, db, payment, history
  <1>4. CommandInv'
    <2>1. UNCHANGED <<cmd, team, roles>>
      BY <1>1 DEF db
    <2> QED BY <1>0, <1>2, <2>1, CommandFrame
  <1>5. TableInv'
    BY <1>0, <1>1, TableFrame
  <1>6. SagaInv' /\ BillingInv'
    <2>1. seats' = seats /\ \A u \in Users : IsMember(u)' <=> IsMember(u)
      BY <1>1 DEF db, IsMember
    <2> QED BY <1>0, <1>1, <2>1, SagaFrame
  <1> QED BY <1>3, <1>4, <1>5, <1>6 DEF IInv

LEMMA PatchPreserves ==
  ASSUME IInv, NEW u \in Users, NEW role \in {"member", "admin"}, PatchRole(u, role)
  PROVE  IInv'
  <1>0. TypeOK /\ CommandInv /\ TableInv /\ SagaInv /\ BillingInv
    BY DEF IInv
  <1>1. /\ team' \in [Users -> TeamRole \cup {"none"}] /\ TableInv'
        /\ \A v \in Users \ {u} : team'[v] = team[v]
        /\ \A v \in Users : IsMember(v)' <=> IsMember(v)
    BY <1>0, PatchTables
  <1>2. UNCHANGED <<roles, seats, ledger, invites, receipt, cmd, payment, requests>> /\ RowFree(u)
    BY DEF PatchRole
  <1>3. TypeOK'
    BY <1>0, <1>1, <1>2 DEF TypeOK, payment, history
  <1>4. CommandInv'
    BY <1>0, <1>1, <1>2, TouchKeepsCommands
  <1>5. SagaInv' /\ BillingInv'
    BY <1>0, <1>1, <1>2, SagaFrame
  <1> QED BY <1>1, <1>3, <1>4, <1>5 DEF IInv

LEMMA RequestPreserves ==
  ASSUME IInv, NEW s \in Sagas, NEW u \in Users,
         RemoveUser(s, u) \/ AcceptInvite(s, u) \/ AutoJoin(s, u)
  PROVE  IInv'
  <1>0. TypeOK /\ CommandInv /\ TableInv /\ SagaInv /\ BillingInv
    BY DEF IInv
  <1>a. team[Owner] = "owner" /\ IsMember(Owner)
    BY <1>0, TeamAssumption DEF TableInv, OwnerOnly, IsMember
  <1>1. CASE RemoveUser(s, u)
    <2>1. /\ u # Owner /\ IsMember(u) /\ RowFree(u) /\ DeleteMembership(u)
          /\ BeginSaga(s, "remove", u, team[u], RolesOf(u)) /\ invites' = invites
      BY <1>1 DEF RemoveUser
    <2>2. team[u] \in {"member", "admin"}
      BY <1>0, <2>1 DEF TypeOK, TeamRole, TableInv, OwnerOnly, IsMember
    <2>3. RolesOf(u) \in SUBSET (Users \X Roles) /\ \A p \in RolesOf(u) : p[1] = u /\ p[2] \notin Derived
      BY <1>0 DEF RolesOf, TypeOK, TableInv, RolesHaveMembers
    <2>4. /\ team' \in [Users -> TeamRole \cup {"none"}] /\ roles' \in SUBSET (Users \X Roles)
          /\ seats' \in Int /\ ledger' \in [Users \X Roles -> Int] /\ TableInv'
          /\ \A v \in Users \ {u} : team'[v] = team[v]
          /\ ~IsMember(u)'
          /\ \A p \in Users \X Roles : p[1] # u => (p \in roles' <=> p \in roles)
          /\ seats' = seats - 1
      BY <1>0, <2>1, DeleteTables
    <2>5. /\ saga' \in [Sagas -> SagaType] /\ requests' \in Nat
          /\ overlapped' \in BOOLEAN /\ slips' \in Nat /\ SagaInv' /\ BillingInv'
      <3>1. IsMember(u)' <=> "remove" # "remove"
        BY <2>4
      <3> QED BY <1>0, <2>1, <2>2, <2>3, <2>4, <3>1, BeginFacts
    <2>6. UNCHANGED <<receipt, cmd, billed>>
      BY <2>1 DEF BeginSaga
    <2>7. TypeOK'
      BY <1>0, <2>1, <2>4, <2>5, <2>6 DEF TypeOK
    <2>8. CommandInv'
      BY <1>0, <2>1, <2>4, <2>6, TouchKeepsCommands
    <2> QED BY <2>4, <2>5, <2>7, <2>8 DEF IInv
  <1>2. ASSUME NEW kind \in {"accept", "auto"}, NEW role \in {"member", "admin"}, ~IsMember(u),
               InsertMembership(u, role, {}), BeginSaga(s, kind, u, role, {}),
               invites' = [invites EXCEPT ![u] = "none"]
        PROVE  IInv'
    <2>1. u # Owner /\ RowFree(u)
      BY <1>0, <1>2, <1>a, NobodyIsFree
    <2>2. {} \in SUBSET (Users \X Roles) /\ \A p \in {} : p[1] = u /\ p[2] \notin Derived
      OBVIOUS
    <2>3. /\ team' \in [Users -> TeamRole \cup {"none"}] /\ roles' \in SUBSET (Users \X Roles)
          /\ seats' \in Int /\ ledger' \in [Users \X Roles -> Int] /\ TableInv'
          /\ \A v \in Users \ {u} : team'[v] = team[v]
          /\ IsMember(u)'
          /\ \A p \in Users \X Roles : p[1] # u => (p \in roles' <=> p \in roles)
          /\ seats' = seats + 1
      BY <1>0, <1>2, <2>1, <2>2, InsertTables
    <2>4. /\ saga' \in [Sagas -> SagaType] /\ requests' \in Nat
          /\ overlapped' \in BOOLEAN /\ slips' \in Nat /\ SagaInv' /\ BillingInv'
      <3>1. (IsMember(u)' <=> kind # "remove") /\ kind # "remove"
        BY <2>3
      <3> QED BY <1>0, <1>2, <2>1, <2>2, <2>3, <3>1, BeginFacts
    <2>5. UNCHANGED <<receipt, cmd, billed>>
      BY <1>2 DEF BeginSaga
    <2>6. invites' \in [Users -> {"none", "member", "admin"}]
      BY <1>0, <1>2 DEF TypeOK
    <2>7. TypeOK'
      BY <1>0, <2>3, <2>4, <2>5, <2>6 DEF TypeOK
    <2>8. CommandInv'
      BY <1>0, <2>1, <2>3, <2>5, TouchKeepsCommands
    <2> QED BY <2>3, <2>4, <2>7, <2>8 DEF IInv
  <1>3. CASE AcceptInvite(s, u)
    <2>1. invites[u] \in {"member", "admin"}
      BY <1>0, <1>3 DEF AcceptInvite, TypeOK
    <2> QED BY <1>2, <1>3, <2>1 DEF AcceptInvite
  <1>4. CASE AutoJoin(s, u)
    BY <1>2, <1>4 DEF AutoJoin
  <1> QED BY <1>1, <1>3, <1>4

\* A step of a saga that touches none of the tables.
LEMMA OutsideTables ==
  ASSUME IInv, UNCHANGED <<db, invites, receipt, cmd, requests>>,
         saga' \in [Sagas -> SagaType], billed' \in Nat \ {0},
         overlapped' \in BOOLEAN, slips' \in Nat, SagaInv', BillingInv'
  PROVE  IInv'
  <1>0. TypeOK /\ CommandInv /\ TableInv
    BY DEF IInv
  <1>1. TypeOK'
    BY <1>0 DEF TypeOK, db
  <1>2. CommandInv'
    <2>1. UNCHANGED <<cmd, team, roles>> /\ \A r \in Receipts : receipt'[r] = "spent" <=> receipt[r] = "spent"
      BY DEF db
    <2> QED BY <1>0, <2>1, CommandFrame
  <1>3. TableInv'
    BY <1>0, TableFrame
  <1> QED BY <1>1, <1>2, <1>3 DEF IInv

\* A decrement that stops at the lower bound brings the bill nearer, since the
\* owner has a seat, and so has the user whose addition is undone.
LEMMA QuantityIsNear ==
  ASSUME IInv, ~overlapped, NEW s \in Sagas
  PROVE  /\ saga[s].pc = "write" => Near(Quantity(s), seats, slips)
         /\ saga[s].pc = "unwrite" => Near(Quantity(s), Before(s), slips)
  <1>1. seats \in Nat /\ seats >= 1 /\ \A u \in Users : (u # Owner /\ IsMember(u)) => seats >= 2
    BY SeatFacts DEF IInv
  <1>2. /\ saga[s].user \in Users /\ saga[s].quantity \in Nat
        /\ slips \in Nat /\ billed \in Nat \ {0}
    BY DEF IInv, TypeOK, SagaType
  <1>3. ASSUME saga[s].pc = "write" PROVE Near(Quantity(s), seats, slips)
    <2>1. Progress(s)
      BY <1>3 DEF IInv, BillingInv
    <2>2. saga[s].quantity = billed /\ Near(billed, Before(s), slips)
      BY <1>3, <2>1 DEF Progress
    <2> QED BY <1>1, <1>2, <1>3, <2>2 DEF Quantity, Near, Before
  <1>4. ASSUME saga[s].pc = "unwrite" PROVE Near(Quantity(s), Before(s), slips)
    <2>1. Progress(s) /\ saga[s].user # Owner
      BY <1>4 DEF IInv, BillingInv, SagaInv
    <2>2. /\ saga[s].quantity = billed /\ Near(billed, seats, slips)
          /\ saga[s].kind # "remove" => IsMember(saga[s].user)
      BY <1>4, <2>1 DEF Progress
    <2>3. CASE saga[s].kind = "remove"
      BY <1>1, <1>2, <1>4, <2>2, <2>3 DEF Quantity, Near, Before
    <2>4. CASE saga[s].kind # "remove"
      <3>1. seats >= 2
        BY <1>1, <1>2, <2>1, <2>2, <2>4
      <3> QED BY <1>1, <1>2, <1>4, <2>2, <2>4, <3>1 DEF Quantity, Near, Before
    <2> QED BY <2>3, <2>4
  <1> QED BY <1>3, <1>4

\* A slip makes room for the seat that was changed on one side only.
LEMMA SlipMakesRoom ==
  ASSUME NEW b \in Nat, NEW n \in Int, NEW m \in {n - 1, n + 1}, NEW k \in Nat,
         Near(b, n, k)
  PROVE  Near(b, m, k + 1)
  BY DEF Near

LEMMA BillingPreserves ==
  ASSUME IInv, NEW s \in Sagas,
         \/ BillRead(s) \/ BillWrite(s) \/ BillAnswerLost(s) \/ BillFails(s)
         \/ RestSucceeds(s) \/ RestFails(s) \/ SagaLost(s)
  PROVE  IInv'
  <1>0. TypeOK /\ SagaInv /\ BillingInv
    BY DEF IInv
  <1>a. /\ UNCHANGED <<db, invites, receipt, cmd, requests>> /\ UNCHANGED <<team, seats>>
        /\ saga[s].pc # "idle" /\ overlapped' = overlapped
    BY DEF BillRead, BillWrite, BillAnswerLost, BillFails, RestSucceeds, RestFails, SagaLost,
           db, history
  <1>b. /\ billed \in Nat \ {0} /\ overlapped \in BOOLEAN /\ slips \in Nat
        /\ Quantity(s) \in Nat \ {0} /\ seats \in Int /\ Before(s) \in Int
        /\ seats \in {Before(s) - 1, Before(s) + 1} /\ Before(s) \in {seats - 1, seats + 1}
    BY <1>0, QuantityFacts DEF TypeOK, Before
  <1>c. ~overlapped => Progress(s)
    BY <1>0, <1>a DEF BillingInv
  <1>d. ~overlapped => /\ saga[s].pc = "write" => Near(Quantity(s), seats, slips)
                       /\ saga[s].pc = "unwrite" => Near(Quantity(s), Before(s), slips)
    BY QuantityIsNear
  \* What a step that goes on owes.
  <1>e. ASSUME saga' \in [Sagas -> SagaType], \A z \in Sagas \ {s} : saga'[z] = saga[z],
               saga'[s].kind = saga[s].kind, saga'[s].user = saga[s].user,
               saga'[s].kept = saga[s].kept, saga'[s].pc # "idle",
               billed' \in Nat \ {0}, slips' \in Nat,
               ~overlapped =>
                 /\ saga'[s].pc \in {"bill", "write", "undo"} => Near(billed', Before(s), slips')
                 /\ saga'[s].pc \in {"rest", "unbill", "unwrite"} => Near(billed', seats, slips')
                 /\ saga'[s].pc \in {"write", "unwrite"} => saga'[s].quantity = billed'
        PROVE  IInv'
    <2>1. Before(s)' = Before(s) /\ (IsMember(saga[s].user)' <=> IsMember(saga[s].user))
      BY <1>a, <1>e DEF Before, IsMember
    <2>2. ~overlapped => Progress(s)'
      BY <1>a, <1>c, <1>e, <2>1 DEF Progress, IsMember
    <2>3. SagaInv' /\ BillingInv'
      BY <1>0, <1>a, <1>e, <2>2, SagaMoves
    <2> QED BY <1>a, <1>b, <1>e, <2>3, OutsideTables
  <1>1. CASE BillRead(s)
    <2>1. /\ saga' \in [Sagas -> SagaType]
          /\ \A z \in Sagas \ {s} : saga'[z] = saga[z]
          /\ saga'[s].pc = IF saga[s].pc = "bill" THEN "write" ELSE "unwrite"
          /\ saga'[s].kind = saga[s].kind /\ saga'[s].user = saga[s].user
          /\ saga'[s].kept = saga[s].kept /\ saga'[s].quantity = billed
      BY <1>0, <1>1, BillReadFacts
    <2>2. UNCHANGED <<billed, slips>> /\ saga[s].pc \in {"bill", "unbill"}
      BY <1>1 DEF BillRead, history
    <2>3. ~overlapped => /\ saga[s].pc = "bill" => Near(billed, Before(s), slips)
                         /\ saga[s].pc = "unbill" => Near(billed, seats, slips)
      BY <1>c DEF Progress
    <2> QED BY <1>b, <1>e, <2>1, <2>2, <2>3
  <1>2. CASE BillWrite(s)
    <2>1. /\ billed' = Quantity(s) /\ saga[s].pc \in {"write", "unwrite"} /\ slips' = slips
          /\ Advance(s, IF saga[s].pc = "write" THEN "rest" ELSE "undo")
      BY <1>2 DEF BillWrite, history
    <2>2. PICK pc \in {"rest", "undo"} : Advance(s, pc) /\ (pc = "rest" <=> saga[s].pc = "write")
      BY <2>1
    <2>3. /\ saga' \in [Sagas -> SagaType]
          /\ \A z \in Sagas \ {s} : saga'[z] = saga[z]
          /\ saga'[s].pc = pc /\ saga'[s].kind = saga[s].kind /\ saga'[s].user = saga[s].user
          /\ saga'[s].kept = saga[s].kept
      BY <1>0, <2>2, AdvanceFacts
    <2> QED BY <1>b, <1>d, <1>e, <2>1, <2>2, <2>3
  <1>3. CASE BillAnswerLost(s)
    <2>1. /\ billed' = Quantity(s) /\ saga[s].pc \in {"write", "unwrite"} /\ Advance(s, "undo")
          /\ IF saga[s].pc = "write" THEN Slip ELSE slips' = slips
      BY <1>3 DEF BillAnswerLost
    <2>2. /\ saga' \in [Sagas -> SagaType]
          /\ \A z \in Sagas \ {s} : saga'[z] = saga[z]
          /\ saga'[s].pc = "undo" /\ saga'[s].kind = saga[s].kind /\ saga'[s].user = saga[s].user
          /\ saga'[s].kept = saga[s].kept
      BY <1>0, <2>1, AdvanceFacts
    <2>3. slips' \in Nat /\ (~overlapped => Near(billed', Before(s), slips'))
      <3>1. CASE saga[s].pc = "unwrite"
        BY <1>b, <1>d, <2>1, <3>1
      <3>2. CASE saga[s].pc = "write"
        <4>1. slips' \in Nat /\ (~overlapped => slips' = slips + 1)
          BY <1>b, <2>1, <3>2 DEF Slip
        <4>2. ~overlapped => Near(Quantity(s), Before(s), slips + 1)
          BY <1>b, <1>d, <3>2, SlipMakesRoom
        <4> QED BY <2>1, <4>1, <4>2
      <3> QED BY <2>1, <3>1, <3>2
    <2> QED BY <1>b, <1>e, <2>1, <2>2, <2>3
  <1>4. CASE BillFails(s)
    <2>1. /\ billed' = billed /\ saga[s].pc \in {"bill", "write", "unbill", "unwrite"}
          /\ Advance(s, "undo")
          /\ IF saga[s].pc \in {"unbill", "unwrite"} THEN Slip ELSE slips' = slips
      BY <1>4 DEF BillFails
    <2>2. /\ saga' \in [Sagas -> SagaType]
          /\ \A z \in Sagas \ {s} : saga'[z] = saga[z]
          /\ saga'[s].pc = "undo" /\ saga'[s].kind = saga[s].kind /\ saga'[s].user = saga[s].user
          /\ saga'[s].kept = saga[s].kept
      BY <1>0, <2>1, AdvanceFacts
    <2>3. slips' \in Nat /\ (~overlapped => Near(billed, Before(s), slips'))
      <3>1. CASE saga[s].pc \in {"bill", "write"}
        BY <1>b, <1>c, <2>1, <3>1 DEF Progress
      <3>2. CASE saga[s].pc \in {"unbill", "unwrite"}
        <4>1. slips' \in Nat /\ (~overlapped => slips' = slips + 1)
          BY <1>b, <2>1, <3>2 DEF Slip
        <4>2. ~overlapped => Near(billed, seats, slips)
          BY <1>c, <3>2 DEF Progress
        <4>3. ~overlapped => Near(billed, Before(s), slips + 1)
          BY <1>b, <4>2, SlipMakesRoom
        <4> QED BY <4>1, <4>3
      <3> QED BY <2>1, <3>1, <3>2
    <2> QED BY <1>b, <1>e, <2>1, <2>2, <2>3
  <1>5. CASE RestFails(s)
    <2>1. /\ billed' = billed /\ saga[s].pc = "rest" /\ Advance(s, "unbill") /\ slips' = slips
      BY <1>5 DEF RestFails, history
    <2>2. /\ saga' \in [Sagas -> SagaType]
          /\ \A z \in Sagas \ {s} : saga'[z] = saga[z]
          /\ saga'[s].pc = "unbill" /\ saga'[s].kind = saga[s].kind /\ saga'[s].user = saga[s].user
          /\ saga'[s].kept = saga[s].kept
      BY <1>0, <2>1, AdvanceFacts
    <2>3. ~overlapped => Near(billed, seats, slips)
      BY <1>c, <2>1 DEF Progress
    <2> QED BY <1>b, <1>e, <2>1, <2>2, <2>3
  <1>6. CASE RestSucceeds(s) \/ SagaLost(s)
    <2>1. /\ billed' = billed /\ End(s)
          /\ IF saga[s].pc \in {"bill", "write", "undo"} THEN Slip ELSE slips' = slips
      BY <1>6 DEF RestSucceeds, SagaLost, history
    <2>2. /\ saga' \in [Sagas -> SagaType]
          /\ \A z \in Sagas \ {s} : saga'[z] = saga[z]
          /\ saga'[s].pc = "idle"
      BY <1>0, <2>1, EndFacts
    <2>3. slips' \in Nat /\ (~overlapped => Near(billed, seats, slips'))
      <3>1. CASE saga[s].pc \in {"bill", "write", "undo"}
        <4>1. slips' \in Nat /\ (~overlapped => slips' = slips + 1)
          BY <1>b, <2>1, <3>1 DEF Slip
        <4>2. ~overlapped => Near(billed, Before(s), slips)
          BY <1>c, <3>1 DEF Progress
        <4>3. ~overlapped => Near(billed, seats, slips + 1)
          BY <1>b, <4>2, SlipMakesRoom
        <4> QED BY <4>1, <4>3
      <3>2. CASE saga[s].pc \notin {"bill", "write", "undo"}
        <4>1. saga[s].pc \in {"rest", "unbill", "unwrite"}
          BY <1>0, <1>a, <3>2 DEF TypeOK, SagaType
        <4> QED BY <1>b, <1>c, <2>1, <3>2, <4>1 DEF Progress
      <3> QED BY <3>1, <3>2
    <2>4. SagaInv' /\ BillingInv'
      BY <1>0, <1>a, <2>1, <2>2, <2>3, SagaMoves
    <2> QED BY <1>a, <1>b, <2>1, <2>2, <2>3, <2>4, OutsideTables
  <1> QED BY <1>1, <1>2, <1>3, <1>4, <1>5, <1>6

LEMMA UndoPreserves ==
  ASSUME IInv, NEW s \in Sagas, UndoRemoval(s) \/ UndoAddition(s)
  PROVE  IInv'
  <1>0. TypeOK /\ CommandInv /\ TableInv /\ SagaInv /\ BillingInv
    BY DEF IInv
  <1>u. PICK u \in Users : u = saga[s].user
    BY <1>0 DEF TypeOK, SagaType
  <1>1. /\ saga[s].pc = "undo" /\ RowFree(u) /\ End(s)
        /\ UNCHANGED <<receipt, cmd, billed, overlapped, slips, requests>>
    BY <1>u DEF UndoRemoval, UndoAddition, history
  <1>2. u \in Users /\ saga[s].role \in {"member", "admin"} /\ saga[s].kept \in SUBSET (Users \X Roles)
    BY <1>0 DEF TypeOK, SagaType
  <1>3. u # Owner /\ \A p \in saga[s].kept : p[1] = u /\ p[2] \notin Derived
    BY <1>0, <1>1, <1>u DEF SagaInv
  <1>4. ~overlapped => Progress(s)
    BY <1>0, <1>1 DEF BillingInv
  <1>5. /\ team' \in [Users -> TeamRole \cup {"none"}] /\ roles' \in SUBSET (Users \X Roles)
        /\ seats' \in Int /\ ledger' \in [Users \X Roles -> Int] /\ TableInv'
        /\ \A v \in Users \ {u} : team'[v] = team[v]
        /\ \A p \in Users \X Roles : p[1] # u => (p \in roles' <=> p \in roles)
        /\ ~overlapped => seats' = Before(s)
        /\ invites' \in [Users -> {"none", "member", "admin"}]
    <2>1. CASE UndoRemoval(s)
      <3>0. invites' = invites /\ saga[s].kind = "remove"
        BY <2>1 DEF UndoRemoval
      <3>1. CASE IsMember(u)
        <4>1. UNCHANGED db /\ UNCHANGED <<team, roles, seats, ledger>>
          BY <1>u, <2>1, <3>1 DEF UndoRemoval, db
        <4>2. TableInv'
          BY <1>0, <4>1, TableFrame
        <4>3. overlapped
          BY <1>u, <1>4, <3>0, <3>1 DEF Progress
        <4> QED BY <1>0, <3>0, <4>1, <4>2, <4>3 DEF TypeOK
      <3>2. CASE ~IsMember(u)
        <4>1. InsertMembership(u, saga[s].role, saga[s].kept)
          BY <1>u, <2>1, <3>2 DEF UndoRemoval
        <4>2. /\ team' \in [Users -> TeamRole \cup {"none"}] /\ roles' \in SUBSET (Users \X Roles)
              /\ seats' \in Int /\ ledger' \in [Users \X Roles -> Int] /\ TableInv'
              /\ \A v \in Users \ {u} : team'[v] = team[v]
              /\ \A p \in Users \X Roles : p[1] # u => (p \in roles' <=> p \in roles)
              /\ seats' = seats + 1
          <5>1. PICK role \in {"member", "admin"}, kept \in SUBSET (Users \X Roles) :
                  role = saga[s].role /\ kept = saga[s].kept
            BY <1>2
          <5>2. InsertMembership(u, role, kept) /\ \A p \in kept : p[1] = u /\ p[2] \notin Derived
            BY <1>3, <4>1, <5>1 DEF InsertMembership
          <5>3. TypeOK /\ TableInv /\ u # Owner
            BY <1>0, <1>3
          <5> QED BY <3>2, <5>2, <5>3, InsertTables
        <4>3. Before(s) = seats + 1
          BY <3>0 DEF Before
        <4> QED BY <1>0, <3>0, <4>2, <4>3 DEF TypeOK
      <3> QED BY <3>1, <3>2
    <2>2. CASE UndoAddition(s)
      <3>1. /\ DeleteMembership(u) /\ saga[s].kind # "remove"
            /\ invites' = IF saga[s].kind = "accept" /\ invites[u] = "none"
                          THEN [invites EXCEPT ![u] = saga[s].role] ELSE invites
        BY <1>u, <2>2 DEF UndoAddition
      <3>2. /\ team' \in [Users -> TeamRole \cup {"none"}] /\ roles' \in SUBSET (Users \X Roles)
            /\ seats' \in Int /\ ledger' \in [Users \X Roles -> Int] /\ TableInv'
            /\ \A v \in Users \ {u} : team'[v] = team[v]
            /\ \A p \in Users \X Roles : p[1] # u => (p \in roles' <=> p \in roles)
            /\ seats' = IF IsMember(u) THEN seats - 1 ELSE seats
        BY <1>0, <1>2, <1>3, <3>1, DeleteTables
      <3>3. Before(s) = seats - 1 /\ (~overlapped => IsMember(u))
        BY <1>u, <1>4, <3>1 DEF Progress, Before
      <3>4. invites' \in [Users -> {"none", "member", "admin"}]
        BY <1>0, <1>2, <3>1 DEF TypeOK
      <3> QED BY <3>2, <3>3, <3>4
    <2> QED BY <2>1, <2>2
  <1>6. /\ saga' \in [Sagas -> SagaType]
        /\ \A z \in Sagas \ {s} : saga'[z] = saga[z]
        /\ saga'[s].pc = "idle"
    BY <1>0, <1>1, EndFacts
  <1>7. TypeOK'
    BY <1>0, <1>1, <1>5, <1>6 DEF TypeOK
  <1>8. CommandInv'
    BY <1>0, <1>1, <1>2, <1>5, TouchKeepsCommands
  <1>9. SagaInv' /\ BillingInv'
    <2>1. ~overlapped' => ~overlapped /\ Near(billed', seats', slips')
      BY <1>1, <1>4, <1>5 DEF Progress
    <2> QED BY <1>0, <1>1, <1>6, <2>1, SagaMoves
  <1> QED BY <1>5, <1>7, <1>8, <1>9 DEF IInv

-----------------------------------------------------------------------------
LEMMA InitIInv == Init => IInv
  <1> SUFFICES ASSUME Init PROVE IInv
    OBVIOUS
  <1>1. /\ \A c \in Commands : cmd[c] = NoCommand
        /\ \A s \in Sagas : saga[s] = NoSaga
        /\ NoCommand.pc = "idle" /\ NoCommand.log = <<>> /\ NoCommand.read = Unread
        /\ NoSaga.pc = "idle"
    BY DEF Init, NoCommand, NoSaga
  <1>2. \A c \in Commands : \A u \in Users : cmd[c].read[u] = "unread"
    BY <1>1 DEF Unread
  <1>3. RolesHaveMembers
    BY DEF Init, RolesHaveMembers
  <1>4. OwnerOnly /\ AuditExplainsRoles /\ SeatsCountMembers
    BY DEF Init, OwnerOnly, AuditExplainsRoles, SeatsCountMembers
  <1>5. TableInv
    BY <1>3, <1>4 DEF TableInv
  <1>6. roles \in SUBSET (Users \X Roles) /\ ledger \in [Users \X Roles -> Int]
    BY DEF Init
  <1>7. seats \in Nat \ {0}
    <2>1. IsFiniteSet(Members)
      BY TeamAssumption, FS_Subset DEF Members
    <2>2. Owner \in Members
      BY <1>4, TeamAssumption DEF Members, OwnerOnly, IsMember
    <2>3. seats = Cardinality(Members) /\ Cardinality(Members) \in Nat
      BY <1>4, <2>1, FS_CardinalityType DEF SeatsCountMembers, Members
    <2>4. Cardinality(Members) # 0
      BY <2>1, <2>2, FS_EmptySet
    <2> QED BY <2>3, <2>4
  <1>8. TypeOK
    <2>1. cmd \in [Commands -> CommandType] /\ saga \in [Sagas -> SagaType]
      BY RestingTypes DEF Init
    <2>2. receipt \in [Receipts -> {"usable", "expired", "spent"}]
      BY DEF Init
    <2>3. billed = seats /\ requests = 0 /\ overlapped = FALSE /\ slips = 0
      BY DEF Init
    <2>4. seats \in Int /\ billed \in Nat \ {0} /\ requests \in Nat
      BY <1>7, <2>3
    <2>5. overlapped \in BOOLEAN /\ slips \in Nat
      BY <2>3
    <2> QED BY <1>6, <2>1, <2>2, <2>4, <2>5 DEF Init, TypeOK
  <1>9. CommandInv
    <2>1. Locked /\ Ready /\ Claimed
      BY <1>1 DEF Locked, Ready, Claimed, HoldsRow, InTransaction
    <2>2. Logged
      BY <1>1 DEF Logged
    <2>3. Spent
      <3>1. <<>> # <<"success">>
        OBVIOUS
      <3> QED BY <1>1, <3>1 DEF Spent, Init
    <2>4. InOrder
      <3>1. \A c \in Commands : Parties(c) \subseteq Users
        BY <1>8 DEF Parties, TypeOK, CommandType
      <3> QED BY <1>2, <3>1 DEF InOrder
    <2> QED BY <2>1, <2>2, <2>3, <2>4 DEF CommandInv
  <1>10. SagaInv /\ BillingInv
    <2>1. Near(billed, seats, slips)
      BY <1>7 DEF Init, Near
    <2> QED BY <1>1, <2>1 DEF SagaInv, BillingInv
  <1> QED BY <1>5, <1>8, <1>9, <1>10 DEF IInv

LEMMA NextIInv == IInv /\ [Next]_vars => IInv'
  <1> SUFFICES ASSUME IInv, [Next]_vars PROVE IInv'
    OBVIOUS
  <1>1. CASE \E r \in Receipts : Expire(r)
    BY <1>1, ExpirePreserves
  <1>2. CASE \E c \in Commands : ChangeStep(c)
    BY <1>2, ChangePreserves
  <1>3. CASE \E c \in Commands, kind \in {"grant", "revoke"}, actor, target \in Users,
               role \in Roles, r \in Receipts : Claim(c, kind, actor, target, role, r)
    BY <1>3, ClaimPreserves
  <1>4. CASE \E u \in Users, role \in {"member", "admin"} : PatchRole(u, role)
    BY <1>4, PatchPreserves
  <1>5. CASE \E s \in Sagas, u \in Users : RemoveUser(s, u) \/ AcceptInvite(s, u) \/ AutoJoin(s, u)
    BY <1>5, RequestPreserves
  <1>6. CASE \E s \in Sagas : SagaStep(s)
    BY <1>6, BillingPreserves, UndoPreserves DEF SagaStep
  <1>7. CASE UNCHANGED vars
    <2>1. UNCHANGED <<db, invites, receipt, cmd, payment, requests>> /\ UNCHANGED db
          /\ UNCHANGED <<billed, saga, overlapped, slips, seats, team>>
      BY <1>7 DEF vars, payment, history, db
    <2>2. TypeOK /\ SagaInv /\ BillingInv
      BY DEF IInv
    <2>3. SagaInv' /\ BillingInv'
      BY <2>1, <2>2, SagaFrame DEF IsMember
    <2> QED BY <2>1, <2>2, <2>3, OutsideTables DEF TypeOK
  <1> QED BY <1>1, <1>2, <1>3, <1>4, <1>5, <1>6, <1>7 DEF Next

\* The invariant holds in every reachable state.
THEOREM InductiveInvariant == Spec => []IInv
  BY InitIInv, NextIInv, PTL DEF Spec

\* The tables and the requests in progress keep their types.
THEOREM TypeCorrect == Spec => []TypeOK
  <1>1. IInv => TypeOK
    BY DEF IInv
  <1> QED BY <1>1, InductiveInvariant, PTL

\* No grant survives its member's removal: the locks of a command and of a
\* removal put one after the other (business_role_change.rs, team_repo.rs).
THEOREM OnlyMembersHoldRoles == Spec => []RolesHaveMembers
  <1>1. IInv => RolesHaveMembers
    BY DEF IInv, TableInv
  <1> QED BY <1>1, InductiveInvariant, PTL

\* The audited grants and revocations add up to the table of business roles.
THEOREM AuditIsComplete == Spec => []AuditExplainsRoles
  <1>1. IInv => AuditExplainsRoles
    BY DEF IInv, TableInv
  <1> QED BY <1>1, InductiveInvariant, PTL

\* team.seat_count is the number of rows of team_user.
THEOREM SeatsAreMembers == Spec => []SeatsCountMembers
  <1>1. IInv => SeatsCountMembers
    BY DEF IInv, TableInv
  <1> QED BY <1>1, InductiveInvariant, PTL

\* One request after another, with its compensations, leaves the provider's
\* quantity at the seat count, give or take one seat for each billing call that
\* failed after it took effect, each seat that was not given back and each
\* request that was cut off in between (team_service.rs, customer_repo.rs).
THEOREM BillingFollowsSeats == Spec => []SeatsAreBilled
  <1>1. IInv => SeatsAreBilled
    BY DEF IInv, BillingInv, SeatsAreBilled, Near
  <1> QED BY <1>1, InductiveInvariant, PTL

LEMMA ChangedIsLogged ==
  ASSUME NEW log \in {<<>>, <<"success">>, <<"denied">>}
  PROVE  "success" \in {log[i] : i \in DOMAIN log} <=> log = <<"success">>
  <1>1. CASE log = <<>>
    BY <1>1
  <1>2. CASE log = <<"success">>
    <2>1. DOMAIN log = {1} /\ log[1] = "success"
      BY <1>2
    <2> QED BY <1>2, <2>1
  <1>3. CASE log = <<"denied">>
    <2>1. DOMAIN log = {1} /\ log[1] = "denied"
      BY <1>3
    <2> QED BY <1>3, <2>1
  <1> QED BY <1>1, <1>2, <1>3

\* A spent receipt and the one change it authorized go together, whatever races
\* and retries there were (pg_repo.rs, consume_with_tx).
THEOREM OneChangePerReceipt == Spec => []ReceiptSpentOnce
  <1>1. IInv => ReceiptSpentOnce
    <2> SUFFICES ASSUME IInv PROVE ReceiptSpentOnce
      OBVIOUS
    <2>1. \A c \in Commands : Changed(c) <=> cmd[c].log = <<"success">>
      BY ChangedIsLogged DEF IInv, CommandInv, Logged, Changed
    <2> QED BY <2>1 DEF IInv, CommandInv, Spent, ReceiptSpentOnce
  <1> QED BY <1>1, InductiveInvariant, PTL

\* An outcome that is reported was audited, once (business_role_change.rs).
THEOREM OutcomesAreAudited == Spec => []AuditedOnce
  <1>1. IInv => AuditedOnce
    <2>1. Len(<<>>) <= 1 /\ Len(<<"success">>) <= 1 /\ Len(<<"denied">>) <= 1
      OBVIOUS
    <2> QED BY <2>1 DEF IInv, CommandInv, Logged, AuditedOnce
  <1> QED BY <1>1, InductiveInvariant, PTL

\* A command that is waited for has its own next row further on.
LEMMA WaitsGoUp ==
  ASSUME IInv, NEW c \in Commands, NEW d \in Commands, WaitsFor(c, d),
         cmd[d].pc = "lock", ToRead(d) # {}
  PROVE  /\ NextRow(c) \in Users /\ NextRow(d) \in Users
         /\ NextRow(c) < NextRow(d)
  <1>1. /\ NextRow(c) \in Users /\ NextRow(d) \in Users /\ NextRow(d) \in Parties(d)
        /\ cmd[d].read[NextRow(d)] = "unread"
    BY NextRowFacts DEF IInv, WaitsFor
  <1>2. cmd[d].read[NextRow(c)] # "unread"
    BY DEF WaitsFor, HoldsRow, TeamRole
  <1>3. NextRow(c) \in Parties(d)
    BY <1>1, <1>2 DEF IInv, CommandInv, InOrder
  <1> QED BY <1>1, <1>2, <1>3 DEF IInv, CommandInv, InOrder

\* Of commands that all wait, the one whose next row is the last of all waits
\* for a command outside the set: rows above the next row shrink along a chain
\* of waits, and the set of users is finite.
THEOREM CommandsCannotDeadlock == Spec => []NoDeadlock
  <1>1. IInv => NoDeadlock
    <2> SUFFICES ASSUME IInv, NEW S \in SUBSET Commands, S # {},
                        \A c \in S : \E d \in S : WaitsFor(c, d)
                 PROVE  FALSE
      BY DEF NoDeadlock
    <2> DEFINE Above(c) == {v \in Users : NextRow(c) < v}
               T == {Above(c) : c \in S}
    <2>1. /\ Users \subseteq Int /\ IsFiniteSet(Users)
          /\ \A c \in S : NextRow(c) \in Users /\ cmd[c].pc = "lock" /\ ToRead(c) # {}
      BY TeamAssumption, NextRowFacts DEF WaitsFor, IInv
    <2>2. T \subseteq FiniteSubsetsOf(Users) /\ T # {}
      <3>1. ASSUME NEW c \in S PROVE Above(c) \in FiniteSubsetsOf(Users)
        <4>1. Above(c) \in SUBSET Users
          OBVIOUS
        <4> QED BY <2>1, <4>1, FS_Subset DEF FiniteSubsetsOf
      <3> QED BY <3>1
    <2>3. PICK A \in T : \A B \in T : ~(<<B, A>> \in StrictSubsetOrdering(Users))
      <3> HIDE DEF T
      <3> QED BY <2>2, FS_StrictSubsetOrderingWellFounded, WFMin
    <2>4. PICK c \in S : A = Above(c)
      BY <2>3
    <2>5. PICK d \in S : WaitsFor(c, d)
      OBVIOUS
    <2>6. NextRow(c) < NextRow(d) /\ NextRow(c) \in Users /\ NextRow(d) \in Users
      BY <2>1, <2>5, WaitsGoUp
    <2>7. Above(d) \subseteq Above(c) /\ NextRow(d) \in Above(c) /\ NextRow(d) \notin Above(d)
      <3> DEFINE n == NextRow(c)
                 k == NextRow(d)
      <3>1. n \in Int /\ k \in Int /\ n < k /\ k \in Users
        BY <2>1, <2>6
      <3> HIDE DEF n, k
      <3>2. (\A v \in Users : k < v => n < v) /\ ~(k < k)
        BY <2>1, <3>1
      <3> USE DEF n, k
      <3> QED BY <3>1, <3>2
    <2>8. <<Above(d), Above(c)>> \in StrictSubsetOrdering(Users)
      <3>1. Above(d) \in SUBSET Users /\ Above(c) \in SUBSET Users /\ Above(d) # Above(c)
        BY <2>7
      <3> HIDE DEF Above
      <3> QED BY <2>7, <3>1 DEF StrictSubsetOrdering
    <2>9. Above(d) \in T
      OBVIOUS
    <2> QED BY <2>3, <2>4, <2>8, <2>9
  <1> QED BY <1>1, InductiveInvariant, PTL

\* Only a commit adds a success to the audit.
LEMMA SuccessIsCommitted ==
  ASSUME IInv, [Next]_vars, NEW c \in Commands, cmd[c].log # <<"success">>,
         cmd'[c].log = <<"success">>
  PROVE  Commit(c)
  <1>0. TypeOK /\ CommandInv
    BY DEF IInv
  <1>1. cmd' # cmd
    OBVIOUS
  <1>2. CASE \E d \in Commands : ChangeStep(d)
    <2>1. PICK d \in Commands : ChangeStep(d)
      BY <1>2
    <2>2. cmd[d].pc \in {"lock", "commit", "deny"} => cmd[d].log = <<>>
      BY <1>0 DEF CommandInv, Logged
    <2>3. /\ <<>> # <<"success">> /\ <<"denied">> # <<"success">>
          /\ <<>> \in Seq({"success", "denied"}) /\ <<"denied">> \in Seq({"success", "denied"})
          /\ Append(<<>>, "success") \in Seq({"success", "denied"})
      OBVIOUS
    <2>4. Append(<<>>, "denied") = <<"denied">>
      OBVIOUS
    <2>5. CASE LockRow(d)
      BY <1>0, <2>5, LockFacts
    <2>6. CASE Decide(d)
      <3>1. CASE Goto(d, "commit")
        BY <1>0, <3>1, GotoFacts
      <3>2. CASE Leave(d, "deny", cmd[d].log)
        <4>1. Leave(d, "deny", <<>>)
          BY <2>2, <2>6, <3>2 DEF Decide
        <4> QED BY <1>0, <2>3, <4>1, LeaveTypes
      <3> QED BY <2>6, <3>1, <3>2 DEF Decide
    <2>7. CASE Commit(d)
      <3>1. cmd[d].pc = "commit"
        BY <2>7 DEF Commit
      <3>2. \A e \in Commands \ {d} : cmd'[e] = cmd[e]
        <4>1. PICK pc \in {"done", "error"} : Leave(d, pc, Append(<<>>, "success"))
          BY <2>2, <2>7, <3>1 DEF Commit
        <4> QED BY <1>0, <2>3, <4>1, LeaveTypes
      <3> QED BY <2>7, <3>2
    <2>8. CASE Deny(d)
      <3>1. cmd[d].pc = "deny"
        BY <2>8 DEF Deny
      <3>2. PICK pc \in {"denied", "error"} : Leave(d, pc, <<"denied">>)
        BY <2>2, <2>4, <2>8, <3>1 DEF Deny
      <3>3. /\ \A e \in Commands \ {d} : cmd'[e] = cmd[e]
            /\ cmd'[d].log = <<"denied">>
        BY <1>0, <2>3, <3>2, LeaveTypes
      <3> QED BY <2>3, <3>3
    <2>9. CASE ChangeFails(d)
      <3>1. Leave(d, "error", <<>>)
        BY <2>2, <2>9 DEF ChangeFails
      <3> QED BY <1>0, <2>3, <3>1, LeaveTypes
    <2> QED BY <2>1, <2>5, <2>6, <2>7, <2>8, <2>9 DEF ChangeStep
  <1>3. CASE \E d \in Commands, kind \in {"grant", "revoke"}, actor, target \in Users,
               role \in Roles, r \in Receipts : Claim(d, kind, actor, target, role, r)
    <2>1. <<>> # <<"success">>
      OBVIOUS
    <2> QED BY <1>0, <1>3, <2>1, ClaimFacts
  <1>4. CASE \E r \in Receipts : Expire(r)
    BY <1>1, <1>4 DEF Expire
  <1>5. CASE \E u \in Users, role \in {"member", "admin"} : PatchRole(u, role)
    BY <1>1, <1>5 DEF PatchRole
  <1>6. CASE \E s \in Sagas, u \in Users : RemoveUser(s, u) \/ AcceptInvite(s, u) \/ AutoJoin(s, u)
    BY <1>1, <1>6 DEF RemoveUser, AcceptInvite, AutoJoin, BeginSaga
  <1>7. CASE \E s \in Sagas : SagaStep(s)
    BY <1>1, <1>7 DEF SagaStep, BillRead, BillWrite, BillAnswerLost, BillFails, RestSucceeds,
                      RestFails, UndoRemoval, UndoAddition, SagaLost
  <1>8. CASE UNCHANGED vars
    BY <1>1, <1>8 DEF vars
  <1> QED BY <1>2, <1>3, <1>4, <1>5, <1>6, <1>7, <1>8 DEF Next

\* What the checks of a command found is true when the command commits, though
\* demotions and removals run beside it (business_role_change.rs).
THEOREM CommitsAreAuthorized == Spec => AuthorizedAtCommit
  <1> DEFINE Authorized(c) ==
        /\ team[cmd[c].actor] \in Governing
        /\ IsMember(cmd[c].target)
        /\ cmd[c].kind = "grant" => cmd[c].actor # cmd[c].target
        /\ Principal[cmd[c].receipt] = cmd[c].actor
  <1>1. IInv /\ IInv' /\ [Next]_vars =>
          [\A c \in Commands : (~Changed(c) /\ Changed(c)') => Authorized(c)]_vars
    <2> SUFFICES ASSUME IInv, IInv', [Next]_vars, NEW c \in Commands, ~Changed(c), Changed(c)'
                 PROVE  Authorized(c)
      OBVIOUS
    <2>1. cmd[c].log # <<"success">> /\ cmd'[c].log = <<"success">>
      BY ChangedIsLogged DEF IInv, CommandInv, Logged, Changed
    <2>2. Commit(c)
      BY <2>1, SuccessIsCommitted
    <2>3. cmd[c].pc = "commit" /\ InTransaction(c) /\ Allowed(c)
      BY <2>2 DEF Commit, InTransaction, IInv, CommandInv, Ready
    <2>4. cmd[c].actor \in Users /\ cmd[c].target \in Users
      BY DEF IInv, TypeOK, CommandType
    <2>5. HoldsRow(c, cmd[c].actor) /\ HoldsRow(c, cmd[c].target)
      BY <2>3 DEF HoldsRow, Allowed, Governing, TeamRole
    <2>6. /\ team[cmd[c].actor] = cmd[c].read[cmd[c].actor]
          /\ team[cmd[c].target] = cmd[c].read[cmd[c].target]
      BY <2>4, <2>5 DEF IInv, CommandInv, Locked
    <2>7. Principal[cmd[c].receipt] = cmd[c].actor
      BY <2>3 DEF IInv, CommandInv, Claimed
    <2> QED BY <2>3, <2>6, <2>7 DEF Allowed, IsMember, TeamRole
  <1> QED BY <1>1, InductiveInvariant, PTL DEF Spec, AuthorizedAtCommit
=============================================================================
