---------------------------- MODULE RoleRegister ----------------------------
(***************************************************************************)
(* What crates/teams promises about the business roles of a team, without  *)
(* the locks, the transactions, the answers, the audit's inserts and the   *)
(* payment provider: a register in which every change takes effect at      *)
(* once.  A role changes only by an authorized change that spends a        *)
(* receipt, or with the membership it belongs to.                          *)
(***************************************************************************)
CONSTANTS
    Users, Owner, Roles, Derived, Receipts, Principal,
    Removals    \* removals that may be in progress

VARIABLES
    team,       \* team[u]: u's role in the team, "none" if no member
    roles,      \* pairs of a member and a business role
    spent,      \* receipts that paid for a change
    left        \* left[s]: the membership that removal s ended, if it may be undone

register == <<team, roles, spent, left>>

IsMember(u) == team[u] # "none"
RolesOf(u)  == {p \in roles : p[1] = u}

Init ==
    /\ team \in [Users -> {"none", "member", "admin", "owner"}]
    /\ \A u \in Users : team[u] = "owner" <=> u = Owner
    /\ roles \in SUBSET ({u \in Users : IsMember(u)} \X (Roles \ Derived))
    /\ spent = {} /\ left = [s \in Removals |-> {}]

\* What every change needs: the actor's own receipt, which it spends, a
\* governing actor, a member to change and a role that can be granted.
Authorized(actor, target, role, r) ==
    /\ Principal[r] = actor /\ r \notin spent
    /\ spent' = spent \cup {r}
    /\ team[actor] \in {"admin", "owner"} /\ IsMember(target) /\ role \notin Derived

Grant(actor, target, role, r) ==
    /\ Authorized(actor, target, role, r)
    /\ actor # target /\ <<target, role>> \notin roles
    /\ roles' = roles \cup {<<target, role>>}
    /\ UNCHANGED <<team, left>>

Revoke(actor, target, role, r) ==
    /\ Authorized(actor, target, role, r)
    /\ <<target, role>> \in roles
    /\ roles' = roles \ {<<target, role>>}
    /\ UNCHANGED <<team, left>>

\* A membership changes its role in the team; business roles stay.
Patch(u, role) ==
    /\ u # Owner /\ IsMember(u)
    /\ team' = [team EXCEPT ![u] = role]
    /\ UNCHANGED <<roles, spent, left>>

\* A membership begins with no business role.
Join(u, role) ==
    /\ ~IsMember(u)
    /\ team' = [team EXCEPT ![u] = role]
    /\ UNCHANGED <<roles, spent, left>>

\* A membership ends, and its business roles with it.
Depart(u) ==
    /\ u # Owner /\ IsMember(u)
    /\ team' = [team EXCEPT ![u] = "none"]
    /\ roles' = roles \ RolesOf(u)
    /\ UNCHANGED spent

\* The end of a membership that was begun and is taken back.
Withdraw(u) == Depart(u) /\ UNCHANGED left

\* A removal, which may be undone until it is final.
Remove(s, u) ==
    /\ Depart(u) /\ left[s] = {}
    /\ left' = [left EXCEPT ![s] = {[user |-> u, role |-> team[u], kept |-> RolesOf(u)]}]

\* It is undone: the membership comes back with its roles.
Restore(s) ==
    \E m \in left[s] :
        /\ ~IsMember(m.user)
        /\ team' = [team EXCEPT ![m.user] = m.role]
        /\ roles' = roles \cup m.kept
        /\ left' = [left EXCEPT ![s] = {}]
        /\ UNCHANGED spent

\* It is final.
Finish(s) ==
    /\ left' = [left EXCEPT ![s] = {}]
    /\ UNCHANGED <<team, roles, spent>>

Next ==
    \/ \E s \in Removals : Finish(s) \/ Restore(s)
    \/ \E s \in Removals, u \in Users : Remove(s, u)
    \/ \E u \in Users : Withdraw(u)
    \/ \E u \in Users, role \in {"member", "admin"} : Patch(u, role) \/ Join(u, role)
    \/ \E r \in Receipts, actor, target \in Users, role \in Roles :
          Grant(actor, target, role, r) \/ Revoke(actor, target, role, r)

Spec == Init /\ [][Next]_register
=============================================================================
