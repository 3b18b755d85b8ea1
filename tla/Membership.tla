------------------------------ MODULE Membership ------------------------------
(***************************************************************************)
(* How users come into a tenant: api/tenants.py, register of api/auth.py   *)
(* and services/invite_service.py, for one tenant and one invite link.     *)
(*                                                                         *)
(* A request that redeems the link reads it and the membership, claims a   *)
(* use with a conditional UPDATE, which locks the link's row until it      *)
(* commits or rolls back, and then writes the membership.  accept_invite   *)
(* does both in one transaction; register commits the use with the new     *)
(* account and the membership two transactions later.                      *)
(*                                                                         *)
(* "approved" is a pending row that was approved, "joined" a row that was  *)
(* inserted approved: a request that read the pending row updates that row *)
(* and no other.                                                           *)
(***************************************************************************)
EXTENDS Naturals, FiniteSets

CONSTANTS
    TenantUsers,     \* users, with an account or about to register
    NewUsers,        \* those about to register
    Redemptions,     \* requests that redeem the link
    MaxUsesValues,   \* values of max_uses
    NoRedemption,
    MaxAdminSteps    \* bound on admins' requests and on failures

ASSUME MembershipAssumption ==
    /\ NewUsers \subseteq TenantUsers
    /\ TenantUsers # {}
    /\ IsFiniteSet(Redemptions)
    /\ MaxUsesValues \in SUBSET Nat
    /\ NoRedemption \notin Redemptions
    /\ MaxAdminSteps \in Nat

VARIABLES
    member,          \* [TenantUsers -> the committed TenantUser row]
    account,         \* users that have an account
    link,            \* the committed InviteToken: active, use_count, max_uses
    tenantActive,
    rowLock,         \* the redemption that holds the link's row, or NoRedemption
    redeem,          \* [Redemptions -> how far the request is, and what it read]
    granted,         \* memberships that came from the link
    adminSteps

memberVars == <<member, account, link, tenantActive, rowLock, redeem, granted, adminSteps>>

Rows == {"none", "pending", "approved", "joined"}

\* at: idle, read, claimed, then (register) account and workspace, over.
RedemptionStates ==
    [ at   : {"idle", "read", "claimed", "account", "workspace", "over"},
      user : TenantUsers,
      row  : Rows,
      new  : BOOLEAN ]          \* register rather than accept_invite

MembershipTypeOK ==
    /\ member \in [TenantUsers -> Rows]
    /\ account \in SUBSET TenantUsers
    /\ link \in [active : BOOLEAN, use_count : Nat, max_uses : MaxUsesValues]
    /\ tenantActive \in BOOLEAN
    /\ rowLock \in Redemptions \cup {NoRedemption}
    /\ redeem \in [Redemptions -> RedemptionStates]
    /\ granted \in Nat
    /\ adminSteps \in 0..MaxAdminSteps

\* Who may have asked to join before is pending.
MembershipInit ==
    /\ member \in [TenantUsers -> {"none", "pending"}]
    /\ \A u \in NewUsers : member[u] = "none"
    /\ account = TenantUsers \ NewUsers
    /\ \E n \in MaxUsesValues : link = [active |-> TRUE, use_count |-> 0, max_uses |-> n]
    /\ tenantActive = TRUE
    /\ rowLock = NoRedemption
    /\ redeem = [q \in Redemptions |->
                    [at |-> "idle", user |-> CHOOSE u \in TenantUsers : TRUE,
                     row |-> "none", new |-> FALSE]]
    /\ granted = 0
    /\ adminSteps = 0

LinkUsable == link.active /\ link.use_count < link.max_uses

Goes(q, at) == redeem' = [redeem EXCEPT ![q].at = at]

\* The transaction ends: its lock is released.
Unlock == rowLock' = NoRedemption

-----------------------------------------------------------------------------
(* Redeeming the link.                                                     *)

\* The request's checks pass on what it reads.
ReadLink(q, u) ==
    /\ redeem[q].at = "idle"
    /\ LinkUsable
    /\ tenantActive
    /\ redeem' = [redeem EXCEPT ![q] = [at |-> "read", user |-> u, row |-> member[u],
                                        new |-> u \notin account]]
    /\ UNCHANGED <<member, account, link, tenantActive, rowLock, granted, adminSteps>>

\* accept_invite by a member: already_member, and no use.
AlreadyMember(q) ==
    /\ redeem[q].at = "read"
    /\ redeem[q].row \in {"approved", "joined"}
    /\ Goes(q, "over")
    /\ UNCHANGED <<member, account, link, tenantActive, rowLock, granted, adminSteps>>

\* Mutant: what the request read of the link is trusted.
ClaimableAsRead == TRUE

\* The UPDATE's WHERE, evaluated once no other transaction holds the row.
Claimable == LinkUsable

\* consume_invite_use finds the row: the use is claimed, and the row locked.
ClaimUse(q) ==
    /\ redeem[q].at = "read"
    /\ redeem[q].row \in {"none", "pending"}
    /\ rowLock = NoRedemption
    /\ Claimable
    /\ rowLock' = q
    /\ Goes(q, "claimed")
    /\ UNCHANGED <<member, account, link, tenantActive, granted, adminSteps>>

\* It does not: the request is refused.
ClaimRefused(q) ==
    /\ redeem[q].at = "read"
    /\ redeem[q].row \in {"none", "pending"}
    /\ rowLock = NoRedemption
    /\ ~Claimable
    /\ Goes(q, "over")
    /\ UNCHANGED <<member, account, link, tenantActive, rowLock, granted, adminSteps>>

OneUse == link' = [link EXCEPT !.use_count = @ + 1]

\* The row that was read is still there, or none was read and none is there.
RowAsRead(q) ==
    IF redeem[q].row = "none" THEN member[redeem[q].user] = "none"
                              ELSE member[redeem[q].user] \in {"pending", "approved"}

\* accept_invite commits: the membership and its use.
AcceptCommits(q) ==
    /\ redeem[q].at = "claimed"
    /\ ~redeem[q].new
    /\ RowAsRead(q)
    /\ LET u == redeem[q].user
       IN  /\ member' = [member EXCEPT ![u] = IF redeem[q].row = "none"
                                              THEN "joined" ELSE "approved"]
           /\ granted' = IF member[u] \in {"none", "pending"} THEN granted + 1 ELSE granted
    /\ OneUse
    /\ Unlock
    /\ Goes(q, "over")
    /\ UNCHANGED <<account, tenantActive, adminSteps>>

\* The row exists by now (uq_tenant_user) or is gone: the use is rolled back.
AcceptRollsBack(q) ==
    /\ redeem[q].at = "claimed"
    /\ ~redeem[q].new
    /\ ~RowAsRead(q)
    /\ Unlock
    /\ Goes(q, "over")
    /\ UNCHANGED <<member, account, link, tenantActive, granted, adminSteps>>

\* register commits the account, and the use with it.
RegisterCommits(q) ==
    /\ redeem[q].at = "claimed"
    /\ redeem[q].new
    /\ redeem[q].user \notin account
    /\ account' = account \cup {redeem[q].user}
    /\ OneUse
    /\ Unlock
    /\ Goes(q, "account")
    /\ UNCHANGED <<member, tenantActive, granted, adminSteps>>

\* The e-mail address was registered meanwhile.
RegisterRollsBack(q) ==
    /\ redeem[q].at = "claimed"
    /\ redeem[q].new
    /\ redeem[q].user \in account
    /\ Unlock
    /\ Goes(q, "over")
    /\ UNCHANGED <<member, account, link, tenantActive, granted, adminSteps>>

CreateWorkspace(q) ==
    /\ redeem[q].at = "account"
    /\ Goes(q, "workspace")
    /\ UNCHANGED <<member, account, link, tenantActive, rowLock, granted, adminSteps>>

\* register inserts the membership, unless a row exists by now.
RegisterJoins(q) ==
    /\ redeem[q].at = "workspace"
    /\ LET u == redeem[q].user
       IN  IF member[u] = "none"
           THEN /\ member' = [member EXCEPT ![u] = "joined"]
                /\ granted' = granted + 1
           ELSE UNCHANGED <<member, granted>>
    /\ Goes(q, "over")
    /\ UNCHANGED <<account, link, tenantActive, rowLock, adminSteps>>

AdminStep ==
    /\ adminSteps < MaxAdminSteps
    /\ adminSteps' = adminSteps + 1

\* The process or its connection to the database is lost: what is not
\* committed is rolled back, what is committed stays.
RedemptionBreaks(q) ==
    /\ redeem[q].at \in {"read", "claimed", "account", "workspace"}
    /\ AdminStep
    /\ rowLock' = IF rowLock = q THEN NoRedemption ELSE rowLock
    /\ Goes(q, "over")
    /\ UNCHANGED <<member, account, link, tenantActive, granted>>

-----------------------------------------------------------------------------
(* Admins.                                                                 *)

ApproveUser(u) ==
    /\ member[u] = "pending"
    /\ AdminStep
    /\ member' = [member EXCEPT ![u] = "approved"]
    /\ UNCHANGED <<account, link, tenantActive, rowLock, redeem, granted>>

\* reject_user and remove_tenant_user.
RemoveTenantUser(u) ==
    /\ member[u] # "none"
    /\ AdminStep
    /\ member' = [member EXCEPT ![u] = "none"]
    /\ UNCHANGED <<account, link, tenantActive, rowLock, redeem, granted>>

\* set_tenant_admin creates the membership if there is none.
SetTenantAdmin(u) ==
    /\ u \in account
    /\ AdminStep
    /\ member' = [member EXCEPT ![u] = CASE @ = "none" -> "joined"
                                         [] @ = "pending" -> "approved"
                                         [] OTHER -> @]
    /\ UNCHANGED <<account, link, tenantActive, rowLock, redeem, granted>>

\* Waits for the row's lock like any update of it.  Expiry has the same effect.
RevokeInvite ==
    /\ link.active
    /\ rowLock = NoRedemption
    /\ AdminStep
    /\ link' = [link EXCEPT !.active = FALSE]
    /\ UNCHANGED <<member, account, tenantActive, rowLock, redeem, granted>>

\* deactivate_tenant, and update_tenant with is_active.
SetTenantActive(active) ==
    /\ tenantActive # active
    /\ AdminStep
    /\ tenantActive' = active
    /\ UNCHANGED <<member, account, link, rowLock, redeem, granted>>

MembershipNext ==
    \/ \E q \in Redemptions :
          \/ \E u \in TenantUsers : ReadLink(q, u)
          \/ AlreadyMember(q)
          \/ ClaimUse(q)
          \/ ClaimRefused(q)
          \/ AcceptCommits(q)
          \/ AcceptRollsBack(q)
          \/ RegisterCommits(q)
          \/ RegisterRollsBack(q)
          \/ CreateWorkspace(q)
          \/ RegisterJoins(q)
          \/ RedemptionBreaks(q)
    \/ \E u \in TenantUsers : ApproveUser(u) \/ RemoveTenantUser(u) \/ SetTenantAdmin(u)
    \/ RevokeInvite
    \/ \E active \in BOOLEAN : SetTenantActive(active)

MembershipSpec == MembershipInit /\ [][MembershipNext]_memberVars

-----------------------------------------------------------------------------
(* Properties.                                                             *)

\* "two concurrent redemptions of a max_uses=1 link can both pass the check and
\* both increment, blowing past the cap" (invite_service.py:7): they may not.
\* Every membership that came from the link is one of its uses, and those are
\* at most max_uses, through concurrent redemptions of one user or several,
\* rollbacks and broken requests.  The reverse does not hold: a use may be
\* spent on no membership.
InviteUsesCapped == granted <= link.use_count /\ link.use_count <= link.max_uses
=============================================================================
