------------------------------ MODULE Membership ------------------------------
(***************************************************************************)
(* Accounts, organizations, members and invitations: org.service.ts, the   *)
(* registration of auth.service.ts, and the operations of admin.service.ts *)
(* on the same rows.                                                       *)
(*                                                                         *)
(* A request handler is a sequence of reads and one or two commits.  A     *)
(* request holds what its reads returned; the steps of different requests  *)
(* interleave.  The step that begins a request stands for its reads up to  *)
(* the first one whose answer may be stale when it is used.                *)
(***************************************************************************)
EXTENDS Integers, FiniteSets

CONSTANTS
  Users,          \* e-mail addresses; an address has at most one account
  Orgs, Invites,  \* identities of the rows that may be created
  Requests,       \* requests in progress at the same time
  Registered,     \* accounts that exist, verified, at the start
  Seed,           \* memberships that exist at the start: <<org, user, role>>
  AnswersOverlap, \* whether two answers to one invitee's invitations may overlap
  AdminOps,       \* operations of the super administrator that occur
  MaxRequests,    \* bound on the requests ever begun
  MaxFaults,      \* bound on the requests that die half-way
  None

Roles == {"OWNER", "ADMIN", "MEMBER", "VIEWER"}
Managers == {"OWNER", "ADMIN"}
Invitable == {"ADMIN", "MEMBER", "VIEWER"}

ASSUME MembershipAssumption ==
  /\ Registered \subseteq Users
  /\ Seed \subseteq (Orgs \X Registered \X Roles)
  /\ \A s, t \in Seed : s[1] = t[1] /\ s[2] = t[2] => s = t
  /\ \A s \in Seed : \E t \in Seed : t[1] = s[1] /\ t[3] = "OWNER"
  /\ \A s, t \in Seed : s[1] = t[1] /\ s[3] = "OWNER" /\ t[3] = "OWNER" => s = t
  /\ \A s, t \in Seed : s[2] = t[2] /\ s[3] = "OWNER" /\ t[3] = "OWNER" => s = t
  /\ AnswersOverlap \in BOOLEAN
  /\ AdminOps \subseteq {"delete", "status"}
  /\ IsFiniteSet(Requests) /\ Requests # {}
  /\ MaxRequests \in Nat /\ MaxFaults \in Nat
  /\ None \notin Users \cup Orgs \cup Invites

VARIABLES
  account,    \* users rows: made, password set, email verified
  regToken,   \* the registration token of a pre-created account
  links,      \* accounts for which a verification mail with their own address is out
  org,        \* organizations rows
  member,     \* organization_members rows: the role, and how often the row was created
  invite,     \* organization_invitations rows
  req,        \* requests in progress
  begun, faults

vars == <<account, regToken, links, org, member, invite, req, begun, faults>>

NoRow == [made |-> FALSE, password |-> FALSE, verified |-> FALSE]
NoInvite == [status |-> "none", org |-> None, user |-> None, role |-> "none", expired |-> FALSE]
Idle == [pc |-> "idle", actor |-> None, org |-> None, user |-> None,
         role |-> "none", inv |-> None, id |-> 0]

Statuses == {"none", "PENDING", "ACCEPTED", "DECLINED", "EXPIRED", "deleted"}
Stages == {"idle", "create", "invite_member", "invite_pending", "invite_create",
           "remove_read", "remove_write", "role_read", "role_write",
           "revoke_read", "revoke_write", "resend_read", "resend_write", "decline",
           "accept", "accept_mark", "accept_join", "accept_new", "accept_grant",
           "register", "register_other", "register_token"}

TypeOK ==
  /\ account \in [Users -> [made : BOOLEAN, password : BOOLEAN, verified : BOOLEAN]]
  /\ regToken \in [Users -> {"none", "live", "expired", "used"}]
  /\ links \subseteq Users
  /\ org \in [Orgs -> {"none", "live", "deleted"}]
  /\ member \in [Orgs \X Users -> [role : Roles \cup {"none"}, id : Nat]]
  /\ invite \in [Invites -> [status : Statuses, org : Orgs \cup {None},
                             user : Users \cup {None}, role : Roles \cup {"none"},
                             expired : BOOLEAN]]
  /\ req \in [Requests -> [pc : Stages, actor : Users \cup {None}, org : Orgs \cup {None},
                           user : Users \cup {None}, role : Roles \cup {"none"},
                           inv : Invites \cup {None}, id : Nat]]
  /\ begun \in Nat /\ faults \in Nat

SeedRole(o, u) ==
  IF \E s \in Seed : s[1] = o /\ s[2] = u
  THEN (CHOOSE s \in Seed : s[1] = o /\ s[2] = u)[3] ELSE "none"

Init ==
  /\ account = [u \in Users |-> [made |-> u \in Registered, password |-> u \in Registered,
                                 verified |-> u \in Registered]]
  /\ regToken = [u \in Users |-> "none"] /\ links = {}
  /\ org = [o \in Orgs |-> IF \E s \in Seed : s[1] = o THEN "live" ELSE "none"]
  /\ member = [p \in Orgs \X Users |->
                 [role |-> SeedRole(p[1], p[2]),
                  id |-> IF SeedRole(p[1], p[2]) = "none" THEN 0 ELSE 1]]
  /\ invite = [i \in Invites |-> NoInvite]
  /\ req = [r \in Requests |-> Idle]
  /\ begun = 0 /\ faults = 0

RoleOf(o, u) == member[<<o, u>>].role

(* The row exists: updating one that was deleted fails. *)
Stored(i) == invite[i].status \notin {"none", "deleted"}

(* Invitations that may still be answered: valid and PENDING change together. *)
PendingFor(o, u) ==
  {i \in Invites : invite[i].org = o /\ invite[i].user = u /\ invite[i].status = "PENDING"}

Owned(u) == {o \in Orgs : RoleOf(o, u) = "OWNER"}

(* A new member row; its numeric key is new too. *)
Joined(o, u, role) ==
  [member EXCEPT ![<<o, u>>] = [role |-> role, id |-> member[<<o, u>>].id + 1]]

Accepted(i) == [invite EXCEPT ![i].status = "ACCEPTED"]

-----------------------------------------------------------------------------
Begin(r, fields) ==
  /\ begun' = begun + 1
  /\ req' = [req EXCEPT ![r] = fields]

Goto(r, pc) == req' = [req EXCEPT ![r].pc = pc]
Done(r) == req' = [req EXCEPT ![r] = Idle]

Rows == <<account, regToken, links, org, member, invite>>

(* The process dies, or PostgreSQL stops answering, between two steps. *)
Dies(r) ==
  /\ req[r].pc # "idle" /\ faults < MaxFaults
  /\ faults' = faults + 1
  /\ Done(r)
  /\ UNCHANGED <<account, regToken, links, org, member, invite, begun>>

-----------------------------------------------------------------------------
(* createOrganization.  The name is unique too: equal names fail at the       *)
(* commit, so the two requests of interest have different ones.               *)

(* Variant: one owned organization per user is not enforced. *)
StartCreateAnyway(r, u) ==
  /\ account[u].verified
  /\ Begin(r, [Idle EXCEPT !.pc = "create", !.actor = u])
  /\ UNCHANGED <<Rows, faults>>

StartCreate(r, u) ==
  /\ account[u].verified
  /\ Owned(u) = {}
  /\ Begin(r, [Idle EXCEPT !.pc = "create", !.actor = u])
  /\ UNCHANGED <<Rows, faults>>

(* Keys are handed out in order: the next row has one key only. *)
NextOrg == CHOOSE o \in Orgs : org[o] = "none"

(* Organization, details and OWNER membership in one transaction. *)
CreateOrg(r, o) ==
  /\ req[r].pc = "create" /\ org[o] = "none" /\ o = NextOrg
  /\ org' = [org EXCEPT ![o] = "live"]
  /\ member' = Joined(o, req[r].actor, "OWNER")
  /\ Done(r)
  /\ UNCHANGED <<account, regToken, links, invite, begun, faults>>

(* requireOrgAdmin: the role as it is now. *)
MayManage(o, u) == org[o] = "live" /\ RoleOf(o, u) \in Managers

-----------------------------------------------------------------------------
(* inviteMemberToOrganization: member, pending invitation, create.  The mail  *)
(* to an unregistered invitee is sent after the commit.                       *)
StartInvite(r, a, o, u, role) ==
  /\ account[a].verified /\ MayManage(o, a)
  /\ Begin(r, [Idle EXCEPT !.pc = "invite_member", !.actor = a, !.org = o, !.user = u,
                           !.role = role])
  /\ UNCHANGED <<Rows, faults>>

InviteMember(r) ==
  /\ req[r].pc = "invite_member"
  /\ \/ RoleOf(req[r].org, req[r].user) = "none" /\ Goto(r, "invite_pending")
     \/ RoleOf(req[r].org, req[r].user) # "none" /\ Done(r)
  /\ UNCHANGED <<Rows, begun, faults>>

InvitePending(r) ==
  /\ req[r].pc = "invite_pending"
  /\ \/ PendingFor(req[r].org, req[r].user) = {} /\ Goto(r, "invite_create")
     \/ PendingFor(req[r].org, req[r].user) # {} /\ Done(r)
  /\ UNCHANGED <<Rows, begun, faults>>

NextInvite == CHOOSE i \in Invites : invite[i] = NoInvite

(* A deleted organization fails the foreign key. *)
InviteCreate(r, i) ==
  /\ req[r].pc = "invite_create" /\ invite[i] = NoInvite /\ i = NextInvite
  /\ invite' = IF org[req[r].org] = "live"
               THEN [invite EXCEPT ![i] = [status |-> "PENDING", org |-> req[r].org,
                                           user |-> req[r].user, role |-> req[r].role,
                                           expired |-> FALSE]]
               ELSE invite
  /\ Done(r)
  /\ UNCHANGED <<account, regToken, links, org, member, begun, faults>>

-----------------------------------------------------------------------------
(* removeMember and updateMemberRole: the caller's role in organization `o',  *)
(* the row, which is named by its key alone and so may be any <<p, u>>, and   *)
(* the write by the same key.                                                 *)
StartRemove(r, a, o, p, u) ==
  /\ MayManage(o, a) /\ RoleOf(p, u) # "none"
  /\ Begin(r, [Idle EXCEPT !.pc = "remove_read", !.actor = a, !.org = p, !.user = u,
                           !.role = RoleOf(o, a), !.id = member[<<p, u>>].id])
  /\ UNCHANGED <<Rows, faults>>

(* Variant: the row is addressed by organization and user instead of its key. *)
SameRowByPair(r) == RoleOf(req[r].org, req[r].user) # "none"

(* The row with the key is still there. *)
SameRow(r) ==
  /\ RoleOf(req[r].org, req[r].user) # "none"
  /\ member[<<req[r].org, req[r].user>>].id = req[r].id

(* Variant: the owner's row may be removed. *)
RemovableWithOwner(r) ==
  LET target == RoleOf(req[r].org, req[r].user)
  IN
  /\ SameRow(r)
  /\ req[r].user # req[r].actor
  /\ ~(req[r].role = "ADMIN" /\ target = "ADMIN")

Removable(r) ==
  LET target == RoleOf(req[r].org, req[r].user)
  IN
  /\ SameRow(r) /\ target # "OWNER"
  /\ req[r].user # req[r].actor
  /\ ~(req[r].role = "ADMIN" /\ target = "ADMIN")

RemoveRead(r) ==
  /\ req[r].pc = "remove_read"
  /\ \/ Removable(r) /\ Goto(r, "remove_write")
     \/ ~Removable(r) /\ Done(r)
  /\ UNCHANGED <<Rows, begun, faults>>

RemoveWrite(r) ==
  /\ req[r].pc = "remove_write"
  /\ member' = IF SameRow(r)
               THEN [member EXCEPT ![<<req[r].org, req[r].user>>].role = "none"]
               ELSE member
  /\ Done(r)
  /\ UNCHANGED <<account, regToken, links, org, invite, begun, faults>>

(* `role' is the new role; an ADMIN may not grant ADMIN, and the check of the *)
(* caller's role is the same whether it comes before or after the read.       *)
StartSetRole(r, a, o, p, u, role) ==
  /\ MayManage(o, a) /\ RoleOf(p, u) # "none"
  /\ RoleOf(o, a) = "ADMIN" => role # "ADMIN"
  /\ Begin(r, [Idle EXCEPT !.pc = "role_read", !.actor = a, !.org = p, !.user = u,
                           !.role = role, !.id = member[<<p, u>>].id])
  /\ UNCHANGED <<Rows, faults>>

SetRoleRead(r) ==
  LET settable == SameRow(r) /\ RoleOf(req[r].org, req[r].user) # "OWNER"
  IN
  /\ req[r].pc = "role_read"
  /\ \/ settable /\ Goto(r, "role_write")
     \/ ~settable /\ Done(r)
  /\ UNCHANGED <<Rows, begun, faults>>

SetRoleWrite(r) ==
  /\ req[r].pc = "role_write"
  /\ member' = IF SameRow(r)
               THEN [member EXCEPT ![<<req[r].org, req[r].user>>].role = req[r].role]
               ELSE member
  /\ Done(r)
  /\ UNCHANGED <<account, regToken, links, org, invite, begun, faults>>

-----------------------------------------------------------------------------
(* revokeInvitation and resendInvitation: the row, then the write by its key. *)
StartRevoke(r, a, o, i) ==
  /\ MayManage(o, a)
  /\ Begin(r, [Idle EXCEPT !.pc = "revoke_read", !.actor = a, !.org = o, !.inv = i])
  /\ UNCHANGED <<Rows, faults>>

RevokeRead(r) ==
  LET i == invite[req[r].inv]
  IN
  /\ req[r].pc = "revoke_read"
  /\ \/ i.org = req[r].org /\ i.status # "ACCEPTED" /\ Goto(r, "revoke_write")
     \/ ~(i.org = req[r].org /\ i.status # "ACCEPTED") /\ Done(r)
  /\ UNCHANGED <<Rows, begun, faults>>

RevokeWrite(r) ==
  /\ req[r].pc = "revoke_write"
  /\ invite' = IF Stored(req[r].inv) THEN [invite EXCEPT ![req[r].inv].status = "EXPIRED"]
               ELSE invite
  /\ Done(r)
  /\ UNCHANGED <<account, regToken, links, org, member, begun, faults>>

StartResend(r, a, o, i) ==
  /\ MayManage(o, a)
  /\ Begin(r, [Idle EXCEPT !.pc = "resend_read", !.actor = a, !.org = o, !.inv = i])
  /\ UNCHANGED <<Rows, faults>>

(* A registered invitee gets no mail, and the deadline stays. *)
ResendRead(r) ==
  LET i == invite[req[r].inv]
      mailed == i.org = req[r].org /\ i.status = "PENDING" /\ ~account[i.user].made
  IN
  /\ req[r].pc = "resend_read"
  /\ \/ mailed /\ Goto(r, "resend_write")
     \/ ~mailed /\ Done(r)
  /\ UNCHANGED <<Rows, begun, faults>>

(* The mail has been sent; the deadline of the row is moved whatever it is now. *)
ResendWrite(r) ==
  /\ req[r].pc = "resend_write"
  /\ invite' = IF Stored(req[r].inv) THEN [invite EXCEPT ![req[r].inv].expired = FALSE]
               ELSE invite
  /\ Done(r)
  /\ UNCHANGED <<account, regToken, links, org, member, begun, faults>>

-----------------------------------------------------------------------------
(* userRespondToInvitation.                                                   *)
Answering(u) == {r \in Requests : req[r].inv # None /\ req[r].user = u}

StartRespond(r, i, answer) ==
  /\ invite[i].status = "PENDING" /\ ~invite[i].expired
  /\ AnswersOverlap \/ Answering(invite[i].user) = {}
  /\ Begin(r, [Idle EXCEPT !.pc = answer, !.inv = i, !.user = invite[i].user,
                           !.org = invite[i].org, !.role = invite[i].role])
  /\ UNCHANGED <<Rows, faults>>

Decline(r) ==
  /\ req[r].pc = "decline"
  /\ invite' = IF Stored(req[r].inv) THEN [invite EXCEPT ![req[r].inv].status = "DECLINED"]
               ELSE invite
  /\ Done(r)
  /\ UNCHANGED <<account, regToken, links, org, member, begun, faults>>

(* The reads of existingUser and alreadyMember; accounts are never deleted. *)
AcceptRead(r) ==
  /\ req[r].pc = "accept"
  /\ \/ ~account[req[r].user].made /\ Goto(r, "accept_new")
     \/ /\ account[req[r].user].made
        /\ \/ RoleOf(req[r].org, req[r].user) # "none" /\ Goto(r, "accept_mark")
           \/ RoleOf(req[r].org, req[r].user) = "none" /\ Goto(r, "accept_join")
  /\ UNCHANGED <<Rows, begun, faults>>

AcceptMark(r) ==
  /\ req[r].pc = "accept_mark"
  /\ invite' = IF Stored(req[r].inv) THEN Accepted(req[r].inv) ELSE invite
  /\ Done(r)
  /\ UNCHANGED <<account, regToken, links, org, member, begun, faults>>

(* The membership key is unique and the organization may be gone: then the   *)
(* transaction is rolled back.                                               *)
CanJoin(r) ==
  /\ RoleOf(req[r].org, req[r].user) = "none"
  /\ org[req[r].org] = "live" /\ Stored(req[r].inv)

AcceptJoin(r) ==
  /\ req[r].pc = "accept_join"
  /\ \/ /\ CanJoin(r)
        /\ member' = Joined(req[r].org, req[r].user, req[r].role)
        /\ invite' = Accepted(req[r].inv)
     \/ ~CanJoin(r) /\ UNCHANGED <<member, invite>>
  /\ Done(r)
  /\ UNCHANGED <<account, regToken, links, org, begun, faults>>

(* Variant: the invitation is answered when the account is pre-created. *)
AcceptNewAnswered(r) ==
  /\ req[r].pc = "accept_new"
  /\ \/ /\ ~account[req[r].user].made
        /\ account' = [account EXCEPT ![req[r].user].made = TRUE]
        /\ invite' = IF Stored(req[r].inv) THEN Accepted(req[r].inv) ELSE invite
        /\ Goto(r, "accept_grant")
     \/ account[req[r].user].made /\ Done(r) /\ UNCHANGED <<account, invite>>
  /\ UNCHANGED <<regToken, links, org, member, begun, faults>>

(* The account is pre-created in a commit of its own; its address is unique. *)
AcceptNew(r) ==
  /\ req[r].pc = "accept_new"
  /\ \/ /\ ~account[req[r].user].made
        /\ account' = [account EXCEPT ![req[r].user].made = TRUE]
        /\ Goto(r, "accept_grant")
     \/ account[req[r].user].made /\ Done(r) /\ UNCHANGED account
  /\ UNCHANGED <<regToken, links, org, member, invite, begun, faults>>

(* Variant: the registration token is forgotten. *)
AcceptGrantTokenless(r) ==
  /\ req[r].pc = "accept_grant"
  /\ \/ /\ CanJoin(r)
        /\ member' = Joined(req[r].org, req[r].user, req[r].role)
        /\ invite' = Accepted(req[r].inv)
     \/ ~CanJoin(r) /\ UNCHANGED <<member, invite>>
  /\ Done(r)
  /\ UNCHANGED <<account, regToken, links, org, begun, faults>>

(* Token, membership and answer in one transaction. *)
AcceptGrant(r) ==
  /\ req[r].pc = "accept_grant"
  /\ \/ /\ CanJoin(r)
        /\ regToken' = [regToken EXCEPT ![req[r].user] = "live"]
        /\ member' = Joined(req[r].org, req[r].user, req[r].role)
        /\ invite' = Accepted(req[r].inv)
     \/ ~CanJoin(r) /\ UNCHANGED <<regToken, member, invite>>
  /\ Done(r)
  /\ UNCHANGED <<account, links, org, begun, faults>>

-----------------------------------------------------------------------------
(* createUser and verifyEmail.                                                *)

(* Registration without a token: the read before the create only chooses the *)
(* error message, the address is unique.                                     *)
Register(u) ==
  /\ ~account[u].made /\ begun < MaxRequests
  /\ account' = [account EXCEPT ![u] = [made |-> TRUE, password |-> TRUE, verified |-> FALSE]]
  /\ links' = links \cup {u}
  /\ begun' = begun + 1
  /\ UNCHANGED <<regToken, org, member, invite, req, faults>>

(* `pc' tells whether the given address is the invited one. *)
StartRegister(r, u, pc) ==
  /\ regToken[u] = "live"
  /\ Begin(r, [Idle EXCEPT !.pc = pc, !.user = u])
  /\ UNCHANGED <<Rows, faults>>

(* Account and token in one transaction, which a missing token rolls back. *)
RegisterInvited(r) ==
  /\ req[r].pc = "register"
  /\ \/ /\ regToken[req[r].user] # "used"
        /\ account' = [account EXCEPT ![req[r].user].password = TRUE,
                                      ![req[r].user].verified = TRUE]
        /\ regToken' = [regToken EXCEPT ![req[r].user] = "used"]
     \/ regToken[req[r].user] = "used" /\ UNCHANGED <<account, regToken>>
  /\ Done(r)
  /\ UNCHANGED <<links, org, member, invite, begun, faults>>

(* Another address: the account goes back to PENDING, then the token is        *)
(* deleted, then a link is mailed that names the other address, with which    *)
(* verifyEmail finds no account.                                              *)
RegisterOther(r) ==
  /\ req[r].pc = "register_other"
  /\ account' = [account EXCEPT ![req[r].user].password = TRUE,
                                ![req[r].user].verified = FALSE]
  /\ Goto(r, "register_token")
  /\ UNCHANGED <<regToken, links, org, member, invite, begun, faults>>

RegisterToken(r) ==
  /\ req[r].pc = "register_token"
  /\ regToken' = [regToken EXCEPT ![req[r].user] = "used"]
  /\ Done(r)
  /\ UNCHANGED <<account, links, org, member, invite, begun, faults>>

VerifyEmail(u) ==
  /\ u \in links /\ ~account[u].verified
  /\ account' = [account EXCEPT ![u].verified = TRUE]
  /\ UNCHANGED <<regToken, links, org, member, invite, req, begun, faults>>

-----------------------------------------------------------------------------
(* admin.service: deletion cascades to memberships and invitations; an        *)
(* account is marked verified or unverified.                                  *)
DeleteOrganization(o) ==
  /\ "delete" \in AdminOps /\ org[o] = "live" /\ begun < MaxRequests
  /\ org' = [org EXCEPT ![o] = "deleted"]
  /\ member' = [p \in Orgs \X Users |->
                  IF p[1] = o THEN [member[p] EXCEPT !.role = "none"] ELSE member[p]]
  /\ invite' = [i \in Invites |-> IF invite[i].org = o THEN [NoInvite EXCEPT !.status = "deleted"]
                                    ELSE invite[i]]
  /\ begun' = begun + 1
  /\ UNCHANGED <<account, regToken, links, req, faults>>

UpdateUserStatus(u, verified) ==
  /\ "status" \in AdminOps /\ account[u].made /\ begun < MaxRequests
  /\ account' = [account EXCEPT ![u].verified = verified]
  /\ begun' = begun + 1
  /\ UNCHANGED <<regToken, links, org, member, invite, req, faults>>

(* Seven days pass for an invitation, one for a token. *)
InvitationExpires(i) ==
  /\ invite[i].status = "PENDING" /\ ~invite[i].expired
  /\ invite' = [invite EXCEPT ![i].expired = TRUE]
  /\ UNCHANGED <<account, regToken, links, org, member, req, begun, faults>>

TokenExpires(u) ==
  /\ regToken[u] = "live"
  /\ regToken' = [regToken EXCEPT ![u] = "expired"]
  /\ UNCHANGED <<account, links, org, member, invite, req, begun, faults>>

-----------------------------------------------------------------------------
CanStart(r) == req[r].pc = "idle" /\ begun < MaxRequests

Start(r) ==
  \/ \E u \in Users : StartCreate(r, u)
  \/ \E a, u \in Users, o \in Orgs :
       \/ \E role \in Invitable :
            \/ StartInvite(r, a, o, u, role)
            \/ \E p \in Orgs : StartSetRole(r, a, o, p, u, role)
       \/ \E p \in Orgs : StartRemove(r, a, o, p, u)
  \/ \E a \in Users, o \in Orgs, i \in Invites :
       StartRevoke(r, a, o, i) \/ StartResend(r, a, o, i)
  \/ \E i \in Invites, answer \in {"accept", "decline"} : StartRespond(r, i, answer)
  \/ \E u \in Users, pc \in {"register", "register_other"} : StartRegister(r, u, pc)

Step(r) ==
  \/ \E o \in Orgs : CreateOrg(r, o)
  \/ InviteMember(r) \/ InvitePending(r) \/ \E i \in Invites : InviteCreate(r, i)
  \/ RemoveRead(r) \/ RemoveWrite(r) \/ SetRoleRead(r) \/ SetRoleWrite(r)
  \/ RevokeRead(r) \/ RevokeWrite(r) \/ ResendRead(r) \/ ResendWrite(r)
  \/ Decline(r) \/ AcceptRead(r) \/ AcceptMark(r) \/ AcceptJoin(r)
  \/ AcceptNew(r) \/ AcceptGrant(r)
  \/ RegisterInvited(r) \/ RegisterOther(r) \/ RegisterToken(r)
  \/ Dies(r)

Environment ==
  \/ \E u \in Users : Register(u) \/ VerifyEmail(u) \/ TokenExpires(u)
  \/ \E u \in Users, verified \in BOOLEAN : UpdateUserStatus(u, verified)
  \/ \E o \in Orgs : DeleteOrganization(o)
  \/ \E i \in Invites : InvitationExpires(i)

Next == Environment \/ \E r \in Requests : (CanStart(r) /\ Start(r)) \/ Step(r)

Spec == Init /\ [][Next]_vars

-----------------------------------------------------------------------------
(* Properties.                                                               *)

(* A live organization has exactly one owner, whatever removals, role changes *)
(* and answers overlap (removeMember, updateMemberRole).                      *)
OneOwner ==
  \A o \in Orgs :
    org[o] = "live" => \E u \in Users : {v \in Users : RoleOf(o, v) = "OWNER"} = {u}

(* Rows and requests are well formed, and every live organization has its     *)
(* owner (org.service.ts).                                                    *)
Inv == TypeOK /\ OneOwner

(* createOrganization reads before it writes: a user owns at most as many     *)
(* organizations as requests can overlap, never one more.                     *)
OwnedBounded == \A u \in Users : Cardinality(Owned(u)) <= Cardinality(Requests)

(* inviteMemberToOrganization: pending invitations of one address pile up     *)
(* only while requests overlap.                                               *)
PendingBounded ==
  \A o \in Orgs, u \in Users : Cardinality(PendingFor(o, u)) <= Cardinality(Requests)

(* Checks that are made before the write they allow (createOrganization,      *)
(* inviteMemberToOrganization) are passed by overlapping requests only.       *)
CreationsBounded == OwnedBounded /\ PendingBounded

(* An ACCEPTED invitation has given its invitee an account and a membership,  *)
(* although the account is committed on its own (userRespondToInvitation).    *)
AcceptedHasJoined ==
  \A i \in Invites :
    invite[i].status = "ACCEPTED" =>
      account[invite[i].user].made /\ member[<<invite[i].org, invite[i].user>>].id > 0

(* An account without a password can still be registered: it has a token, or  *)
(* its answer is in progress, or a request died or met a deleted organization. *)
(* Stated for answers that do not overlap.                                     *)
PasswordlessHasToken ==
  \A u \in Users :
    account[u].made /\ ~account[u].password =>
      \/ regToken[u] \in {"live", "expired"}
      \/ \E r \in Requests : req[r].pc = "accept_grant" /\ req[r].user = u
      \/ faults > 0 \/ \E o \in Orgs : org[o] = "deleted"

(* A role change or a removal that was decided on a row does not hit the row   *)
(* of a later membership of the same user: such a row changes only by a        *)
(* request that read it.                                                       *)
LaterMembershipSpared ==
  [][\A r \in Requests :
       LET row == <<req[r].org, req[r].user>>
       IN  /\ req[r].pc \in {"remove_write", "role_write"} /\ req'[r].pc = "idle"
           /\ req[r].id < member[row].id
           => member'[row] = member[row]]_vars
=============================================================================
