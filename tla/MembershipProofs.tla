--------------------------- MODULE MembershipProofs ---------------------------
(***************************************************************************)
(* Machine-checked proofs about Membership, for all sets of users,         *)
(* organizations, invitations and requests, every seed and any number of   *)
(* requests and faults.                                                    *)
(***************************************************************************)
EXTENDS Membership, FiniteSetTheorems, TLAPS

-----------------------------------------------------------------------------
(* The shape of a request at each stage, and of an invitation that is stored. *)

RequestRecord ==
  [pc : Stages, actor : Users \cup {None}, org : Orgs \cup {None},
   user : Users \cup {None}, role : Roles \cup {"none"}, inv : Invites \cup {None}, id : Nat]

InviteRecord ==
  [status : Statuses, org : Orgs \cup {None}, user : Users \cup {None},
   role : Roles \cup {"none"}, expired : BOOLEAN]

Inviting == {"invite_member", "invite_pending", "invite_create"}
Changing == {"remove_read", "remove_write", "role_read", "role_write"}
Accepting == {"accept", "accept_mark", "accept_join", "accept_new", "accept_grant"}
Registering == {"register", "register_other", "register_token"}

Shaped(x) ==
  /\ x.pc = "create" => x.actor \in Users
  /\ x.pc \in Inviting \cup Changing \cup Accepting \cup {"decline"} =>
       x.org \in Orgs /\ x.user \in Users
  /\ x.pc \in Inviting \cup Accepting \cup {"role_read", "role_write"} => x.role \in Invitable
  /\ x.pc \in Accepting \cup {"decline", "revoke_read", "revoke_write",
                              "resend_read", "resend_write"} => x.inv \in Invites
  /\ x.pc \in Inviting \cup Changing \cup Registering \cup {"idle", "create"} => x.inv = None
  /\ x.pc \in Registering => x.user \in Users

TypeInv ==
  /\ TypeOK
  /\ \A r \in Requests : Shaped(req[r])
  /\ \A i \in Invites :
       Stored(i) => invite[i].org \in Orgs /\ invite[i].user \in Users /\ invite[i].role \in Invitable

To(r, pc) == [req[r] EXCEPT !.pc = pc]

(* What a request that has just begun has read. *)
Begun(x) ==
  /\ x.pc \in {"create", "invite_member", "remove_read", "role_read", "revoke_read",
               "resend_read", "accept", "decline", "register", "register_other"}
  /\ x.pc \in {"remove_read", "role_read"} => x.id = member[<<x.org, x.user>>].id
  /\ x.pc \in {"accept", "decline"} =>
       /\ invite[x.inv].status = "PENDING"
       /\ x.org = invite[x.inv].org /\ x.user = invite[x.inv].user
       /\ AnswersOverlap \/ Answering(x.user) = {}
  /\ x.pc = "create" => account[x.actor].verified /\ Owned(x.actor) = {}
  /\ x.pc \in {"register", "register_other"} => regToken[x.user] = "live"

LEMMA RequestType ==
  ASSUME TypeInv, NEW r \in Requests
  PROVE  req[r] \in RequestRecord /\ Shaped(req[r])
BY DEF TypeInv, TypeOK, RequestRecord

LEMMA IdleShaped == Idle \in RequestRecord /\ Shaped(Idle) /\ Idle.pc = "idle" /\ Idle.inv = None
BY DEF Idle, RequestRecord, Shaped, Stages, Inviting, Changing, Accepting, Registering

LEMMA StartMoves ==
  ASSUME TypeInv, NEW r \in Requests, Start(r)
  PROVE  /\ UNCHANGED <<account, regToken, links, org, member, invite, faults>>
         /\ begun' = begun + 1
         /\ \E x \in RequestRecord : /\ req' = [req EXCEPT ![r] = x]
                                     /\ Shaped(x) /\ Begun(x)
<1> DEFINE Moves == /\ UNCHANGED <<account, regToken, links, org, member, invite, faults>>
                    /\ begun' = begun + 1
                    /\ \E x \in RequestRecord : /\ req' = [req EXCEPT ![r] = x]
                                                /\ Shaped(x) /\ Begun(x)
<1> USE DEF Stages, Inviting, Changing, Accepting, Registering, Begin, Rows
<1>1. ASSUME NEW u \in Users, StartCreate(r, u) PROVE Moves
  <2> DEFINE x == [Idle EXCEPT !.pc = "create", !.actor = u]
  <2>1. x \in RequestRecord /\ Shaped(x) /\ x.pc = "create" /\ x.actor = u
    BY DEF Idle, RequestRecord, Shaped
  <2>2. /\ req' = [req EXCEPT ![r] = x] /\ account[u].verified /\ Owned(u) = {}
        /\ UNCHANGED <<account, regToken, links, org, member, invite, faults>>
        /\ begun' = begun + 1
    BY <1>1 DEF StartCreate
  <2> HIDE DEF x
  <2>3. Begun(x)
    BY <2>1, <2>2 DEF Begun
  <2> QED BY <2>1, <2>2, <2>3
<1>2. ASSUME NEW a \in Users, NEW u \in Users, NEW o \in Orgs, NEW role \in Invitable,
             StartInvite(r, a, o, u, role)
      PROVE  Moves
  <2> DEFINE x == [Idle EXCEPT !.pc = "invite_member", !.actor = a, !.org = o, !.user = u,
                               !.role = role]
  <2>1. x \in RequestRecord /\ Shaped(x) /\ x.pc = "invite_member"
    BY DEF Idle, RequestRecord, Shaped, Invitable, Roles
  <2>2. /\ req' = [req EXCEPT ![r] = x]
        /\ UNCHANGED <<account, regToken, links, org, member, invite, faults>>
        /\ begun' = begun + 1
    BY <1>2 DEF StartInvite
  <2> HIDE DEF x
  <2>3. Begun(x)
    BY <2>1 DEF Begun
  <2> QED BY <2>1, <2>2, <2>3
<1>3. ASSUME NEW a \in Users, NEW u \in Users, NEW o \in Orgs, NEW p \in Orgs, NEW role \in Invitable,
             StartSetRole(r, a, o, p, u, role)
      PROVE  Moves
  <2> DEFINE x == [Idle EXCEPT !.pc = "role_read", !.actor = a, !.org = p, !.user = u,
                               !.role = role, !.id = member[<<p, u>>].id]
  <2>1. /\ x \in RequestRecord /\ Shaped(x) /\ x.pc = "role_read"
        /\ x.id = member[<<p, u>>].id /\ x.org = p /\ x.user = u
    <3>1. member[<<p, u>>].id \in Nat
      BY DEF TypeInv, TypeOK
    <3> QED BY <3>1 DEF Idle, RequestRecord, Shaped, Invitable, Roles
  <2>2. /\ req' = [req EXCEPT ![r] = x]
        /\ UNCHANGED <<account, regToken, links, org, member, invite, faults>>
        /\ begun' = begun + 1
    BY <1>3 DEF StartSetRole
  <2> HIDE DEF x
  <2>3. Begun(x)
    BY <2>1 DEF Begun
  <2> QED BY <2>1, <2>2, <2>3
<1>4. ASSUME NEW a \in Users, NEW u \in Users, NEW o \in Orgs, NEW p \in Orgs,
             StartRemove(r, a, o, p, u)
      PROVE  Moves
  <2> DEFINE x == [Idle EXCEPT !.pc = "remove_read", !.actor = a, !.org = p, !.user = u,
                               !.role = RoleOf(o, a), !.id = member[<<p, u>>].id]
  <2>1. /\ x \in RequestRecord /\ Shaped(x) /\ x.pc = "remove_read"
        /\ x.id = member[<<p, u>>].id /\ x.org = p /\ x.user = u
    <3>1. member[<<p, u>>].id \in Nat /\ RoleOf(o, a) \in Roles \cup {"none"}
      BY DEF TypeInv, TypeOK, RoleOf
    <3> HIDE DEF Roles
    <3> QED BY <3>1 DEF Idle, RequestRecord, Shaped
  <2>2. /\ req' = [req EXCEPT ![r] = x]
        /\ UNCHANGED <<account, regToken, links, org, member, invite, faults>>
        /\ begun' = begun + 1
    BY <1>4 DEF StartRemove
  <2> HIDE DEF x
  <2>3. Begun(x)
    BY <2>1 DEF Begun
  <2> QED BY <2>1, <2>2, <2>3
<1>5. ASSUME NEW a \in Users, NEW o \in Orgs, NEW i \in Invites,
             StartRevoke(r, a, o, i) \/ StartResend(r, a, o, i)
      PROVE  Moves
  <2>1. PICK pc \in {"revoke_read", "resend_read"} :
          /\ req' = [req EXCEPT ![r] = [Idle EXCEPT !.pc = pc, !.actor = a, !.org = o, !.inv = i]]
          /\ UNCHANGED <<account, regToken, links, org, member, invite, faults>>
          /\ begun' = begun + 1
    BY <1>5 DEF StartRevoke, StartResend
  <2> DEFINE x == [Idle EXCEPT !.pc = pc, !.actor = a, !.org = o, !.inv = i]
  <2>2. x \in RequestRecord /\ Shaped(x) /\ x.pc = pc
    BY DEF Idle, RequestRecord, Shaped
  <2> HIDE DEF x
  <2>3. Begun(x)
    BY <2>2 DEF Begun
  <2> QED BY <2>1, <2>2, <2>3 DEF x
<1>6. ASSUME NEW i \in Invites, NEW answer \in {"accept", "decline"}, StartRespond(r, i, answer)
      PROVE  Moves
  <2> DEFINE x == [Idle EXCEPT !.pc = answer, !.inv = i, !.user = invite[i].user,
                               !.org = invite[i].org, !.role = invite[i].role]
  <2>1. /\ req' = [req EXCEPT ![r] = x] /\ invite[i].status = "PENDING"
        /\ AnswersOverlap \/ Answering(invite[i].user) = {}
        /\ UNCHANGED <<account, regToken, links, org, member, invite, faults>>
        /\ begun' = begun + 1
    BY <1>6 DEF StartRespond
  <2>2. invite[i].org \in Orgs /\ invite[i].user \in Users /\ invite[i].role \in Invitable
    BY <2>1 DEF TypeInv, Stored
  <2>3. /\ x \in RequestRecord /\ Shaped(x) /\ x.pc = answer
        /\ x.inv = i /\ x.user = invite[i].user /\ x.org = invite[i].org
    BY <2>2 DEF Idle, RequestRecord, Shaped, Invitable, Roles
  <2> HIDE DEF x
  <2>4. Begun(x)
    BY <2>1, <2>3 DEF Begun
  <2> QED BY <2>1, <2>3, <2>4
<1>7. ASSUME NEW u \in Users, NEW pc \in {"register", "register_other"}, StartRegister(r, u, pc)
      PROVE  Moves
  <2> DEFINE x == [Idle EXCEPT !.pc = pc, !.user = u]
  <2>1. x \in RequestRecord /\ Shaped(x) /\ x.pc = pc /\ x.user = u
    BY DEF Idle, RequestRecord, Shaped
  <2>2. /\ req' = [req EXCEPT ![r] = x] /\ regToken[u] = "live"
        /\ UNCHANGED <<account, regToken, links, org, member, invite, faults>>
        /\ begun' = begun + 1
    BY <1>7 DEF StartRegister
  <2> HIDE DEF x
  <2>3. Begun(x)
    BY <2>1, <2>2 DEF Begun
  <2> QED BY <2>1, <2>2, <2>3
<1> HIDE DEF Moves
<1>8. Moves
  BY <1>1, <1>2, <1>3, <1>4, <1>5, <1>6, <1>7 DEF Start
<1> QED BY <1>8 DEF Moves

Follows ==
  {<<"invite_member", "invite_pending">>, <<"invite_pending", "invite_create">>,
   <<"remove_read", "remove_write">>, <<"role_read", "role_write">>,
   <<"revoke_read", "revoke_write">>, <<"resend_read", "resend_write">>,
   <<"accept", "accept_new">>, <<"accept", "accept_mark">>, <<"accept", "accept_join">>,
   <<"accept_new", "accept_grant">>, <<"register_other", "register_token">>}

LEMMA GotoMoves ==
  ASSUME TypeInv, NEW r \in Requests, NEW pc, Goto(r, pc), <<req[r].pc, pc>> \in Follows
  PROVE  /\ req' = [req EXCEPT ![r] = To(r, pc)]
         /\ To(r, pc) \in RequestRecord /\ Shaped(To(r, pc)) /\ To(r, pc).pc = pc
         /\ To(r, pc).org = req[r].org /\ To(r, pc).user = req[r].user
         /\ To(r, pc).inv = req[r].inv /\ To(r, pc).id = req[r].id
         /\ To(r, pc).actor = req[r].actor
<1>1. req[r] \in RequestRecord /\ Shaped(req[r])
  BY RequestType
<1>2. req' = [req EXCEPT ![r] = To(r, pc)]
  BY DEF Goto, To
<1>3. pc \in Stages
  BY DEF Follows, Stages
<1>4. /\ To(r, pc) \in RequestRecord /\ To(r, pc).pc = pc
      /\ To(r, pc).org = req[r].org /\ To(r, pc).user = req[r].user
      /\ To(r, pc).inv = req[r].inv /\ To(r, pc).id = req[r].id
      /\ To(r, pc).actor = req[r].actor /\ To(r, pc).role = req[r].role
  BY <1>1, <1>3 DEF RequestRecord, To
<1> HIDE DEF To
<1>5. Shaped(To(r, pc))
  BY <1>1, <1>4 DEF Shaped, Follows, Inviting, Changing, Accepting, Registering
<1> QED BY <1>2, <1>4, <1>5

(* What a request has read when it goes on to a write. *)
Read(r, pc) ==
  /\ <<req[r].pc, pc>> \in Follows /\ pc \notin {"accept_grant", "register_token"}
  /\ pc \in {"remove_write", "role_write"} => SameRow(r) /\ RoleOf(req[r].org, req[r].user) # "OWNER"
  /\ pc = "invite_create" => PendingFor(req[r].org, req[r].user) = {}
  /\ pc \in {"accept_mark", "accept_join"} => account[req[r].user].made
  /\ pc = "accept_mark" => RoleOf(req[r].org, req[r].user) # "none"

ReadStep(r) ==
  \/ InviteMember(r) \/ InvitePending(r) \/ RemoveRead(r) \/ SetRoleRead(r)
  \/ RevokeRead(r) \/ ResendRead(r) \/ AcceptRead(r) \/ Dies(r)

LEMMA ReadMoves ==
  ASSUME NEW r \in Requests, ReadStep(r)
  PROVE  /\ UNCHANGED <<account, regToken, links, org, member, invite, begun>>
         /\ faults' \in {faults, faults + 1}
         /\ Done(r) \/ \E pc : Goto(r, pc) /\ Read(r, pc)
<1> DEFINE Moves == /\ UNCHANGED <<account, regToken, links, org, member, invite, begun>>
                    /\ faults' \in {faults, faults + 1}
                    /\ Done(r) \/ \E pc : Goto(r, pc) /\ Read(r, pc)
<1> USE DEF Rows
<1>1. CASE InviteMember(r)
  <2>1. Goto(r, "invite_pending") => Read(r, "invite_pending")
    BY <1>1 DEF InviteMember, Read, Follows
  <2> QED BY <1>1, <2>1 DEF InviteMember
<1>2. CASE InvitePending(r)
  <2>1. PendingFor(req[r].org, req[r].user) = {} => Read(r, "invite_create")
    BY <1>2 DEF InvitePending, Read, Follows
  <2> QED BY <1>2, <2>1 DEF InvitePending
<1>3. CASE RemoveRead(r)
  <2>1. Removable(r) => Read(r, "remove_write")
    BY <1>3 DEF RemoveRead, Removable, Read, Follows
  <2> QED BY <1>3, <2>1 DEF RemoveRead
<1>4. CASE SetRoleRead(r)
  <2>1. SameRow(r) /\ RoleOf(req[r].org, req[r].user) # "OWNER" => Read(r, "role_write")
    BY <1>4 DEF SetRoleRead, Read, Follows
  <2> QED BY <1>4, <2>1 DEF SetRoleRead
<1>5. CASE RevokeRead(r)
  <2>1. Read(r, "revoke_write")
    BY <1>5 DEF RevokeRead, Read, Follows
  <2> QED BY <1>5, <2>1 DEF RevokeRead
<1>6. CASE ResendRead(r)
  <2>1. Read(r, "resend_write")
    BY <1>6 DEF ResendRead, Read, Follows
  <2> QED BY <1>6, <2>1 DEF ResendRead
<1>7. CASE AcceptRead(r)
  <2>1. /\ Read(r, "accept_new")
        /\ account[req[r].user].made =>
             /\ RoleOf(req[r].org, req[r].user) # "none" => Read(r, "accept_mark")
             /\ Read(r, "accept_join")
    BY <1>7 DEF AcceptRead, Read, Follows
  <2> QED BY <1>7, <2>1 DEF AcceptRead
<1>8. CASE Dies(r)
  BY <1>8 DEF Dies
<1> QED BY <1>1, <1>2, <1>3, <1>4, <1>5, <1>6, <1>7, <1>8 DEF ReadStep

-----------------------------------------------------------------------------
(* Types. *)

LEMMA MovesTyped ==
  ASSUME TypeInv, NEW r \in Requests, NEW x \in RequestRecord, Shaped(x),
         req' = [req EXCEPT ![r] = x]
  PROVE  /\ req' \in [Requests -> RequestRecord]
         /\ \A s \in Requests : Shaped(req'[s])
         /\ \A s \in Requests : req'[s] = IF s = r THEN x ELSE req[s]
<1>1. req \in [Requests -> RequestRecord] /\ \A s \in Requests : Shaped(req[s])
  BY DEF TypeInv, TypeOK, RequestRecord
<1> QED BY <1>1

(* A step that moves a request, and the rows it may have written. *)
LEMMA RowsTyped ==
  ASSUME TypeInv, NEW r \in Requests, NEW x \in RequestRecord, Shaped(x),
         req' = [req EXCEPT ![r] = x],
         account' \in [Users -> [made : BOOLEAN, password : BOOLEAN, verified : BOOLEAN]],
         regToken' \in [Users -> {"none", "live", "expired", "used"}],
         links' \subseteq Users,
         org' \in [Orgs -> {"none", "live", "deleted"}],
         member' \in [Orgs \X Users -> [role : Roles \cup {"none"}, id : Nat]],
         invite' \in [Invites -> InviteRecord],
         \A i \in Invites : invite'[i].status \notin {"none", "deleted"} =>
           /\ invite'[i].org \in Orgs /\ invite'[i].user \in Users
           /\ invite'[i].role \in Invitable,
         begun' \in Nat, faults' \in Nat
  PROVE  TypeInv'
<1>1. /\ req' \in [Requests -> RequestRecord]
      /\ \A s \in Requests : Shaped(req'[s])
  BY MovesTyped
<1> QED BY <1>1 DEF TypeInv, TypeOK, RequestRecord, InviteRecord, Stored, Shaped

LEMMA RowTypes ==
  ASSUME TypeInv
  PROVE  /\ account \in [Users -> [made : BOOLEAN, password : BOOLEAN, verified : BOOLEAN]]
         /\ regToken \in [Users -> {"none", "live", "expired", "used"}]
         /\ links \subseteq Users
         /\ org \in [Orgs -> {"none", "live", "deleted"}]
         /\ member \in [Orgs \X Users -> [role : Roles \cup {"none"}, id : Nat]]
         /\ invite \in [Invites -> InviteRecord]
         /\ \A i \in Invites : invite[i].status \notin {"none", "deleted"} =>
              /\ invite[i].org \in Orgs /\ invite[i].user \in Users
              /\ invite[i].role \in Invitable
         /\ begun \in Nat /\ faults \in Nat /\ begun + 1 \in Nat /\ faults + 1 \in Nat
BY DEF TypeInv, TypeOK, InviteRecord, Stored

LEMMA JoinedTyped ==
  ASSUME TypeInv, NEW o \in Orgs, NEW u \in Users, NEW role \in Roles
  PROVE  /\ Joined(o, u, role) \in [Orgs \X Users -> [role : Roles \cup {"none"}, id : Nat]]
         /\ \A p \in Orgs \X Users :
              Joined(o, u, role)[p] = IF p = <<o, u>>
                                      THEN [role |-> role, id |-> member[p].id + 1] ELSE member[p]
<1>1. member \in [Orgs \X Users -> [role : Roles \cup {"none"}, id : Nat]]
  BY RowTypes
<1>2. <<o, u>> \in Orgs \X Users /\ member[<<o, u>>].id + 1 \in Nat
  BY <1>1
<1> HIDE DEF Roles
<1> QED BY <1>1, <1>2 DEF Joined

LEMMA JoinedRows ==
  ASSUME TypeInv, NEW o \in Orgs, NEW u \in Users, NEW role \in Roles,
         member' = Joined(o, u, role)
  PROVE  /\ \A p \in Orgs \X Users : member[p].id \in Nat /\ (p # <<o, u>> => member'[p] = member[p])
         /\ member'[<<o, u>>].role = role
         /\ member'[<<o, u>>].id = member[<<o, u>>].id + 1
<1>1. member \in [Orgs \X Users -> [role : Roles \cup {"none"}, id : Nat]]
  BY RowTypes
<1> DEFINE p == <<o, u>>
           row == [role |-> role, id |-> member[<<o, u>>].id + 1]
<1>2. p \in Orgs \X Users /\ row.role = role /\ row.id = member[p].id + 1
  OBVIOUS
<1>3. member' = [member EXCEPT ![p] = row]
  BY DEF Joined
<1> HIDE DEF Roles, p, row
<1>4. /\ member'[p] = row
      /\ \A q \in Orgs \X Users : member[q].id \in Nat /\ (q # p => member'[q] = member[q])
  BY <1>1, <1>2, <1>3
<1> QED BY <1>2, <1>4 DEF p

LEMMA InviteChanges ==
  ASSUME TypeInv, NEW i \in Invites, NEW new \in InviteRecord,
         invite' = [invite EXCEPT ![i] = new],
         new.status \notin {"none", "deleted"} =>
           new.org \in Orgs /\ new.user \in Users /\ new.role \in Invitable
  PROVE  /\ invite' \in [Invites -> InviteRecord]
         /\ \A j \in Invites : invite'[j] = IF j = i THEN new ELSE invite[j]
         /\ \A j \in Invites : invite'[j].status \notin {"none", "deleted"} =>
              /\ invite'[j].org \in Orgs /\ invite'[j].user \in Users
              /\ invite'[j].role \in Invitable
<1>1. /\ invite \in [Invites -> InviteRecord]
      /\ \A j \in Invites : invite[j].status \notin {"none", "deleted"} =>
              /\ invite[j].org \in Orgs /\ invite[j].user \in Users
              /\ invite[j].role \in Invitable
  BY RowTypes
<1>2. \A j \in Invites : invite'[j] = IF j = i THEN new ELSE invite[j]
  BY <1>1
<1> QED BY <1>1, <1>2

LEMMA StatusChanges ==
  ASSUME TypeInv, NEW i \in Invites,
         \/ invite' = invite
         \/ \E s \in {"EXPIRED", "DECLINED", "ACCEPTED"} :
              Stored(i) /\ invite' = [invite EXCEPT ![i].status = s]
         \/ Stored(i) /\ invite' = [invite EXCEPT ![i].expired = FALSE]
         \/ \E s \in BOOLEAN : Stored(i) /\ invite' = [invite EXCEPT ![i].expired = s]
  PROVE  /\ invite' \in [Invites -> InviteRecord]
         /\ \A j \in Invites : /\ j # i => invite'[j] = invite[j]
                               /\ invite'[j].org = invite[j].org
                               /\ invite'[j].user = invite[j].user
                               /\ Stored(j) <=> invite'[j].status \notin {"none", "deleted"}
                               /\ invite'[j].status = "PENDING" => invite[j].status = "PENDING"
         /\ \A j \in Invites : invite'[j].status \notin {"none", "deleted"} =>
              /\ invite'[j].org \in Orgs /\ invite'[j].user \in Users
              /\ invite'[j].role \in Invitable
<1>1. /\ invite \in [Invites -> InviteRecord] /\ invite[i] \in InviteRecord
      /\ \A j \in Invites : invite[j].status \notin {"none", "deleted"} =>
              /\ invite[j].org \in Orgs /\ invite[j].user \in Users
              /\ invite[j].role \in Invitable
  BY RowTypes
<1>2. CASE invite' = invite
  BY <1>1, <1>2 DEF Stored
<1>3. ASSUME NEW s \in {"EXPIRED", "DECLINED", "ACCEPTED"}, Stored(i),
             invite' = [invite EXCEPT ![i].status = s]
      PROVE  invite'[i] \in InviteRecord /\ invite'[i] = [invite[i] EXCEPT !.status = s]
             /\ \A j \in Invites : j # i => invite'[j] = invite[j]
             /\ invite' \in [Invites -> InviteRecord]
  <2>1. [invite[i] EXCEPT !.status = s] \in InviteRecord
    BY <1>1 DEF InviteRecord, Statuses
  <2>2. invite' = [invite EXCEPT ![i] = [invite[i] EXCEPT !.status = s]]
    BY <1>3
  <2> QED BY <1>1, <2>1, <2>2
<1>4. ASSUME NEW s \in BOOLEAN, Stored(i),
             invite' = [invite EXCEPT ![i].expired = s]
      PROVE  invite'[i] \in InviteRecord /\ invite'[i] = [invite[i] EXCEPT !.expired = s]
             /\ \A j \in Invites : j # i => invite'[j] = invite[j]
             /\ invite' \in [Invites -> InviteRecord]
  <2>1. [invite[i] EXCEPT !.expired = s] \in InviteRecord
    BY <1>1 DEF InviteRecord
  <2>2. invite' = [invite EXCEPT ![i] = [invite[i] EXCEPT !.expired = s]]
    BY <1>4
  <2> QED BY <1>1, <2>1, <2>2
<1>5. /\ invite' \in [Invites -> InviteRecord]
      /\ \A j \in Invites : j # i => invite'[j] = invite[j]
      /\ \/ invite' = invite
         \/ /\ Stored(i)
            /\ \/ \E s \in {"EXPIRED", "DECLINED", "ACCEPTED"} :
                    invite'[i] = [invite[i] EXCEPT !.status = s]
               \/ \E s \in BOOLEAN : invite'[i] = [invite[i] EXCEPT !.expired = s]
  BY <1>1, <1>2, <1>3, <1>4
<1>6. /\ invite'[i].org = invite[i].org /\ invite'[i].user = invite[i].user
      /\ invite'[i].role = invite[i].role
      /\ Stored(i) <=> invite'[i].status \notin {"none", "deleted"}
      /\ invite'[i].status = "PENDING" => invite[i].status = "PENDING"
  BY <1>1, <1>5 DEF InviteRecord, Stored
<1>7. /\ \A j \in Invites : /\ j # i => invite'[j] = invite[j]
                            /\ invite'[j].org = invite[j].org
                            /\ invite'[j].user = invite[j].user
                            /\ invite'[j].role = invite[j].role
                            /\ Stored(j) <=> invite'[j].status \notin {"none", "deleted"}
                            /\ invite'[j].status = "PENDING" => invite[j].status = "PENDING"
  BY <1>5, <1>6 DEF Stored
<1>8. \A j \in Invites : invite'[j].status \notin {"none", "deleted"} =>
              /\ invite'[j].org \in Orgs /\ invite'[j].user \in Users
              /\ invite'[j].role \in Invitable
  BY <1>1, <1>7 DEF Stored
<1> QED BY <1>5, <1>7, <1>8

(* A member row is deleted, or its role is replaced. *)
LEMMA RoleChanges ==
  ASSUME TypeInv, NEW p \in Orgs \X Users, NEW role \in Roles \cup {"none"},
         member' = [member EXCEPT ![p].role = role]
  PROVE  /\ member' \in [Orgs \X Users -> [role : Roles \cup {"none"}, id : Nat]]
         /\ \A q \in Orgs \X Users :
              /\ q # p => member'[q] = member[q]
              /\ member'[q].id = member[q].id
         /\ member'[p].role = role
<1> HIDE DEF Roles
<1>1. member \in [Orgs \X Users -> [role : Roles \cup {"none"}, id : Nat]]
  BY RowTypes
<1>2. member' = [member EXCEPT ![p] = [member[p] EXCEPT !.role = role]]
  OBVIOUS
<1>3. /\ [member[p] EXCEPT !.role = role] \in [role : Roles \cup {"none"}, id : Nat]
      /\ [member[p] EXCEPT !.role = role].id = member[p].id
      /\ [member[p] EXCEPT !.role = role].role = role
  BY <1>1
<1> QED BY <1>1, <1>2, <1>3

InviteStep(r) ==
  \/ RevokeWrite(r) \/ ResendWrite(r) \/ Decline(r) \/ AcceptMark(r)

JoinStep(r) == AcceptJoin(r) \/ AcceptGrant(r)

(* The writes of answers and of decisions on invitations. *)
LEMMA InviteStepMoves ==
  ASSUME TypeInv, NEW r \in Requests, InviteStep(r)
  PROVE  /\ req[r].inv \in Invites /\ Done(r)
         /\ UNCHANGED <<account, regToken, links, org, member, begun, faults>>
         /\ \/ invite' = invite
            \/ \E s \in {"EXPIRED", "DECLINED", "ACCEPTED"} :
                 /\ Stored(req[r].inv) /\ invite' = [invite EXCEPT ![req[r].inv].status = s]
                 /\ s = "ACCEPTED" => req[r].pc = "accept_mark"
            \/ Stored(req[r].inv) /\ invite' = [invite EXCEPT ![req[r].inv].expired = FALSE]
<1>1. Shaped(req[r])
  BY RequestType
<1>2. CASE RevokeWrite(r)
  BY <1>1, <1>2 DEF RevokeWrite, Shaped
<1>3. CASE ResendWrite(r)
  BY <1>1, <1>3 DEF ResendWrite, Shaped
<1>4. CASE Decline(r)
  BY <1>1, <1>4 DEF Decline, Shaped
<1>5. CASE AcceptMark(r)
  BY <1>1, <1>5 DEF AcceptMark, Accepted, Shaped, Accepting
<1> QED BY <1>2, <1>3, <1>4, <1>5 DEF InviteStep

LEMMA JoinStepMoves ==
  ASSUME TypeInv, NEW r \in Requests, JoinStep(r)
  PROVE  /\ req[r].pc \in {"accept_join", "accept_grant"}
         /\ req[r].org \in Orgs /\ req[r].user \in Users /\ req[r].inv \in Invites
         /\ req[r].role \in Invitable /\ req[r].role \in Roles
         /\ Done(r) /\ UNCHANGED <<account, links, org, begun, faults>>
         /\ \/ /\ CanJoin(r) /\ member' = Joined(req[r].org, req[r].user, req[r].role)
               /\ invite' = Accepted(req[r].inv)
               /\ regToken' = IF req[r].pc = "accept_grant"
                              THEN [regToken EXCEPT ![req[r].user] = "live"] ELSE regToken
            \/ ~CanJoin(r) /\ UNCHANGED <<member, invite, regToken>>
<1>1. Shaped(req[r])
  BY RequestType
<1>2. CASE AcceptJoin(r)
  BY <1>1, <1>2 DEF AcceptJoin, Shaped, Accepting, Invitable, Roles
<1>3. CASE AcceptGrant(r)
  BY <1>1, <1>3 DEF AcceptGrant, Shaped, Accepting, Invitable, Roles
<1> QED BY <1>2, <1>3 DEF JoinStep

(* The columns of an account are written; no other account changes. *)
LEMMA AccountWritten ==
  ASSUME account \in [Users -> [made : BOOLEAN, password : BOOLEAN, verified : BOOLEAN]],
         NEW u \in Users, NEW b \in BOOLEAN,
         account' = [account EXCEPT ![u].password = TRUE, ![u].verified = b]
  PROVE  /\ account' \in [Users -> [made : BOOLEAN, password : BOOLEAN, verified : BOOLEAN]]
         /\ \A v \in Users : v # u => account'[v] = account[v]
         /\ account'[u].made = account[u].made
         /\ account'[u].password /\ account'[u].verified = b
<1> DEFINE R == [made : BOOLEAN, password : BOOLEAN, verified : BOOLEAN]
           row == [account[u] EXCEPT !.password = TRUE, !.verified = b]
<1>1. account[u] \in R
  OBVIOUS
<1>2. /\ row \in R
      /\ row.made = account[u].made /\ row.password /\ row.verified = b
  BY <1>1
<1>3. account' = [account EXCEPT ![u] = row]
  OBVIOUS
<1> HIDE DEF row
<1> QED BY <1>2, <1>3

LEMMA AccountMade ==
  ASSUME account \in [Users -> [made : BOOLEAN, password : BOOLEAN, verified : BOOLEAN]],
         NEW u \in Users,
         account' = [account EXCEPT ![u].made = TRUE]
  PROVE  /\ account' \in [Users -> [made : BOOLEAN, password : BOOLEAN, verified : BOOLEAN]]
         /\ \A v \in Users : v # u => account'[v] = account[v]
         /\ account'[u].made
         /\ account'[u].password = account[u].password /\ account'[u].verified = account[u].verified
<1> DEFINE R == [made : BOOLEAN, password : BOOLEAN, verified : BOOLEAN]
           row == [account[u] EXCEPT !.made = TRUE]
<1>1. account[u] \in R
  OBVIOUS
<1>2. /\ row \in R
      /\ row.made /\ row.password = account[u].password /\ row.verified = account[u].verified
  BY <1>1
<1>3. account' = [account EXCEPT ![u] = row]
  OBVIOUS
<1> HIDE DEF row
<1> QED BY <1>2, <1>3

LEMMA AccountMarked ==
  ASSUME account \in [Users -> [made : BOOLEAN, password : BOOLEAN, verified : BOOLEAN]],
         NEW u \in Users, NEW b \in BOOLEAN,
         account' = [account EXCEPT ![u].verified = b]
  PROVE  /\ account' \in [Users -> [made : BOOLEAN, password : BOOLEAN, verified : BOOLEAN]]
         /\ \A v \in Users : v # u => account'[v] = account[v]
         /\ account'[u].made = account[u].made
         /\ account'[u].password = account[u].password /\ account'[u].verified = b
<1> DEFINE R == [made : BOOLEAN, password : BOOLEAN, verified : BOOLEAN]
           row == [account[u] EXCEPT !.verified = b]
<1>1. account[u] \in R
  OBVIOUS
<1>2. /\ row \in R
      /\ row.made = account[u].made /\ row.password = account[u].password /\ row.verified = b
  BY <1>1
<1>3. account' = [account EXCEPT ![u] = row]
  OBVIOUS
<1> HIDE DEF row
<1> QED BY <1>2, <1>3

LEMMA StepTyped ==
  ASSUME TypeInv, NEW r \in Requests, Step(r)
  PROVE  TypeInv'
<1>1. /\ account \in [Users -> [made : BOOLEAN, password : BOOLEAN, verified : BOOLEAN]]
      /\ regToken \in [Users -> {"none", "live", "expired", "used"}]
      /\ links \subseteq Users
      /\ org \in [Orgs -> {"none", "live", "deleted"}]
      /\ member \in [Orgs \X Users -> [role : Roles \cup {"none"}, id : Nat]]
      /\ invite \in [Invites -> InviteRecord]
      /\ \A i \in Invites : invite[i].status \notin {"none", "deleted"} =>
              /\ invite[i].org \in Orgs /\ invite[i].user \in Users
              /\ invite[i].role \in Invitable
      /\ begun \in Nat /\ faults \in Nat /\ begun + 1 \in Nat /\ faults + 1 \in Nat
  BY RowTypes
<1>2. req[r] \in RequestRecord /\ Shaped(req[r])
  BY RequestType
<1>3. ASSUME Done(r)
      PROVE  \E x \in RequestRecord : Shaped(x) /\ req' = [req EXCEPT ![r] = x]
  BY <1>3, IdleShaped DEF Done
<1>4. ASSUME NEW pc, Goto(r, pc), <<req[r].pc, pc>> \in Follows
      PROVE  \E x \in RequestRecord : Shaped(x) /\ req' = [req EXCEPT ![r] = x]
  BY <1>4, GotoMoves
<1> HIDE DEF Roles
<1>5. CASE ReadStep(r)
  <2>1. /\ UNCHANGED <<account, regToken, links, org, member, invite, begun>>
        /\ faults' \in {faults, faults + 1}
        /\ Done(r) \/ \E pc : Goto(r, pc) /\ <<req[r].pc, pc>> \in Follows
    BY <1>5, ReadMoves DEF Read
  <2> QED BY <1>1, <1>3, <1>4, <2>1, RowsTyped
<1>6. CASE InviteStep(r)
  <2>1. /\ req[r].inv \in Invites /\ Done(r)
        /\ UNCHANGED <<account, regToken, links, org, member, begun, faults>>
        /\ \/ invite' = invite
           \/ \E s \in {"EXPIRED", "DECLINED", "ACCEPTED"} :
                Stored(req[r].inv) /\ invite' = [invite EXCEPT ![req[r].inv].status = s]
           \/ Stored(req[r].inv) /\ invite' = [invite EXCEPT ![req[r].inv].expired = FALSE]
    BY <1>6, InviteStepMoves
  <2>2. /\ invite' \in [Invites -> InviteRecord]
        /\ \A j \in Invites : invite'[j].status \notin {"none", "deleted"} =>
              /\ invite'[j].org \in Orgs /\ invite'[j].user \in Users
              /\ invite'[j].role \in Invitable
    BY <2>1, StatusChanges
  <2> QED BY <1>1, <1>3, <2>1, <2>2, RowsTyped
<1>7. CASE JoinStep(r)
  <2>1. /\ req[r].org \in Orgs /\ req[r].user \in Users /\ req[r].inv \in Invites
        /\ req[r].role \in Roles
        /\ Done(r) /\ UNCHANGED <<account, links, org, begun, faults>>
        /\ \/ /\ CanJoin(r) /\ member' = Joined(req[r].org, req[r].user, req[r].role)
              /\ invite' = Accepted(req[r].inv)
              /\ regToken' = IF req[r].pc = "accept_grant"
                             THEN [regToken EXCEPT ![req[r].user] = "live"] ELSE regToken
           \/ ~CanJoin(r) /\ UNCHANGED <<member, invite, regToken>>
    BY <1>7, JoinStepMoves
  <2>2. member' \in [Orgs \X Users -> [role : Roles \cup {"none"}, id : Nat]]
    BY <1>1, <2>1, JoinedTyped
  <2>3. regToken' \in [Users -> {"none", "live", "expired", "used"}]
    BY <1>1, <2>1
  <2>4. \/ invite' = invite
        \/ Stored(req[r].inv) /\ invite' = [invite EXCEPT ![req[r].inv].status = "ACCEPTED"]
    BY <2>1 DEF CanJoin, Accepted
  <2>5. /\ invite' \in [Invites -> InviteRecord]
        /\ \A j \in Invites : invite'[j].status \notin {"none", "deleted"} =>
              /\ invite'[j].org \in Orgs /\ invite'[j].user \in Users
              /\ invite'[j].role \in Invitable
    BY <2>1, <2>4, StatusChanges
  <2> QED BY <1>1, <1>3, <2>1, <2>2, <2>3, <2>5, RowsTyped
<1>8. ASSUME NEW o \in Orgs, CreateOrg(r, o) PROVE TypeInv'
  <2>1. /\ req[r].actor \in Users /\ Done(r)
        /\ org' = [org EXCEPT ![o] = "live"] /\ member' = Joined(o, req[r].actor, "OWNER")
        /\ UNCHANGED <<account, regToken, links, invite, begun, faults>>
    BY <1>2, <1>8 DEF CreateOrg, Shaped
  <2>2. member' \in [Orgs \X Users -> [role : Roles \cup {"none"}, id : Nat]]
    <3>1. "OWNER" \in Roles
      BY DEF Roles
    <3> QED BY <2>1, <3>1, JoinedTyped
  <2> QED BY <1>1, <1>3, <2>1, <2>2, RowsTyped
<1>9. ASSUME NEW i \in Invites, InviteCreate(r, i) PROVE TypeInv'
  <2> DEFINE new == [status |-> "PENDING", org |-> req[r].org, user |-> req[r].user,
                     role |-> req[r].role, expired |-> FALSE]
  <2>1. /\ Done(r) /\ invite' \in {invite, [invite EXCEPT ![i] = new]}
        /\ UNCHANGED <<account, regToken, links, org, member, begun, faults>>
    BY <1>9 DEF InviteCreate
  <2>2. /\ new \in InviteRecord
        /\ new.org \in Orgs /\ new.user \in Users /\ new.role \in Invitable
    BY <1>2, <1>9 DEF InviteCreate, Shaped, Inviting, InviteRecord, Statuses, Invitable, Roles
  <2> HIDE DEF new
  <2>3. /\ invite' \in [Invites -> InviteRecord]
        /\ \A j \in Invites : invite'[j].status \notin {"none", "deleted"} =>
              /\ invite'[j].org \in Orgs /\ invite'[j].user \in Users
              /\ invite'[j].role \in Invitable
    BY <1>1, <2>1, <2>2, InviteChanges
  <2> QED BY <1>1, <1>3, <2>1, <2>3, RowsTyped
<1>10. CASE RemoveWrite(r) \/ SetRoleWrite(r)
  <2> DEFINE p == <<req[r].org, req[r].user>>
  <2>1. /\ p \in Orgs \X Users /\ Done(r)
        /\ UNCHANGED <<account, regToken, links, org, invite, begun, faults>>
        /\ \/ member' = member
           \/ \E role \in Roles \cup {"none"} : member' = [member EXCEPT ![p].role = role]
    <3>1. CASE RemoveWrite(r)
      BY <1>2, <3>1 DEF RemoveWrite, Shaped, Changing
    <3>2. CASE SetRoleWrite(r)
      <4>1. req[r].role \in Roles
        BY <1>2, <3>2 DEF SetRoleWrite, Shaped, Invitable, Roles
      <4> QED BY <1>2, <3>2, <4>1 DEF SetRoleWrite, Shaped, Changing
    <3> QED BY <1>10, <3>1, <3>2
  <2> HIDE DEF p
  <2>2. member' \in [Orgs \X Users -> [role : Roles \cup {"none"}, id : Nat]]
    BY <1>1, <2>1, RoleChanges
  <2> QED BY <1>1, <1>3, <2>1, <2>2, RowsTyped
<1>11. CASE AcceptNew(r)
  <2>1. /\ req[r].pc = "accept_new" /\ req[r].user \in Users
        /\ account' \in {account, [account EXCEPT ![req[r].user].made = TRUE]}
        /\ Goto(r, "accept_grant") \/ Done(r)
        /\ UNCHANGED <<regToken, links, org, member, invite, begun, faults>>
    BY <1>2, <1>11 DEF AcceptNew, Shaped, Accepting
  <2>2. account' \in [Users -> [made : BOOLEAN, password : BOOLEAN, verified : BOOLEAN]]
    <3>1. CASE account' = account
      BY <1>1, <3>1
    <3>2. CASE account' = [account EXCEPT ![req[r].user].made = TRUE]
      BY <1>1, <2>1, <3>2, AccountMade
    <3> QED BY <2>1, <3>1, <3>2
  <2>3. <<req[r].pc, "accept_grant">> \in Follows
    BY <2>1 DEF Follows
  <2>4. \E x \in RequestRecord : Shaped(x) /\ req' = [req EXCEPT ![r] = x]
    BY <1>3, <1>4, <2>1, <2>3
  <2> QED BY <1>1, <2>1, <2>2, <2>4, RowsTyped
<1>12. CASE RegisterInvited(r)
  <2>1. /\ req[r].user \in Users /\ Done(r)
        /\ account' \in {account, [account EXCEPT ![req[r].user].password = TRUE,
                                                  ![req[r].user].verified = TRUE]}
        /\ regToken' \in {regToken, [regToken EXCEPT ![req[r].user] = "used"]}
        /\ UNCHANGED <<links, org, member, invite, begun, faults>>
    BY <1>2, <1>12 DEF RegisterInvited, Shaped, Registering
  <2>2. account' \in [Users -> [made : BOOLEAN, password : BOOLEAN, verified : BOOLEAN]]
    <3>1. CASE account' = account
      BY <1>1, <3>1
    <3>2. CASE account' = [account EXCEPT ![req[r].user].password = TRUE,
                                          ![req[r].user].verified = TRUE]
      BY <1>1, <2>1, <3>2, AccountWritten
    <3> QED BY <2>1, <3>1, <3>2
  <2>3. regToken' \in [Users -> {"none", "live", "expired", "used"}]
    BY <1>1, <2>1
  <2> QED BY <1>1, <1>3, <2>1, <2>2, <2>3, RowsTyped
<1>13. CASE RegisterOther(r)
  <2>1. /\ req[r].pc = "register_other" /\ req[r].user \in Users
        /\ account' = [account EXCEPT ![req[r].user].password = TRUE,
                                      ![req[r].user].verified = FALSE]
        /\ Goto(r, "register_token")
        /\ UNCHANGED <<regToken, links, org, member, invite, begun, faults>>
    BY <1>2, <1>13 DEF RegisterOther, Shaped, Registering
  <2>2. account' \in [Users -> [made : BOOLEAN, password : BOOLEAN, verified : BOOLEAN]]
    BY <1>1, <2>1, AccountWritten
  <2>3. <<req[r].pc, "register_token">> \in Follows
    BY <2>1 DEF Follows
  <2>4. \E x \in RequestRecord : Shaped(x) /\ req' = [req EXCEPT ![r] = x]
    BY <1>4, <2>1, <2>3
  <2> QED BY <1>1, <2>1, <2>2, <2>4, RowsTyped
<1>14. CASE RegisterToken(r)
  <2>1. /\ req[r].user \in Users /\ Done(r)
        /\ regToken' = [regToken EXCEPT ![req[r].user] = "used"]
        /\ UNCHANGED <<account, links, org, member, invite, begun, faults>>
    BY <1>2, <1>14 DEF RegisterToken, Shaped, Registering
  <2>2. regToken' \in [Users -> {"none", "live", "expired", "used"}]
    BY <1>1, <2>1
  <2> QED BY <1>1, <1>3, <2>1, <2>2, RowsTyped
<1> QED BY <1>5, <1>6, <1>7, <1>8, <1>9, <1>10, <1>11, <1>12, <1>13, <1>14
        DEF Step, ReadStep, InviteStep, JoinStep

LEMMA EnvironmentTyped ==
  ASSUME TypeInv, Environment
  PROVE  TypeInv'
<1>1. /\ account \in [Users -> [made : BOOLEAN, password : BOOLEAN, verified : BOOLEAN]]
      /\ regToken \in [Users -> {"none", "live", "expired", "used"}]
      /\ links \subseteq Users
      /\ org \in [Orgs -> {"none", "live", "deleted"}]
      /\ member \in [Orgs \X Users -> [role : Roles \cup {"none"}, id : Nat]]
      /\ invite \in [Invites -> InviteRecord]
      /\ \A i \in Invites : invite[i].status \notin {"none", "deleted"} =>
              /\ invite[i].org \in Orgs /\ invite[i].user \in Users
              /\ invite[i].role \in Invitable
      /\ begun \in Nat /\ faults \in Nat /\ begun + 1 \in Nat /\ faults + 1 \in Nat
  BY RowTypes
<1>2. ASSUME req' = req,
             account' \in [Users -> [made : BOOLEAN, password : BOOLEAN, verified : BOOLEAN]],
             regToken' \in [Users -> {"none", "live", "expired", "used"}],
             links' \subseteq Users,
             org' \in [Orgs -> {"none", "live", "deleted"}],
             member' \in [Orgs \X Users -> [role : Roles \cup {"none"}, id : Nat]],
             invite' \in [Invites -> InviteRecord],
             \A i \in Invites : invite'[i].status \notin {"none", "deleted"} =>
               /\ invite'[i].org \in Orgs /\ invite'[i].user \in Users
               /\ invite'[i].role \in Invitable,
             begun' \in {begun, begun + 1}, faults' = faults
      PROVE  TypeInv'
  <2>1. /\ req' \in [Requests -> RequestRecord] /\ begun' \in Nat /\ faults' \in Nat
        /\ \A s \in Requests : Shaped(req'[s])
    BY <1>1, <1>2 DEF TypeInv, TypeOK, RequestRecord
  <2> QED BY <1>2, <2>1 DEF TypeInv, TypeOK, RequestRecord, InviteRecord, Stored, Shaped
<1> HIDE DEF Roles
<1>3. ASSUME NEW u \in Users, Register(u) PROVE TypeInv'
  <2> DEFINE row == [made |-> TRUE, password |-> TRUE, verified |-> FALSE]
  <2>1. /\ account' = [account EXCEPT ![u] = row]
        /\ links' = links \cup {u} /\ begun' = begun + 1
        /\ UNCHANGED <<regToken, org, member, invite, req, faults>>
    BY <1>3 DEF Register
  <2>2. row \in [made : BOOLEAN, password : BOOLEAN, verified : BOOLEAN]
    OBVIOUS
  <2> HIDE DEF row
  <2>3. account' \in [Users -> [made : BOOLEAN, password : BOOLEAN, verified : BOOLEAN]]
    BY <1>1, <2>1, <2>2
  <2> QED BY <1>1, <1>2, <2>1, <2>3
<1>4. ASSUME NEW u \in Users, NEW b \in BOOLEAN,
             account' = [account EXCEPT ![u].verified = b],
             begun' \in {begun, begun + 1},
             UNCHANGED <<regToken, links, org, member, invite, req, faults>>
      PROVE  TypeInv'
  <2>1. [account[u] EXCEPT !.verified = b] \in [made : BOOLEAN, password : BOOLEAN, verified : BOOLEAN]
    BY <1>1
  <2>2. account' = [account EXCEPT ![u] = [account[u] EXCEPT !.verified = b]]
    BY <1>4
  <2>3. account' \in [Users -> [made : BOOLEAN, password : BOOLEAN, verified : BOOLEAN]]
    BY <1>1, <2>1, <2>2
  <2> QED BY <1>1, <1>2, <1>4, <2>3
<1>5. ASSUME NEW u \in Users, VerifyEmail(u) PROVE TypeInv'
  BY <1>4, <1>5 DEF VerifyEmail
<1>6. ASSUME NEW u \in Users, NEW b \in BOOLEAN, UpdateUserStatus(u, b) PROVE TypeInv'
  BY <1>4, <1>6 DEF UpdateUserStatus
<1>7. ASSUME NEW u \in Users, TokenExpires(u) PROVE TypeInv'
  <2>1. regToken' \in [Users -> {"none", "live", "expired", "used"}]
    BY <1>1, <1>7 DEF TokenExpires
  <2> QED BY <1>1, <1>2, <1>7, <2>1 DEF TokenExpires
<1>8. ASSUME NEW i \in Invites, InvitationExpires(i) PROVE TypeInv'
  <2>1. Stored(i) /\ invite' = [invite EXCEPT ![i].expired = TRUE]
    BY <1>8 DEF InvitationExpires, Stored
  <2>2. /\ invite' \in [Invites -> InviteRecord]
        /\ \A j \in Invites : invite'[j].status \notin {"none", "deleted"} =>
              /\ invite'[j].org \in Orgs /\ invite'[j].user \in Users
              /\ invite'[j].role \in Invitable
    BY <2>1, StatusChanges
  <2> QED BY <1>1, <1>2, <1>8, <2>2 DEF InvitationExpires
<1>9. ASSUME NEW o \in Orgs, DeleteOrganization(o) PROVE TypeInv'
  <2>1. /\ org' \in [Orgs -> {"none", "live", "deleted"}] /\ begun' = begun + 1
        /\ UNCHANGED <<account, regToken, links, req, faults>>
    BY <1>1, <1>9 DEF DeleteOrganization
  <2>2. member' \in [Orgs \X Users -> [role : Roles \cup {"none"}, id : Nat]]
    <3>1. \A p \in Orgs \X Users :
            [member[p] EXCEPT !.role = "none"] \in [role : Roles \cup {"none"}, id : Nat]
      BY <1>1
    <3> QED BY <1>1, <1>9, <3>1 DEF DeleteOrganization
  <2> DEFINE gone == [NoInvite EXCEPT !.status = "deleted"]
  <2>3. gone \in InviteRecord /\ gone.status = "deleted"
    BY DEF NoInvite, InviteRecord, Statuses
  <2>4. invite' = [i \in Invites |-> IF invite[i].org = o THEN gone ELSE invite[i]]
    BY <1>9 DEF DeleteOrganization
  <2> HIDE DEF gone
  <2>5. \A i \in Invites : invite'[i] = IF invite[i].org = o THEN gone ELSE invite[i]
    BY <2>4
  <2>6. invite' \in [Invites -> InviteRecord]
    BY <1>1, <2>3, <2>4
  <2>7. \A j \in Invites : invite'[j].status \notin {"none", "deleted"} =>
              /\ invite'[j].org \in Orgs /\ invite'[j].user \in Users
              /\ invite'[j].role \in Invitable
    BY <1>1, <2>3, <2>5
  <2> QED BY <1>1, <1>2, <2>1, <2>2, <2>6, <2>7
<1> QED BY <1>3, <1>5, <1>6, <1>7, <1>8, <1>9 DEF Environment

LEMMA StartTyped ==
  ASSUME TypeInv, NEW r \in Requests, Start(r)
  PROVE  TypeInv'
<1>1. /\ UNCHANGED <<account, regToken, links, org, member, invite, faults>>
      /\ begun' = begun + 1
      /\ \E x \in RequestRecord : req' = [req EXCEPT ![r] = x] /\ Shaped(x)
  BY StartMoves
<1>2. PICK x \in RequestRecord : req' = [req EXCEPT ![r] = x] /\ Shaped(x)
  BY <1>1
<1> HIDE DEF Roles
<1> QED BY <1>1, <1>2, RowTypes, RowsTyped

LEMMA TypeInit == Init => TypeInv
<1> SUFFICES ASSUME Init PROVE TypeInv
  OBVIOUS
<1>1. /\ regToken \in [Users -> {"none", "live", "expired", "used"}]
      /\ account \in [Users -> [made : BOOLEAN, password : BOOLEAN, verified : BOOLEAN]]
      /\ links \subseteq Users
      /\ org \in [Orgs -> {"none", "live", "deleted"}]
      /\ begun \in Nat /\ faults \in Nat
  BY DEF Init
<1>2. \A o \in Orgs, u \in Users : SeedRole(o, u) \in Roles \cup {"none"}
  <2> SUFFICES ASSUME NEW o \in Orgs, NEW u \in Users,
                      \E s \in Seed : s[1] = o /\ s[2] = u
               PROVE  SeedRole(o, u) \in Roles
    BY DEF SeedRole
  <2>1. (CHOOSE s \in Seed : s[1] = o /\ s[2] = u) \in Seed
    OBVIOUS
  <2> HIDE DEF Roles
  <2> QED BY <2>1, MembershipAssumption DEF SeedRole
<1>3. member \in [Orgs \X Users -> [role : Roles \cup {"none"}, id : Nat]]
  <2> HIDE DEF Roles
  <2> QED BY <1>2 DEF Init
<1>4. invite \in [Invites -> InviteRecord] /\ \A i \in Invites : ~Stored(i)
  BY DEF Init, NoInvite, InviteRecord, Statuses, Stored
<1>5. req \in [Requests -> RequestRecord] /\ \A r \in Requests : Shaped(req[r])
  BY IdleShaped DEF Init
<1> QED BY <1>1, <1>3, <1>4, <1>5 DEF TypeInv, TypeOK, RequestRecord, InviteRecord

LEMMA TypeNext == TypeInv /\ [Next]_vars => TypeInv'
<1> SUFFICES ASSUME TypeInv, [Next]_vars PROVE TypeInv'
  OBVIOUS
<1>1. CASE Environment
  BY <1>1, EnvironmentTyped
<1>2. ASSUME NEW r \in Requests, Start(r) PROVE TypeInv'
  BY <1>2, StartTyped
<1>3. ASSUME NEW r \in Requests, Step(r) PROVE TypeInv'
  BY <1>3, StepTyped
<1>4. CASE UNCHANGED vars
  BY <1>4 DEF vars, TypeInv, TypeOK, Stored
<1> QED BY <1>1, <1>2, <1>3, <1>4 DEF Next

(* Accounts, rows and requests stay well formed, for any number of requests   *)
(* that overlap (org.service.ts, auth.service.ts).                            *)
THEOREM MembershipType == Spec => []TypeOK
<1>1. Spec => []TypeInv
  BY TypeInit, TypeNext, PTL DEF Spec
<1>2. TypeInv => TypeOK
  BY DEF TypeInv
<1> QED BY <1>1, <1>2, PTL

-----------------------------------------------------------------------------
(* Owners and answers.  A request that goes on to change a row has read a row  *)
(* that is not an owner's, and a later row of that user has a larger key; an   *)
(* answer names the organization and the user of its invitation for as long    *)
(* as the invitation is stored.                                                *)

OwnedRows(m, g) ==
  \A o \in Orgs :
    /\ g[o] = "live" => \E u \in Users : \A v \in Users : m[<<o, v>>].role = "OWNER" <=> v = u
    /\ g[o] # "live" => \A v \in Users : m[<<o, v>>].role = "none"

Decided(x, m) ==
  x.pc \in Changing =>
    /\ x.id <= m[<<x.org, x.user>>].id
    /\ x.pc \in {"remove_write", "role_write"} /\ x.id = m[<<x.org, x.user>>].id =>
         m[<<x.org, x.user>>].role # "OWNER"

Answered(x, a, m, v) ==
  /\ x.pc \in Accepting =>
       /\ v[x.inv].status # "none"
       /\ v[x.inv].status # "deleted" => v[x.inv].org = x.org /\ v[x.inv].user = x.user
  /\ x.pc \in {"accept_mark", "accept_join", "accept_grant"} => a[x.user].made
  /\ x.pc = "accept_mark" => m[<<x.org, x.user>>].id > 0

MemberInv ==
  /\ TypeInv
  /\ OwnedRows(member, org)
  /\ \A p \in Orgs \X Users : member[p].role # "none" => member[p].id > 0
  /\ AcceptedHasJoined
  /\ \A r \in Requests : Decided(req[r], member) /\ Answered(req[r], account, member, invite)

(* What every step does to the rows. *)
Evolves ==
  /\ \A u \in Users : account[u].made => account'[u].made
  /\ \A p \in Orgs \X Users :
       /\ member[p].id <= member'[p].id
       /\ member'[p].id = member[p].id /\ member'[p].role = "OWNER" => member[p].role = "OWNER"
       /\ member'[p].role # "none" => member'[p].id > 0
  /\ \A i \in Invites :
       invite[i].status # "none" =>
         /\ invite'[i].status # "none"
         /\ invite'[i].status # "deleted" =>
              /\ invite[i].status # "deleted"
              /\ invite'[i].org = invite[i].org /\ invite'[i].user = invite[i].user
  /\ \A i \in Invites :
       invite'[i].status = "ACCEPTED" =>
         /\ account'[invite'[i].user].made
         /\ member'[<<invite'[i].org, invite'[i].user>>].id > 0
  /\ OwnedRows(member', org')

LEMMA HoldsStill ==
  ASSUME TypeInv, TypeInv', Evolves, NEW x \in RequestRecord, Shaped(x),
         Decided(x, member), Answered(x, account, member, invite)
  PROVE  Decided(x, member') /\ Answered(x, account', member', invite')
<1>1. \A p \in Orgs \X Users : member[p].id \in Nat /\ member'[p].id \in Nat
  BY DEF TypeInv, TypeOK
<1>2. Decided(x, member')
  <2> SUFFICES ASSUME x.pc \in Changing PROVE Decided(x, member')
    BY DEF Decided
  <2>1. <<x.org, x.user>> \in Orgs \X Users /\ x.id \in Nat
    BY DEF Shaped, RequestRecord
  <2> QED BY <1>1, <2>1 DEF Decided, Evolves
<1>3. Answered(x, account', member', invite')
  <2> SUFFICES ASSUME x.pc \in Accepting PROVE Answered(x, account', member', invite')
    BY DEF Answered, Accepting
  <2>1. <<x.org, x.user>> \in Orgs \X Users /\ x.inv \in Invites /\ x.user \in Users
    BY DEF Shaped
  <2> QED BY <1>1, <2>1 DEF Answered, Evolves
<1> QED BY <1>2, <1>3

LEMMA RowsUnchanged ==
  ASSUME MemberInv, UNCHANGED <<account, org, member, invite>>
  PROVE  Evolves
<1>1. \A p \in Orgs \X Users : member[p].id \in Nat
  BY DEF MemberInv, TypeInv, TypeOK
<1> QED BY <1>1 DEF MemberInv, Evolves, AcceptedHasJoined

(* Invitations change but nobody is newly accepted. *)
LEMMA InvitesEvolve ==
  ASSUME MemberInv, UNCHANGED <<account, org, member>>,
         \A i \in Invites :
           /\ invite[i].status # "none" =>
                /\ invite'[i].status # "none"
                /\ invite'[i].status # "deleted" =>
                     /\ invite[i].status # "deleted"
                     /\ invite'[i].org = invite[i].org /\ invite'[i].user = invite[i].user
           /\ invite'[i].status = "ACCEPTED" =>
                account[invite'[i].user].made /\ member[<<invite'[i].org, invite'[i].user>>].id > 0
  PROVE  Evolves
<1>1. \A p \in Orgs \X Users : member[p].id \in Nat
  BY DEF MemberInv, TypeInv, TypeOK
<1>2. /\ \A u \in Users : account[u].made => account'[u].made
      /\ \A p \in Orgs \X Users :
           /\ member[p].id <= member'[p].id
           /\ member'[p].role = "OWNER" => member[p].role = "OWNER"
           /\ member'[p].role # "none" => member'[p].id > 0
      /\ OwnedRows(member', org')
  BY <1>1 DEF MemberInv
<1>3. \A i \in Invites :
       invite'[i].status = "ACCEPTED" =>
         /\ account'[invite'[i].user].made
         /\ member'[<<invite'[i].org, invite'[i].user>>].id > 0
  OBVIOUS
<1> QED BY <1>2, <1>3 DEF Evolves

(* A member row is written that is not an owner's, neither before nor after. *)
LEMMA MembersEvolve ==
  ASSUME MemberInv, UNCHANGED <<account, org, invite>>,
         NEW p \in Orgs \X Users, NEW role \in Invitable \cup {"none"},
         member[p].role \notin {"none", "OWNER"},
         member' = [member EXCEPT ![p].role = role]
  PROVE  Evolves
<1>1. /\ \A q \in Orgs \X Users : member[q].id \in Nat
      /\ \A q \in Orgs \X Users :
           q # p => member'[q] = member[q]
      /\ \A q \in Orgs \X Users : member'[q].id = member[q].id
      /\ member'[p].role = role /\ role # "OWNER"
  <2>1. role \in Roles \cup {"none"} /\ role # "OWNER" /\ TypeInv
    BY DEF Invitable, Roles, MemberInv
  <2> HIDE DEF Roles, Invitable
  <2>2. \A q \in Orgs \X Users : member[q].id \in Nat
    BY <2>1 DEF TypeInv, TypeOK
  <2> QED BY <2>1, <2>2, RoleChanges
<1>2. \A o \in Orgs, v \in Users :
        /\ member'[<<o, v>>].role = "OWNER" <=> member[<<o, v>>].role = "OWNER"
        /\ member[<<o, v>>].role = "none" => member'[<<o, v>>].role = "none"
  BY <1>1
<1>3. OwnedRows(member', org')
  BY <1>2 DEF MemberInv, OwnedRows
<1>4. \A q \in Orgs \X Users :
       /\ member[q].id <= member'[q].id
       /\ member'[q].role = "OWNER" => member[q].role = "OWNER"
       /\ member'[q].role # "none" => member'[q].id > 0
  BY <1>1 DEF MemberInv
<1>5. \A i \in Invites :
       invite'[i].status = "ACCEPTED" =>
         /\ account'[invite'[i].user].made
         /\ member'[<<invite'[i].org, invite'[i].user>>].id > 0
  <2> SUFFICES ASSUME NEW i \in Invites, invite[i].status = "ACCEPTED"
               PROVE  /\ account[invite[i].user].made
                      /\ member'[<<invite[i].org, invite[i].user>>].id > 0
    OBVIOUS
  <2>1. <<invite[i].org, invite[i].user>> \in Orgs \X Users
    BY DEF MemberInv, TypeInv, Stored
  <2> QED BY <1>1, <2>1 DEF MemberInv, AcceptedHasJoined
<1> QED BY <1>3, <1>4, <1>5 DEF Evolves

(* Accounts are created, or their columns change; no account is deleted.      *)
LEMMA AccountsEvolve ==
  ASSUME MemberInv, UNCHANGED <<org, member, invite>>,
         \A u \in Users : account[u].made => account'[u].made
  PROVE  Evolves
<1>1. \A p \in Orgs \X Users : member[p].id \in Nat
  BY DEF MemberInv, TypeInv, TypeOK
<1>2. \A i \in Invites :
       invite'[i].status = "ACCEPTED" =>
         /\ account'[invite'[i].user].made
         /\ member'[<<invite'[i].org, invite'[i].user>>].id > 0
  <2> SUFFICES ASSUME NEW i \in Invites, invite[i].status = "ACCEPTED"
               PROVE  account'[invite[i].user].made /\ member[<<invite[i].org, invite[i].user>>].id > 0
    OBVIOUS
  <2>1. invite[i].user \in Users
    BY DEF MemberInv, TypeInv, Stored
  <2> QED BY <2>1 DEF MemberInv, AcceptedHasJoined
<1>3. /\ \A p \in Orgs \X Users :
           /\ member[p].id <= member'[p].id
           /\ member'[p].role = "OWNER" => member[p].role = "OWNER"
           /\ member'[p].role # "none" => member'[p].id > 0
      /\ OwnedRows(member', org')
  BY <1>1 DEF MemberInv
<1> QED BY <1>2, <1>3 DEF Evolves

(* A membership that did not exist is created. *)
LEMMA JoinEvolves ==
  ASSUME MemberInv, NEW o \in Orgs, NEW u \in Users, NEW role \in Roles,
         RoleOf(o, u) = "none", member' = Joined(o, u, role), account' = account,
         OwnedRows(member', org'),
         \A i \in Invites :
           /\ invite[i].status # "none" =>
                /\ invite'[i].status # "none"
                /\ invite'[i].status # "deleted" =>
                     /\ invite[i].status # "deleted"
                     /\ invite'[i].org = invite[i].org /\ invite'[i].user = invite[i].user
           /\ invite'[i].status = "ACCEPTED" =>
                \/ invite'[i] = invite[i]
                \/ invite'[i].org = o /\ invite'[i].user = u /\ account[u].made
  PROVE  Evolves
<1>1. \A q \in Orgs \X Users :
        /\ member[q].id \in Nat
        /\ q # <<o, u>> => member'[q] = member[q]
        /\ q = <<o, u>> => member'[q].role = role /\ member'[q].id = member[q].id + 1
  <2> HIDE DEF Roles
  <2>1. TypeInv
    BY DEF MemberInv
  <2>2. /\ \A q \in Orgs \X Users : member[q].id \in Nat /\ (q # <<o, u>> => member'[q] = member[q])
        /\ member'[<<o, u>>].role = role /\ member'[<<o, u>>].id = member[<<o, u>>].id + 1
    BY <2>1, JoinedRows
  <2> QED BY <2>2
<1>2. \A p \in Orgs \X Users :
           /\ member[p].id <= member'[p].id
           /\ member'[p].id = member[p].id /\ member'[p].role = "OWNER" => member[p].role = "OWNER"
           /\ member'[p].role # "none" => member'[p].id > 0
  <2> SUFFICES ASSUME NEW p \in Orgs \X Users
               PROVE  /\ member[p].id <= member'[p].id
                      /\ member'[p].id = member[p].id => member'[p].role = member[p].role
                      /\ member'[p].role # "none" => member'[p].id > 0
    OBVIOUS
  <2>1. CASE p = <<o, u>>
    BY <1>1, <2>1
  <2>2. CASE p # <<o, u>>
    BY <1>1, <2>2 DEF MemberInv
  <2> QED BY <2>1, <2>2
<1>3. \A i \in Invites :
       invite'[i].status = "ACCEPTED" =>
         /\ account'[invite'[i].user].made
         /\ member'[<<invite'[i].org, invite'[i].user>>].id > 0
  <2> SUFFICES ASSUME NEW i \in Invites, invite'[i].status = "ACCEPTED"
               PROVE  /\ account[invite'[i].user].made
                      /\ member'[<<invite'[i].org, invite'[i].user>>].id > 0
    OBVIOUS
  <2>1. CASE invite'[i].org = o /\ invite'[i].user = u /\ account[u].made
    <3>1. <<o, u>> \in Orgs \X Users
      OBVIOUS
    <3>2. member'[<<o, u>>].id > 0
      BY <1>1, <3>1
    <3> QED BY <2>1, <3>2
  <2>2. CASE invite'[i] = invite[i]
    <3>1. <<invite[i].org, invite[i].user>> \in Orgs \X Users
      BY <2>2 DEF MemberInv, TypeInv, Stored
    <3>2. /\ account[invite[i].user].made
          /\ member[<<invite[i].org, invite[i].user>>].id > 0
      BY <2>2 DEF MemberInv, AcceptedHasJoined
    <3>3. member'[<<invite[i].org, invite[i].user>>].id > 0
      BY <1>1, <3>1, <3>2
    <3> QED BY <2>2, <3>2, <3>3
  <2> QED BY <2>1, <2>2
<1> QED BY <1>2, <1>3 DEF Evolves

LEMMA CreateEvolves ==
  ASSUME MemberInv, NEW r \in Requests, NEW o \in Orgs, CreateOrg(r, o)
  PROVE  Evolves
<1>1. /\ req[r].actor \in Users /\ org[o] = "none" /\ org' = [org EXCEPT ![o] = "live"]
      /\ member' = Joined(o, req[r].actor, "OWNER") /\ UNCHANGED <<account, invite>>
  <2>1. Shaped(req[r])
    BY RequestType DEF MemberInv
  <2> QED BY <2>1 DEF CreateOrg, Shaped
<1> DEFINE u == req[r].actor
<1>2. /\ \A q \in Orgs \X Users : q # <<o, u>> => member'[q] = member[q]
      /\ member'[<<o, u>>].role = "OWNER"
  BY <1>1, JoinedRows DEF MemberInv, Roles
<1>3. \A p \in Orgs : org'[p] = IF p = o THEN "live" ELSE org[p]
  BY <1>1 DEF MemberInv, TypeInv, TypeOK
<1>4. \A v \in Users : member[<<o, v>>].role = "none"
  BY <1>1 DEF MemberInv, OwnedRows
<1>5. u \in Users
  BY <1>1
<1> HIDE DEF u
<1>6. \A v \in Users : member'[<<o, v>>].role = "OWNER" <=> v = u
  BY <1>2, <1>4, <1>5
<1>7. \A p \in Orgs, v \in Users : p # o => member'[<<p, v>>] = member[<<p, v>>]
  BY <1>2
<1>8. OwnedRows(member', org')
  <2>1. \A p \in Orgs : p # o =>
          /\ org'[p] = "live" => \E w \in Users : \A v \in Users : member'[<<p, v>>].role = "OWNER" <=> v = w
          /\ org'[p] # "live" => \A v \in Users : member'[<<p, v>>].role = "none"
    BY <1>3, <1>7 DEF MemberInv, OwnedRows
  <2>2. org'[o] = "live" /\ \E w \in Users : \A v \in Users : member'[<<o, v>>].role = "OWNER" <=> v = w
    BY <1>3, <1>5, <1>6
  <2> QED BY <2>1, <2>2 DEF OwnedRows
<1>9. RoleOf(o, u) = "none" /\ "OWNER" \in Roles /\ member' = Joined(o, u, "OWNER")
  BY <1>1, <1>4, <1>5 DEF RoleOf, Roles, u
<1>10. \A i \in Invites :
           /\ invite[i].status # "none" =>
                /\ invite'[i].status # "none"
                /\ invite'[i].status # "deleted" =>
                     /\ invite[i].status # "deleted"
                     /\ invite'[i].org = invite[i].org /\ invite'[i].user = invite[i].user
           /\ invite'[i].status = "ACCEPTED" =>
                \/ invite'[i] = invite[i]
                \/ invite'[i].org = o /\ invite'[i].user = u /\ account[u].made
  BY <1>1
<1> HIDE DEF Roles
<1> QED BY <1>1, <1>5, <1>8, <1>9, <1>10, JoinEvolves

LEMMA JoinStepEvolves ==
  ASSUME MemberInv, NEW r \in Requests, JoinStep(r)
  PROVE  Evolves
<1> DEFINE o == req[r].org
           u == req[r].user
           i == req[r].inv
           role == req[r].role
<1>1. /\ req[r].pc \in {"accept_join", "accept_grant"}
      /\ o \in Orgs /\ u \in Users /\ i \in Invites /\ role \in Invitable /\ role \in Roles
      /\ UNCHANGED <<account, org>>
      /\ \/ CanJoin(r) /\ member' = Joined(o, u, role) /\ invite' = Accepted(i)
         \/ UNCHANGED <<member, invite>>
  BY JoinStepMoves DEF MemberInv
<1>2. CASE UNCHANGED <<member, invite>>
  BY <1>1, <1>2, RowsUnchanged
<1>3. CASE CanJoin(r) /\ member' = Joined(o, u, role) /\ invite' = Accepted(i)
  <2>1. RoleOf(o, u) = "none" /\ org[o] = "live" /\ Stored(i)
    BY <1>3 DEF CanJoin
  <2>2. account[u].made /\ invite[i].org = o /\ invite[i].user = u
    BY <1>1, <2>1 DEF MemberInv, Answered, Accepting, Stored
  <2>3. invite' = [invite EXCEPT ![i].status = "ACCEPTED"]
    BY <1>3 DEF Accepted
  <2> HIDE DEF o, u, i, role
  <2>4. /\ \A p \in Orgs \X Users : p # <<o, u>> => member'[p] = member[p]
        /\ member'[<<o, u>>].role = role /\ role # "OWNER"
    BY <1>1, <1>3, JoinedRows DEF MemberInv, Invitable
  <2>5. OwnedRows(member', org')
    <3>1. \A p \in Orgs, v \in Users :
            /\ member'[<<p, v>>].role = "OWNER" <=> member[<<p, v>>].role = "OWNER"
            /\ p # o => member'[<<p, v>>] = member[<<p, v>>]
      BY <1>1, <2>1, <2>4 DEF RoleOf
    <3> QED BY <1>1, <2>1, <3>1 DEF MemberInv, OwnedRows
  <2>6. \A j \in Invites :
          /\ j # i => invite'[j] = invite[j]
          /\ invite'[j].org = invite[j].org
          /\ invite'[j].user = invite[j].user
          /\ Stored(j) <=> invite'[j].status \notin {"none", "deleted"}
    BY <1>1, <2>1, <2>3, StatusChanges DEF MemberInv
  <2>7. \A j \in Invites :
           /\ invite[j].status # "none" =>
                /\ invite'[j].status # "none"
                /\ invite'[j].status # "deleted" =>
                     /\ invite[j].status # "deleted"
                     /\ invite'[j].org = invite[j].org /\ invite'[j].user = invite[j].user
           /\ invite'[j].status = "ACCEPTED" =>
                \/ invite'[j] = invite[j]
                \/ invite'[j].org = o /\ invite'[j].user = u /\ account[u].made
    BY <2>1, <2>2, <2>6 DEF Stored
  <2> HIDE DEF Roles
  <2> QED BY <1>1, <1>3, <2>1, <2>5, <2>7, JoinEvolves
<1> QED BY <1>1, <1>2, <1>3

LEMMA InviteStepEvolves ==
  ASSUME MemberInv, NEW r \in Requests, InviteStep(r)
  PROVE  Evolves
<1> DEFINE i == req[r].inv
<1>1. /\ i \in Invites /\ UNCHANGED <<account, org, member>>
      /\ \/ invite' = invite
         \/ \E s \in {"EXPIRED", "DECLINED", "ACCEPTED"} :
              /\ Stored(i) /\ invite' = [invite EXCEPT ![i].status = s]
              /\ s = "ACCEPTED" => req[r].pc = "accept_mark"
         \/ Stored(i) /\ invite' = [invite EXCEPT ![i].expired = FALSE]
  BY InviteStepMoves DEF MemberInv
<1>2. \A j \in Invites : /\ j # i => invite'[j] = invite[j]
                         /\ invite'[j].org = invite[j].org
                         /\ invite'[j].user = invite[j].user
                         /\ Stored(j) <=> invite'[j].status \notin {"none", "deleted"}
  BY <1>1, StatusChanges DEF MemberInv
<1>3. req[r].pc = "accept_mark" /\ Stored(i) =>
        account[invite[i].user].made /\ member[<<invite[i].org, invite[i].user>>].id > 0
  BY DEF MemberInv, Answered, Accepting, Stored
<1>4. invite'[i].status = "ACCEPTED" =>
        \/ invite[i].status = "ACCEPTED"
        \/ req[r].pc = "accept_mark" /\ Stored(i)
  <2>1. invite \in [Invites -> InviteRecord]
    BY RowTypes DEF MemberInv
  <2> HIDE DEF i
  <2>2. ASSUME NEW s \in {"EXPIRED", "DECLINED", "ACCEPTED"},
               invite' = [invite EXCEPT ![i].status = s]
        PROVE  invite'[i].status = s
    BY <1>1, <2>1, <2>2 DEF InviteRecord
  <2>3. ASSUME invite' = [invite EXCEPT ![i].expired = FALSE]
        PROVE  invite'[i].status = invite[i].status
    BY <1>1, <2>1, <2>3 DEF InviteRecord
  <2> QED BY <1>1, <2>2, <2>3
<1>5. \A j \in Invites :
        invite'[j].status = "ACCEPTED" =>
          account[invite'[j].user].made /\ member[<<invite'[j].org, invite'[j].user>>].id > 0
  <2> SUFFICES ASSUME NEW j \in Invites, invite'[j].status = "ACCEPTED"
               PROVE  account[invite[j].user].made /\ member[<<invite[j].org, invite[j].user>>].id > 0
    BY <1>2
  <2>1. CASE invite[j].status = "ACCEPTED"
    BY <2>1 DEF MemberInv, AcceptedHasJoined
  <2>2. CASE invite[j].status # "ACCEPTED"
    <3>1. j = i
      BY <1>2, <2>2
    <3> QED BY <1>3, <1>4, <2>2, <3>1
  <2> QED BY <2>1, <2>2
<1> HIDE DEF i
<1>6. \A j \in Invites :
        invite[j].status # "none" =>
          /\ invite'[j].status # "none"
          /\ invite'[j].status # "deleted" =>
               /\ invite[j].status # "deleted"
               /\ invite'[j].org = invite[j].org /\ invite'[j].user = invite[j].user
  BY <1>1, <1>2 DEF Stored
<1> QED BY <1>1, <1>5, <1>6, InvitesEvolve

LEMMA DeleteEvolves ==
  ASSUME MemberInv, NEW o \in Orgs, DeleteOrganization(o)
  PROVE  Evolves
<1>1. /\ \A p \in Orgs : org'[p] = IF p = o THEN "deleted" ELSE org[p]
      /\ account' = account
  BY DEF DeleteOrganization, MemberInv, TypeInv, TypeOK
<1>2. \A p \in Orgs, v \in Users :
        /\ p # o => member'[<<p, v>>] = member[<<p, v>>]
        /\ p = o => member'[<<p, v>>].role = "none" /\ member'[<<p, v>>].id = member[<<p, v>>].id
  <2>1. \A q \in Orgs \X Users :
          member'[q] = IF q[1] = o THEN [member[q] EXCEPT !.role = "none"] ELSE member[q]
    BY DEF DeleteOrganization
  <2>2. \A q \in Orgs \X Users :
          /\ [member[q] EXCEPT !.role = "none"].role = "none"
          /\ [member[q] EXCEPT !.role = "none"].id = member[q].id
    <3> HIDE DEF Roles
    <3> QED BY DEF MemberInv, TypeInv, TypeOK
  <2> SUFFICES ASSUME NEW p \in Orgs, NEW v \in Users
               PROVE  /\ p # o => member'[<<p, v>>] = member[<<p, v>>]
                      /\ p = o => /\ member'[<<p, v>>].role = "none"
                                  /\ member'[<<p, v>>].id = member[<<p, v>>].id
    OBVIOUS
  <2>3. <<p, v>> \in Orgs \X Users /\ <<p, v>>[1] = p
    OBVIOUS
  <2> QED BY <2>1, <2>2, <2>3
<1>3. \A i \in Invites :
        /\ invite'[i] = invite[i] \/ invite'[i].status = "deleted"
  <2> DEFINE gone == [NoInvite EXCEPT !.status = "deleted"]
  <2>1. gone.status = "deleted"
    BY DEF NoInvite
  <2>2. invite' = [i \in Invites |-> IF invite[i].org = o THEN gone ELSE invite[i]]
    BY DEF DeleteOrganization
  <2> HIDE DEF gone
  <2> QED BY <2>1, <2>2
<1>4. \A q \in Orgs \X Users : member[q].id \in Nat
  BY DEF MemberInv, TypeInv, TypeOK
<1>5. \A q \in Orgs \X Users :
        /\ member[q].id = member'[q].id
        /\ member'[q].role \in {"none", member[q].role}
  BY <1>2
<1>6. \A q \in Orgs \X Users :
        /\ member[q].id <= member'[q].id
        /\ member'[q].role = "OWNER" => member[q].role = "OWNER"
        /\ member'[q].role # "none" => member'[q].id > 0
  BY <1>4, <1>5 DEF MemberInv
<1>7. OwnedRows(member', org')
  BY <1>1, <1>2 DEF MemberInv, OwnedRows
<1>8. \A i \in Invites :
       invite'[i].status = "ACCEPTED" =>
         /\ account'[invite'[i].user].made
         /\ member'[<<invite'[i].org, invite'[i].user>>].id > 0
  <2> SUFFICES ASSUME NEW i \in Invites, invite[i].status = "ACCEPTED", invite'[i] = invite[i]
               PROVE  /\ account[invite[i].user].made
                      /\ member'[<<invite[i].org, invite[i].user>>].id > 0
    BY <1>1, <1>3
  <2>1. <<invite[i].org, invite[i].user>> \in Orgs \X Users
    BY DEF MemberInv, TypeInv, Stored
  <2>2. account[invite[i].user].made /\ member[<<invite[i].org, invite[i].user>>].id > 0
    BY DEF MemberInv, AcceptedHasJoined
  <2>3. member'[<<invite[i].org, invite[i].user>>].id > 0
    BY <1>5, <2>1, <2>2
  <2> QED BY <2>2, <2>3
<1> QED BY <1>1, <1>3, <1>6, <1>7, <1>8 DEF Evolves

(* The request that moved, among the requests that did not. *)
LEMMA OthersHold ==
  ASSUME MemberInv, TypeInv', Evolves, NEW r \in Requests, NEW x \in RequestRecord,
         req' = [req EXCEPT ![r] = x],
         Decided(x, member'), Answered(x, account', member', invite')
  PROVE  MemberInv'
<1>1. \A s \in Requests : req'[s] = IF s = r THEN x ELSE req[s]
  BY DEF MemberInv, TypeInv, TypeOK
<1>2. ASSUME NEW s \in Requests
      PROVE  Decided(req'[s], member') /\ Answered(req'[s], account', member', invite')
  <2>1. CASE s = r
    BY <1>1, <2>1
  <2>2. CASE s # r
    <3> DEFINE y == req[s]
    <3>1. y \in RequestRecord /\ Shaped(y) /\ Decided(y, member) /\ Answered(y, account, member, invite)
      BY RequestType DEF MemberInv
    <3>2. req'[s] = y
      BY <1>1, <2>2
    <3> HIDE DEF y
    <3>3. TypeInv
      BY DEF MemberInv
    <3>4. Decided(y, member') /\ Answered(y, account', member', invite')
      BY <3>1, <3>3, HoldsStill
    <3> QED BY <3>2, <3>4
  <2> QED BY <2>1, <2>2
<1>3. /\ \A p \in Orgs \X Users : member'[p].role # "none" => member'[p].id > 0
      /\ AcceptedHasJoined' /\ OwnedRows(member', org')
  BY DEF Evolves, AcceptedHasJoined
<1> QED BY <1>2, <1>3 DEF MemberInv

LEMMA DoneHolds ==
  ASSUME MemberInv, TypeInv', Evolves, NEW r \in Requests, Done(r)
  PROVE  MemberInv'
<1>1. Idle \in RequestRecord /\ Idle.pc = "idle"
  BY IdleShaped
<1>2. Decided(Idle, member') /\ Answered(Idle, account', member', invite')
  BY <1>1 DEF Decided, Answered, Changing, Accepting
<1>3. req' = [req EXCEPT ![r] = Idle]
  BY DEF Done
<1> HIDE DEF Idle
<1> QED BY <1>1, <1>2, <1>3, OthersHold

LEMMA StartHolds ==
  ASSUME MemberInv, TypeInv', NEW r \in Requests, Start(r)
  PROVE  MemberInv'
<1>1. /\ UNCHANGED <<account, org, member, invite>>
      /\ \E x \in RequestRecord : req' = [req EXCEPT ![r] = x] /\ Shaped(x) /\ Begun(x)
  BY StartMoves DEF MemberInv
<1>2. PICK x \in RequestRecord : req' = [req EXCEPT ![r] = x] /\ Shaped(x) /\ Begun(x)
  BY <1>1
<1>3. Evolves
  BY <1>1, RowsUnchanged
<1>4. Decided(x, member')
  <2> SUFFICES ASSUME x.pc \in Changing PROVE Decided(x, member)
    BY <1>1 DEF Decided
  <2>1. x.pc \in {"remove_read", "role_read"} /\ x.id = member[<<x.org, x.user>>].id /\ x.id \in Nat
    BY <1>2 DEF Begun, Changing, RequestRecord
  <2> QED BY <2>1 DEF Decided
<1>5. Answered(x, account', member', invite')
  <2> SUFFICES ASSUME x.pc \in Accepting PROVE Answered(x, account, member, invite)
    BY <1>1 DEF Answered, Accepting
  <2>1. x.pc = "accept"
    BY <1>2 DEF Begun, Accepting
  <2> QED BY <1>2, <2>1 DEF Answered, Begun
<1> QED BY <1>2, <1>3, <1>4, <1>5, OthersHold

LEMMA ReadHolds ==
  ASSUME MemberInv, TypeInv', NEW r \in Requests, ReadStep(r)
  PROVE  MemberInv'
<1>1. /\ UNCHANGED <<account, org, member, invite>>
      /\ Done(r) \/ \E pc : Goto(r, pc) /\ Read(r, pc)
  BY ReadMoves
<1>2. Evolves
  BY <1>1, RowsUnchanged
<1>3. CASE Done(r)
  BY <1>2, <1>3, DoneHolds
<1>4. ASSUME NEW pc, Goto(r, pc), Read(r, pc) PROVE MemberInv'
  <2> DEFINE x == To(r, pc)
             y == req[r]
  <2>1. <<y.pc, pc>> \in Follows
    BY <1>4 DEF Read
  <2>2. /\ req' = [req EXCEPT ![r] = x] /\ x \in RequestRecord /\ Shaped(x)
        /\ x.pc = pc /\ x.org = y.org /\ x.user = y.user /\ x.inv = y.inv /\ x.id = y.id
    BY <1>4, <2>1, GotoMoves DEF MemberInv
  <2>3. Decided(y, member) /\ Answered(y, account, member, invite) /\ Shaped(y)
    BY RequestType DEF MemberInv
  <2>4. /\ pc \in {"remove_write", "role_write"} => RoleOf(y.org, y.user) # "OWNER"
        /\ pc \in {"accept_mark", "accept_join"} => account[y.user].made
        /\ pc = "accept_mark" => RoleOf(y.org, y.user) # "none"
        /\ pc # "accept_grant"
    BY <1>4 DEF Read
  <2> HIDE DEF x, y
  <2>5. Decided(x, member)
    <3> SUFFICES ASSUME x.pc \in Changing PROVE Decided(x, member)
      BY DEF Decided
    <3>1. y.pc \in Changing
      BY <2>1, <2>2 DEF Follows, Changing
    <3> QED BY <2>2, <2>3, <2>4, <3>1 DEF Decided, RoleOf
  <2>6. Answered(x, account, member, invite)
    <3> SUFFICES ASSUME x.pc \in Accepting PROVE Answered(x, account, member, invite)
      BY DEF Answered, Accepting
    <3>1. y.pc \in Accepting
      BY <2>1, <2>2 DEF Follows, Accepting
    <3>2. x.pc = "accept_mark" => member[<<x.org, x.user>>].id > 0
      <4>1. <<y.org, y.user>> \in Orgs \X Users
        BY <2>3, <3>1 DEF Shaped
      <4> QED BY <2>2, <2>4, <4>1 DEF MemberInv, RoleOf
    <3> QED BY <2>2, <2>3, <2>4, <3>1, <3>2 DEF Answered
  <2>7. Decided(x, member') /\ Answered(x, account', member', invite')
    BY <1>1, <2>5, <2>6
  <2> QED BY <1>2, <2>2, <2>7, OthersHold
<1> QED BY <1>1, <1>3, <1>4

LEMMA ChangeEvolves ==
  ASSUME MemberInv, NEW r \in Requests, RemoveWrite(r) \/ SetRoleWrite(r)
  PROVE  Evolves
<1> DEFINE p == <<req[r].org, req[r].user>>
<1>1. Shaped(req[r]) /\ Decided(req[r], member)
  BY RequestType DEF MemberInv
<1>2. /\ p \in Orgs \X Users /\ UNCHANGED <<account, org, invite>>
      /\ \/ member' = member
         \/ /\ SameRow(r)
            /\ \E role \in Invitable \cup {"none"} : member' = [member EXCEPT ![p].role = role]
  <2>1. CASE RemoveWrite(r)
    BY <1>1, <2>1 DEF RemoveWrite, Shaped, Changing
  <2>2. CASE SetRoleWrite(r)
    BY <1>1, <2>2 DEF SetRoleWrite, Shaped, Changing
  <2> QED BY <2>1, <2>2
<1>3. SameRow(r) => member[p].role \notin {"none", "OWNER"}
  BY <1>1 DEF SameRow, RoleOf, Decided, Changing, RemoveWrite, SetRoleWrite
<1> HIDE DEF p
<1>4. CASE member' = member
  BY <1>2, <1>4, RowsUnchanged
<1>5. ASSUME SameRow(r), NEW role \in Invitable \cup {"none"}, member' = [member EXCEPT ![p].role = role]
      PROVE  Evolves
  BY <1>2, <1>3, <1>5, MembersEvolve
<1> QED BY <1>2, <1>4, <1>5

(* The steps that write an account and go on. *)
LEMMA AccountStepHolds ==
  ASSUME MemberInv, TypeInv', NEW r \in Requests,
         AcceptNew(r) \/ RegisterInvited(r) \/ RegisterOther(r) \/ RegisterToken(r)
  PROVE  MemberInv'
<1>1. account \in [Users -> [made : BOOLEAN, password : BOOLEAN, verified : BOOLEAN]]
  BY RowTypes DEF MemberInv
<1>2. Shaped(req[r])
  BY RequestType DEF MemberInv
<1>3. UNCHANGED <<org, member, invite>>
  BY DEF AcceptNew, RegisterInvited, RegisterOther, RegisterToken
<1>4. /\ \A u \in Users : account[u].made => account'[u].made
      /\ AcceptNew(r) /\ ~Done(r) => account'[req[r].user].made
  <2>1. CASE account' = account /\ (AcceptNew(r) => Done(r))
    BY <2>1
  <2>2. CASE AcceptNew(r) /\ ~(account' = account /\ (AcceptNew(r) => Done(r)))
    <3>1. /\ req[r].user \in Users
          /\ account' = [account EXCEPT ![req[r].user].made = TRUE]
      BY <1>2, <2>2 DEF AcceptNew, Shaped, Accepting
    <3> QED BY <1>1, <3>1, AccountMade
  <2>3. ASSUME NEW b \in BOOLEAN, ~AcceptNew(r), req[r].user \in Users,
               account' = [account EXCEPT ![req[r].user].password = TRUE,
                                          ![req[r].user].verified = b]
        PROVE  \A u \in Users : account[u].made => account'[u].made
    BY <1>1, <2>3, AccountWritten
  <2>4. CASE RegisterInvited(r) /\ ~AcceptNew(r)
    <3>1. req[r].user \in Users
      BY <1>2, <2>4 DEF RegisterInvited, Shaped, Registering
    <3> QED BY <2>1, <2>3, <2>4, <3>1 DEF RegisterInvited
  <2>5. CASE RegisterOther(r) /\ ~AcceptNew(r)
    <3>1. req[r].user \in Users
      BY <1>2, <2>5 DEF RegisterOther, Shaped, Registering
    <3> QED BY <2>3, <2>5, <3>1 DEF RegisterOther
  <2>6. CASE RegisterToken(r) /\ ~AcceptNew(r)
    BY <2>1, <2>6 DEF RegisterToken
  <2> QED BY <2>1, <2>2, <2>4, <2>5, <2>6
<1>5. Evolves
  BY <1>3, <1>4, AccountsEvolve
<1>6. CASE Done(r)
  BY <1>5, <1>6, DoneHolds
<1>7. CASE AcceptNew(r) /\ ~Done(r)
  <2> DEFINE x == To(r, "accept_grant")
  <2>1. req[r].pc = "accept_new" /\ Goto(r, "accept_grant")
    BY <1>7 DEF AcceptNew
  <2>2. <<req[r].pc, "accept_grant">> \in Follows
    BY <2>1 DEF Follows
  <2>3. /\ req' = [req EXCEPT ![r] = x] /\ x \in RequestRecord /\ Shaped(x)
        /\ x.pc = "accept_grant" /\ x.org = req[r].org /\ x.user = req[r].user /\ x.inv = req[r].inv
    BY <2>1, <2>2, GotoMoves DEF MemberInv
  <2>4. Answered(req[r], account, member, invite)
    BY DEF MemberInv
  <2> HIDE DEF x
  <2>5. Decided(x, member')
    BY <2>3 DEF Decided, Changing
  <2>6. account'[x.user].made
    BY <1>4, <1>7, <2>3
  <2>7. Answered(x, account', member', invite')
    BY <1>3, <2>1, <2>3, <2>4, <2>6 DEF Answered, Accepting
  <2> QED BY <1>5, <2>3, <2>5, <2>7, OthersHold
<1>8. CASE RegisterOther(r)
  <2> DEFINE x == To(r, "register_token")
  <2>1. req[r].pc = "register_other" /\ Goto(r, "register_token")
    BY <1>8 DEF RegisterOther
  <2>2. <<req[r].pc, "register_token">> \in Follows
    BY <2>1 DEF Follows
  <2>3. req' = [req EXCEPT ![r] = x] /\ x \in RequestRecord /\ x.pc = "register_token"
    BY <2>1, <2>2, GotoMoves DEF MemberInv
  <2> HIDE DEF x
  <2>4. Decided(x, member') /\ Answered(x, account', member', invite')
    BY <2>3 DEF Decided, Answered, Changing, Accepting
  <2> QED BY <1>5, <2>3, <2>4, OthersHold
<1> QED BY <1>6, <1>7, <1>8 DEF RegisterInvited, RegisterToken

LEMMA StepHolds ==
  ASSUME MemberInv, TypeInv', NEW r \in Requests, Step(r)
  PROVE  MemberInv'
<1>1. CASE ReadStep(r)
  BY <1>1, ReadHolds
<1>2. CASE InviteStep(r)
  <2>1. Done(r)
    BY <1>2, InviteStepMoves DEF MemberInv
  <2> QED BY <1>2, <2>1, InviteStepEvolves, DoneHolds
<1>3. CASE JoinStep(r)
  <2>1. Done(r)
    BY <1>3, JoinStepMoves DEF MemberInv
  <2> QED BY <1>3, <2>1, JoinStepEvolves, DoneHolds
<1>4. ASSUME NEW o \in Orgs, CreateOrg(r, o) PROVE MemberInv'
  <2>1. Done(r)
    BY <1>4 DEF CreateOrg
  <2> QED BY <1>4, <2>1, CreateEvolves, DoneHolds
<1>5. ASSUME NEW i \in Invites, InviteCreate(r, i) PROVE MemberInv'
  <2> DEFINE new == [status |-> "PENDING", org |-> req[r].org, user |-> req[r].user,
                     role |-> req[r].role, expired |-> FALSE]
  <2>1. /\ invite[i].status = "none" /\ invite' \in {invite, [invite EXCEPT ![i] = new]}
        /\ Done(r) /\ UNCHANGED <<account, org, member>>
    BY <1>5 DEF InviteCreate, NoInvite
  <2>2. new.status = "PENDING"
    OBVIOUS
  <2> HIDE DEF new
  <2>3. \A j \in Invites : invite'[j] = invite[j] \/ (invite[j].status = "none" /\ invite'[j].status = "PENDING")
    BY <2>1, <2>2 DEF MemberInv, TypeInv, TypeOK
  <2>4. \A j \in Invites :
          /\ invite[j].status # "none" =>
                /\ invite'[j].status # "none"
                /\ invite'[j].status # "deleted" =>
                     /\ invite[j].status # "deleted"
                     /\ invite'[j].org = invite[j].org /\ invite'[j].user = invite[j].user
          /\ invite'[j].status = "ACCEPTED" =>
                account[invite'[j].user].made /\ member[<<invite'[j].org, invite'[j].user>>].id > 0
    <3> SUFFICES ASSUME NEW j \in Invites, invite'[j] = invite[j], invite[j].status = "ACCEPTED"
                 PROVE  account[invite[j].user].made /\ member[<<invite[j].org, invite[j].user>>].id > 0
      BY <2>3
    <3> QED BY DEF MemberInv, AcceptedHasJoined
  <2>5. Evolves
    BY <2>1, <2>4, InvitesEvolve
  <2> QED BY <2>1, <2>5, DoneHolds
<1>6. CASE RemoveWrite(r) \/ SetRoleWrite(r)
  <2>1. Done(r)
    BY <1>6 DEF RemoveWrite, SetRoleWrite
  <2> QED BY <1>6, <2>1, ChangeEvolves, DoneHolds
<1>7. CASE AcceptNew(r) \/ RegisterInvited(r) \/ RegisterOther(r) \/ RegisterToken(r)
  BY <1>7, AccountStepHolds
<1> QED BY <1>1, <1>2, <1>3, <1>4, <1>5, <1>6, <1>7 DEF Step, ReadStep, InviteStep, JoinStep

LEMMA EnvironmentHolds ==
  ASSUME MemberInv, TypeInv', Environment
  PROVE  MemberInv'
<1>1. req' = req
  BY DEF Environment, Register, VerifyEmail, TokenExpires, UpdateUserStatus, DeleteOrganization,
         InvitationExpires
<1>2. account \in [Users -> [made : BOOLEAN, password : BOOLEAN, verified : BOOLEAN]]
  BY RowTypes DEF MemberInv
<1>3. ASSUME NEW u \in Users, Register(u) PROVE Evolves
  <2>1. \A v \in Users : v # u => account'[v] = account[v]
    BY <1>2, <1>3 DEF Register
  <2>2. ~account[u].made /\ UNCHANGED <<org, member, invite>>
    BY <1>3 DEF Register
  <2>3. \A v \in Users : account[v].made => account'[v].made
    BY <2>1, <2>2
  <2> QED BY <2>2, <2>3, AccountsEvolve
<1>4. ASSUME NEW u \in Users, NEW b \in BOOLEAN, account' = [account EXCEPT ![u].verified = b],
             UNCHANGED <<org, member, invite>>
      PROVE  Evolves
  <2> DEFINE row == [account[u] EXCEPT !.verified = b]
  <2>1. account[u] \in [made : BOOLEAN, password : BOOLEAN, verified : BOOLEAN]
    BY <1>2
  <2>2. row.made = account[u].made
    BY <2>1
  <2>3. account' = [account EXCEPT ![u] = row]
    BY <1>4
  <2> HIDE DEF row
  <2>4. \A v \in Users : account'[v].made = account[v].made
    BY <1>2, <2>2, <2>3
  <2> QED BY <1>4, <2>4, AccountsEvolve
<1>5. ASSUME NEW u \in Users, VerifyEmail(u) PROVE Evolves
  BY <1>4, <1>5 DEF VerifyEmail
<1>6. ASSUME NEW u \in Users, NEW b \in BOOLEAN, UpdateUserStatus(u, b) PROVE Evolves
  BY <1>4, <1>6 DEF UpdateUserStatus
<1>7. ASSUME NEW u \in Users, TokenExpires(u) PROVE Evolves
  BY <1>7, RowsUnchanged DEF TokenExpires
<1>8. ASSUME NEW i \in Invites, InvitationExpires(i) PROVE Evolves
  <2>1. /\ Stored(i) /\ invite' = [invite EXCEPT ![i].expired = TRUE]
        /\ invite[i].status = "PENDING" /\ UNCHANGED <<account, org, member>>
    BY <1>8 DEF InvitationExpires, Stored
  <2>2. \A j \in Invites : /\ j # i => invite'[j] = invite[j]
                           /\ invite'[j].org = invite[j].org
                           /\ invite'[j].user = invite[j].user
    BY <2>1, StatusChanges DEF MemberInv
  <2>3. invite'[i].status = "PENDING"
    <3>1. invite \in [Invites -> InviteRecord]
      BY RowTypes DEF MemberInv
    <3> QED BY <2>1, <3>1 DEF InviteRecord
  <2>4. \A j \in Invites :
          /\ invite[j].status # "none" =>
                /\ invite'[j].status # "none"
                /\ invite'[j].status # "deleted" =>
                     /\ invite[j].status # "deleted"
                     /\ invite'[j].org = invite[j].org /\ invite'[j].user = invite[j].user
          /\ invite'[j].status = "ACCEPTED" =>
                account[invite'[j].user].made /\ member[<<invite'[j].org, invite'[j].user>>].id > 0
    <3> SUFFICES ASSUME NEW j \in Invites
                 PROVE  /\ invite[j].status # "none" => invite'[j].status # "none"
                        /\ invite'[j].status # "deleted" => invite[j].status # "deleted"
                        /\ invite'[j].status = "ACCEPTED" =>
                             /\ account[invite[j].user].made
                             /\ member[<<invite[j].org, invite[j].user>>].id > 0
      BY <2>2
    <3>1. CASE j = i
      BY <2>1, <2>3, <3>1
    <3>2. CASE j # i
      BY <2>2, <3>2 DEF MemberInv, AcceptedHasJoined
    <3> QED BY <3>1, <3>2
  <2> QED BY <2>1, <2>4, InvitesEvolve
<1>9. Evolves
  BY <1>3, <1>5, <1>6, <1>7, <1>8, DeleteEvolves DEF Environment
<1>10. ASSUME NEW r \in Requests PROVE MemberInv'
  <2> DEFINE x == req[r]
  <2>1. x \in RequestRecord /\ Shaped(x) /\ Decided(x, member) /\ Answered(x, account, member, invite)
    BY RequestType DEF MemberInv
  <2>2. req' = [req EXCEPT ![r] = x]
    BY <1>1 DEF MemberInv, TypeInv, TypeOK
  <2> HIDE DEF x
  <2>3. Decided(x, member') /\ Answered(x, account', member', invite')
    BY <1>9, <2>1, HoldsStill DEF MemberInv
  <2> QED BY <1>9, <2>1, <2>2, <2>3, OthersHold
<1> QED BY <1>10, MembershipAssumption

LEMMA MemberInit == Init => MemberInv
<1> SUFFICES ASSUME Init PROVE MemberInv
  OBVIOUS
<1>1. TypeInv
  BY TypeInit
<1>2. \A o \in Orgs, u \in Users :
        /\ RoleOf(o, u) = SeedRole(o, u)
        /\ RoleOf(o, u) # "none" => member[<<o, u>>].id = 1
  BY DEF Init, RoleOf
<1>3. \A o \in Orgs, u \in Users : SeedRole(o, u) = "OWNER" <=> <<o, u, "OWNER">> \in Seed
  <2> TAKE o \in Orgs, u \in Users
  <2>1. ASSUME NEW s \in Seed, s[1] = o, s[2] = u PROVE SeedRole(o, u) = s[3]
    <3>1. (CHOOSE t \in Seed : t[1] = o /\ t[2] = u) = s
      BY <2>1, MembershipAssumption
    <3> QED BY <2>1, <3>1 DEF SeedRole
  <2>2. ASSUME <<o, u, "OWNER">> \in Seed PROVE SeedRole(o, u) = "OWNER"
    BY <2>1, <2>2
  <2>3. ASSUME SeedRole(o, u) = "OWNER" PROVE <<o, u, "OWNER">> \in Seed
    <3>1. PICK s \in Seed : s[1] = o /\ s[2] = u
      BY <2>3 DEF SeedRole
    <3>2. s[3] = "OWNER" /\ s \in Orgs \X Registered \X Roles
      BY <2>1, <2>3, <3>1, MembershipAssumption
    <3>3. s = <<o, u, "OWNER">>
      BY <3>1, <3>2
    <3> QED BY <3>3
  <2> QED BY <2>2, <2>3
<1>4. \A o \in Orgs, u \in Users : SeedRole(o, u) # "none" => \E s \in Seed : s[1] = o
  BY DEF SeedRole
<1>5. \A o \in Orgs : org[o] = "live" <=> \E s \in Seed : s[1] = o
  BY DEF Init
<1>6. OwnedRows(member, org)
  <2> SUFFICES ASSUME NEW o \in Orgs
               PROVE  /\ org[o] = "live" => \E u \in Users : \A v \in Users : RoleOf(o, v) = "OWNER" <=> v = u
                      /\ org[o] # "live" => \A v \in Users : RoleOf(o, v) = "none"
    BY DEF OwnedRows, RoleOf
  <2>1. ASSUME org[o] = "live"
        PROVE  \E u \in Users : \A v \in Users : RoleOf(o, v) = "OWNER" <=> v = u
    <3>1. PICK t \in Seed : t[1] = o /\ t[3] = "OWNER"
      BY <1>5, <2>1, MembershipAssumption
    <3>2. t = <<o, t[2], "OWNER">> /\ t[2] \in Users
      BY <3>1, MembershipAssumption
    <3>3. \A v \in Users : <<o, v, "OWNER">> \in Seed => v = t[2]
      <4> SUFFICES ASSUME NEW v \in Users, <<o, v, "OWNER">> \in Seed PROVE v = t[2]
        OBVIOUS
      <4> DEFINE s == <<o, v, "OWNER">>
      <4>1. s \in Seed /\ s[1] = t[1] /\ s[3] = "OWNER" /\ s[2] = v
        BY <3>1
      <4> HIDE DEF s
      <4>2. s = t
        BY <3>1, <4>1, MembershipAssumption
      <4> QED BY <4>1, <4>2
    <3>4. \A v \in Users : RoleOf(o, v) = "OWNER" <=> v = t[2]
      BY <1>2, <1>3, <3>2, <3>3
    <3> QED BY <3>2, <3>4
  <2>2. ASSUME org[o] # "live" PROVE \A v \in Users : RoleOf(o, v) = "none"
    BY <1>2, <1>4, <1>5, <2>2
  <2> QED BY <2>1, <2>2
<1>7. \A p \in Orgs \X Users : member[p].role # "none" => member[p].id > 0
  BY <1>2 DEF RoleOf
<1>8. AcceptedHasJoined
  BY DEF Init, AcceptedHasJoined, NoInvite
<1>9. \A r \in Requests : Decided(req[r], member) /\ Answered(req[r], account, member, invite)
  BY IdleShaped DEF Init, Decided, Answered, Changing, Accepting
<1> QED BY <1>1, <1>6, <1>7, <1>8, <1>9 DEF MemberInv

LEMMA MemberNext == MemberInv /\ [Next]_vars => MemberInv'
<1> SUFFICES ASSUME MemberInv, [Next]_vars PROVE MemberInv'
  OBVIOUS
<1>1. TypeInv'
  BY TypeNext DEF MemberInv
<1>2. CASE Environment
  BY <1>1, <1>2, EnvironmentHolds
<1>3. ASSUME NEW r \in Requests, Start(r) PROVE MemberInv'
  BY <1>1, <1>3, StartHolds
<1>4. ASSUME NEW r \in Requests, Step(r) PROVE MemberInv'
  BY <1>1, <1>4, StepHolds
<1>5. CASE UNCHANGED vars
  BY <1>1, <1>5 DEF vars, MemberInv, AcceptedHasJoined
<1> QED BY <1>2, <1>3, <1>4, <1>5 DEF Next

LEMMA MemberAlways == Spec => []MemberInv
BY MemberInit, MemberNext, PTL DEF Spec

(* A live organization has exactly one owner, however many removals, role     *)
(* changes, answers and deletions overlap (org.service.ts).                   *)
THEOREM OneOwnerAlways == Spec => []Inv
<1>1. MemberInv => Inv
  <2> SUFFICES ASSUME MemberInv, NEW o \in Orgs, org[o] = "live"
               PROVE  \E u \in Users : {v \in Users : RoleOf(o, v) = "OWNER"} = {u}
    BY DEF MemberInv, TypeInv, Inv, OneOwner
  <2>1. PICK u \in Users : \A v \in Users : RoleOf(o, v) = "OWNER" <=> v = u
    BY DEF MemberInv, OwnedRows, RoleOf
  <2> QED BY <2>1
<1> QED BY <1>1, MemberAlways, PTL

(* An ACCEPTED invitation has given its invitee an account and a membership,  *)
(* wherever requests die (userRespondToInvitation).                           *)
THEOREM AcceptanceIsKept == Spec => []AcceptedHasJoined
<1>1. MemberInv => AcceptedHasJoined
  BY DEF MemberInv
<1> QED BY <1>1, MemberAlways, PTL

(* A step of one request moves that request only.                             *)
LEMMA StepMovesOne ==
  ASSUME TypeInv, NEW s \in Requests, Step(s)
  PROVE  \A r \in Requests : r # s => req'[r] = req[r]
<1>1. req \in [Requests -> RequestRecord]
  BY DEF TypeInv, TypeOK, RequestRecord
<1>2. Done(s) \/ \E pc : Goto(s, pc)
  <2>1. ReadStep(s) => Done(s) \/ \E pc : Goto(s, pc)
    BY ReadMoves
  <2>2. InviteStep(s) => Done(s)
    BY DEF InviteStep, RevokeWrite, ResendWrite, Decline, AcceptMark
  <2>3. JoinStep(s) => Done(s)
    BY DEF JoinStep, AcceptJoin, AcceptGrant
  <2>4. AcceptNew(s) \/ RegisterInvited(s) \/ RegisterOther(s) \/ RegisterToken(s) =>
          Done(s) \/ \E pc : Goto(s, pc)
    BY DEF AcceptNew, RegisterInvited, RegisterOther, RegisterToken
  <2>5. (\E o \in Orgs : CreateOrg(s, o)) \/ (\E i \in Invites : InviteCreate(s, i))
          \/ RemoveWrite(s) \/ SetRoleWrite(s) => Done(s)
    BY DEF CreateOrg, InviteCreate, RemoveWrite, SetRoleWrite
  <2> QED BY <2>1, <2>2, <2>3, <2>4, <2>5 DEF Step, ReadStep, InviteStep, JoinStep
<1> QED BY <1>1, <1>2 DEF Done, Goto

(* A removal or a role change that was decided on a row leaves the row of a    *)
(* later membership of the same user alone (removeMember, updateMemberRole).   *)
THEOREM LaterMemberSpared == Spec => LaterMembershipSpared
<1> DEFINE Spared ==
      \A r \in Requests :
        LET row == <<req[r].org, req[r].user>>
        IN  /\ req[r].pc \in {"remove_write", "role_write"} /\ req'[r].pc = "idle"
            /\ req[r].id < member[row].id
            => member'[row] = member[row]
<1>1. TypeInv /\ [Next]_vars => [Spared]_vars
  <2> SUFFICES ASSUME TypeInv, Next, NEW r \in Requests,
                      req[r].pc \in {"remove_write", "role_write"}, req'[r].pc = "idle",
                      req[r].id < member[<<req[r].org, req[r].user>>].id
               PROVE  member'[<<req[r].org, req[r].user>>] = member[<<req[r].org, req[r].user>>]
    OBVIOUS
  <2>1. CASE Environment
    <3>1. req' = req
      BY <2>1 DEF Environment, Register, VerifyEmail, TokenExpires, UpdateUserStatus,
                  DeleteOrganization, InvitationExpires
    <3> QED BY <3>1
  <2>2. ASSUME NEW s \in Requests, CanStart(s), Start(s)
        PROVE  member' = member
    BY <2>2, StartMoves
  <2>3. ASSUME NEW s \in Requests, Step(s), s # r
        PROVE  FALSE
    <3>1. req'[r] = req[r]
      BY <2>3, StepMovesOne
    <3> QED BY <3>1
  <2>4. CASE Step(r)
    <3>1. RemoveWrite(r) \/ SetRoleWrite(r) \/ Dies(r)
      BY <2>4 DEF Step, CreateOrg, InviteMember, InvitePending, InviteCreate, RemoveRead, SetRoleRead,
                  RevokeRead, RevokeWrite, ResendRead, ResendWrite, Decline, AcceptRead, AcceptMark,
                  AcceptJoin, AcceptNew, AcceptGrant, RegisterInvited, RegisterOther, RegisterToken
    <3>2. ~SameRow(r)
      <4>1. req[r].id \in Nat /\ Shaped(req[r])
        BY RequestType DEF RequestRecord
      <4>2. member[<<req[r].org, req[r].user>>].id \in Nat
        BY <4>1 DEF Shaped, Changing, TypeInv, TypeOK
      <4> QED BY <4>1, <4>2 DEF SameRow
    <3>3. member' = member
      BY <3>1, <3>2 DEF RemoveWrite, SetRoleWrite, Dies
    <3> QED BY <3>3
  <2> QED BY <2>1, <2>2, <2>3, <2>4 DEF Next
<1>2. Spec => []TypeInv
  BY TypeInit, TypeNext, PTL DEF Spec
<1> QED BY <1>1, <1>2, PTL DEF Spec, LaterMembershipSpared

-----------------------------------------------------------------------------
(* Creations that were allowed by an earlier read.  A request that is about to *)
(* create counts against the same bound as what was created.                   *)

Creating(u) == {r \in Requests : req[r].pc = "create" /\ req[r].actor = u}

Proposing(o, u) ==
  {r \in Requests : req[r].pc = "invite_create" /\ req[r].org = o /\ req[r].user = u}

Within(S, A) == IsFiniteSet(S) /\ Cardinality(S) + Cardinality(A) <= Cardinality(Requests)

(* Nothing is added, or nothing was there, or a request became what it added. *)
Counted(S, A, T, B) ==
  \/ T \subseteq S /\ B \subseteq A
  \/ T = {}
  \/ \E a \in A : \E z : T \subseteq S \cup {z} /\ B \subseteq A \ {a}

LEMMA CountedWithin ==
  ASSUME NEW S, NEW T, NEW A \in SUBSET Requests, NEW B \in SUBSET Requests,
         Within(S, A), Counted(S, A, T, B)
  PROVE  Within(T, B)
<1> DEFINE n == Cardinality(Requests)
<1>1. /\ IsFiniteSet(S) /\ IsFiniteSet(A) /\ IsFiniteSet(B)
      /\ Cardinality(S) \in Nat /\ Cardinality(A) \in Nat /\ Cardinality(B) \in Nat /\ n \in Nat
      /\ Cardinality(B) <= n /\ Cardinality(S) + Cardinality(A) <= n
  BY FS_Subset, FS_CardinalityType, MembershipAssumption DEF Within
<1>2. CASE T \subseteq S /\ B \subseteq A
  <2>1. IsFiniteSet(T) /\ Cardinality(T) <= Cardinality(S) /\ Cardinality(B) <= Cardinality(A)
    BY <1>1, <1>2, FS_Subset
  <2>2. Cardinality(T) \in Nat
    BY <2>1, FS_CardinalityType
  <2> QED BY <1>1, <2>1, <2>2 DEF Within
<1>3. CASE T = {}
  <2>1. IsFiniteSet(T) /\ Cardinality(T) = 0
    BY <1>3, FS_EmptySet
  <2> QED BY <1>1, <2>1 DEF Within
<1>4. ASSUME NEW a \in A, NEW z, T \subseteq S \cup {z}, B \subseteq A \ {a}
      PROVE  Within(T, B)
  <2>1. IsFiniteSet(S \cup {z}) /\ Cardinality(S \cup {z}) <= Cardinality(S) + 1
    <3>1. Cardinality(S \cup {z}) = IF z \in S THEN Cardinality(S) ELSE Cardinality(S) + 1
      BY <1>1, FS_AddElement
    <3> QED BY <1>1, <3>1, FS_AddElement
  <2>2. IsFiniteSet(A \ {a}) /\ Cardinality(A \ {a}) = Cardinality(A) - 1
    BY <1>1, FS_RemoveElement
  <2>3. /\ IsFiniteSet(T) /\ Cardinality(T) <= Cardinality(S \cup {z})
        /\ Cardinality(B) <= Cardinality(A \ {a})
    BY <1>4, <2>1, <2>2, FS_Subset
  <2>4. Cardinality(T) \in Nat /\ Cardinality(S \cup {z}) \in Nat
    BY <2>1, <2>3, FS_CardinalityType
  <2> QED BY <1>1, <2>1, <2>2, <2>3, <2>4 DEF Within
<1> QED BY <1>2, <1>3, <1>4 DEF Counted

Bounds ==
  /\ \A u \in Users : Within(Owned(u), Creating(u))
  /\ \A o \in Orgs, u \in Users : Within(PendingFor(o, u), Proposing(o, u))

Counts ==
  /\ \A u \in Users : Counted(Owned(u), Creating(u), Owned(u)', Creating(u)')
  /\ \A o \in Orgs, u \in Users :
       Counted(PendingFor(o, u), Proposing(o, u), PendingFor(o, u)', Proposing(o, u)')

LEMMA CountsBound ==
  ASSUME Bounds, Counts
  PROVE  Bounds'
<1>1. ASSUME NEW u \in Users PROVE Within(Owned(u)', Creating(u)')
  <2>1. Creating(u) \in SUBSET Requests /\ Creating(u)' \in SUBSET Requests
    BY DEF Creating
  <2>2. Within(Owned(u), Creating(u)) /\ Counted(Owned(u), Creating(u), Owned(u)', Creating(u)')
    BY DEF Bounds, Counts
  <2> QED BY <2>1, <2>2, CountedWithin
<1>2. ASSUME NEW o \in Orgs, NEW u \in Users PROVE Within(PendingFor(o, u)', Proposing(o, u)')
  <2>1. Proposing(o, u) \in SUBSET Requests /\ Proposing(o, u)' \in SUBSET Requests
    BY DEF Proposing
  <2>2. /\ Within(PendingFor(o, u), Proposing(o, u))
        /\ Counted(PendingFor(o, u), Proposing(o, u), PendingFor(o, u)', Proposing(o, u)')
    BY DEF Bounds, Counts
  <2> QED BY <2>1, <2>2, CountedWithin
<1> QED BY <1>1, <1>2 DEF Bounds, Within

(* No membership becomes an owner's, no invitation becomes pending.           *)
OwnersKept ==
  \A o \in Orgs, u \in Users : RoleOf(o, u)' = "OWNER" => RoleOf(o, u) = "OWNER"

PendingKept ==
  \A i \in Invites :
    invite'[i].status = "PENDING" =>
      invite[i].status = "PENDING" /\ invite'[i].org = invite[i].org /\ invite'[i].user = invite[i].user

LEMMA KeptSets ==
  /\ OwnersKept => \A u \in Users : Owned(u)' \subseteq Owned(u)
  /\ PendingKept => \A o \in Orgs, u \in Users : PendingFor(o, u)' \subseteq PendingFor(o, u)
<1>1. OwnersKept => \A u \in Users : Owned(u)' \subseteq Owned(u)
  BY DEF OwnersKept, Owned
<1>2. PendingKept => \A o \in Orgs, u \in Users : PendingFor(o, u)' \subseteq PendingFor(o, u)
  BY DEF PendingKept, PendingFor
<1> QED BY <1>1, <1>2

(* The requests that are about to create something, after a request moved. *)
LEMMA RequestsCounted ==
  ASSUME TypeInv, NEW r \in Requests, NEW x \in RequestRecord, req' = [req EXCEPT ![r] = x]
  PROVE  /\ \A u \in Users :
              IF x.pc = "create" /\ x.actor = u THEN TRUE
              ELSE Creating(u)' \subseteq Creating(u) \ {r}
         /\ \A o \in Orgs, u \in Users :
              IF x.pc = "invite_create" /\ x.org = o /\ x.user = u THEN TRUE
              ELSE Proposing(o, u)' \subseteq Proposing(o, u) \ {r}
<1>1. \A s \in Requests : req'[s] = IF s = r THEN x ELSE req[s]
  BY DEF TypeInv, TypeOK
<1>2. ASSUME NEW u \in Users, ~(x.pc = "create" /\ x.actor = u)
      PROVE  Creating(u)' \subseteq Creating(u) \ {r}
  BY <1>1, <1>2 DEF Creating
<1>3. ASSUME NEW o \in Orgs, NEW u \in Users, ~(x.pc = "invite_create" /\ x.org = o /\ x.user = u)
      PROVE  Proposing(o, u)' \subseteq Proposing(o, u) \ {r}
  BY <1>1, <1>3 DEF Proposing
<1> QED BY <1>2, <1>3

LEMMA KeptCounts ==
  ASSUME TypeInv, OwnersKept, PendingKept, NEW r \in Requests, NEW x \in RequestRecord,
         req' = [req EXCEPT ![r] = x], x.pc \notin {"create", "invite_create"}
  PROVE  Counts
<1>1. /\ \A u \in Users : Creating(u)' \subseteq Creating(u)
      /\ \A o \in Orgs, u \in Users : Proposing(o, u)' \subseteq Proposing(o, u)
  BY RequestsCounted
<1> QED BY <1>1, KeptSets DEF Counts, Counted

LEMMA StartCounts ==
  ASSUME TypeInv, NEW r \in Requests, Start(r)
  PROVE  Counts
<1>1. /\ UNCHANGED <<member, invite>>
      /\ \E x \in RequestRecord : req' = [req EXCEPT ![r] = x] /\ Shaped(x) /\ Begun(x)
  BY StartMoves
<1>2. PICK x \in RequestRecord : req' = [req EXCEPT ![r] = x] /\ Begun(x)
  BY <1>1
<1>3. \A u \in Users : Owned(u)' = Owned(u)
  BY <1>1 DEF Owned, RoleOf
<1>4. \A o \in Orgs, u \in Users : PendingFor(o, u)' = PendingFor(o, u)
  BY <1>1 DEF PendingFor
<1>5. /\ x.pc # "invite_create"
      /\ x.pc = "create" => Owned(x.actor) = {}
  BY <1>2 DEF Begun
<1>6. /\ \A u \in Users : IF x.pc = "create" /\ x.actor = u THEN Owned(u) = {}
                          ELSE Creating(u)' \subseteq Creating(u)
      /\ \A o \in Orgs, u \in Users : Proposing(o, u)' \subseteq Proposing(o, u)
  BY <1>2, <1>5, RequestsCounted
<1> QED BY <1>3, <1>4, <1>6 DEF Counts, Counted

LEMMA ReadCounts ==
  ASSUME TypeInv, NEW r \in Requests, ReadStep(r)
  PROVE  Counts
<1>1. /\ UNCHANGED <<member, invite>>
      /\ Done(r) \/ \E pc : Goto(r, pc) /\ Read(r, pc)
  BY ReadMoves
<1>2. \A u \in Users : Owned(u)' = Owned(u)
  BY <1>1 DEF Owned, RoleOf
<1>3. \A o \in Orgs, u \in Users : PendingFor(o, u)' = PendingFor(o, u)
  BY <1>1 DEF PendingFor
<1>4. CASE Done(r)
  <2>1. OwnersKept /\ PendingKept
    BY <1>1 DEF OwnersKept, PendingKept, RoleOf
  <2>2. req' = [req EXCEPT ![r] = Idle]
    BY <1>4 DEF Done
  <2> QED BY <2>1, <2>2, IdleShaped, KeptCounts
<1>5. ASSUME NEW pc, Goto(r, pc), Read(r, pc) PROVE Counts
  <2> DEFINE x == To(r, pc)
  <2>1. <<req[r].pc, pc>> \in Follows /\ (pc = "invite_create" => PendingFor(req[r].org, req[r].user) = {})
    BY <1>5 DEF Read
  <2>2. /\ req' = [req EXCEPT ![r] = x] /\ x \in RequestRecord
        /\ x.pc = pc /\ x.org = req[r].org /\ x.user = req[r].user
    BY <1>5, <2>1, GotoMoves
  <2>3. pc # "create"
    BY <2>1 DEF Follows
  <2> HIDE DEF x
  <2>4. /\ \A u \in Users : Creating(u)' \subseteq Creating(u)
        /\ \A o \in Orgs, u \in Users :
             IF x.pc = "invite_create" /\ x.org = o /\ x.user = u THEN PendingFor(o, u) = {}
             ELSE Proposing(o, u)' \subseteq Proposing(o, u)
    BY <2>1, <2>2, <2>3, RequestsCounted
  <2> QED BY <1>2, <1>3, <2>4 DEF Counts, Counted
<1> QED BY <1>1, <1>4, <1>5

LEMMA CreateCounts ==
  ASSUME TypeInv, NEW r \in Requests, NEW o \in Orgs, CreateOrg(r, o)
  PROVE  Counts
<1>1. PICK u \in Users : /\ req[r].pc = "create" /\ u = req[r].actor /\ Done(r)
                         /\ invite' = invite /\ member' = Joined(o, u, "OWNER")
  <2>1. Shaped(req[r])
    BY RequestType
  <2> QED BY <2>1 DEF CreateOrg, Shaped
<1>2. \A p \in Orgs, v \in Users : <<p, v>> # <<o, u>> => member'[<<p, v>>] = member[<<p, v>>]
  <2>1. "OWNER" \in Roles
    BY DEF Roles
  <2> HIDE DEF Roles
  <2>2. \A q \in Orgs \X Users : q # <<o, u>> => member'[q] = member[q]
    BY <1>1, <2>1, JoinedRows
  <2> QED BY <2>2
<1>3. r \in Creating(u)
  BY <1>1 DEF Creating
<1>4. req' = [req EXCEPT ![r] = Idle] /\ Idle \in RequestRecord /\ Idle.pc = "idle"
  BY <1>1, IdleShaped DEF Done
<1>5. Owned(u)' \subseteq Owned(u) \cup {o} /\ \A v \in Users : v # u => Owned(v)' \subseteq Owned(v)
  BY <1>1, <1>2 DEF Owned, RoleOf
<1>6. /\ \A v \in Users : Creating(v)' \subseteq Creating(v) \ {r}
      /\ \A p \in Orgs, v \in Users : Proposing(p, v)' \subseteq Proposing(p, v)
  BY <1>4, RequestsCounted
<1>7. \A p \in Orgs, v \in Users : PendingFor(p, v)' = PendingFor(p, v)
  BY <1>1 DEF PendingFor
<1>8. \A v \in Users : Counted(Owned(v), Creating(v), Owned(v)', Creating(v)')
  <2> SUFFICES ASSUME NEW v \in Users
               PROVE  Counted(Owned(v), Creating(v), Owned(v)', Creating(v)')
    OBVIOUS
  <2>1. CASE v = u
    BY <1>3, <1>5, <1>6, <2>1 DEF Counted
  <2>2. CASE v # u
    BY <1>5, <1>6, <2>2 DEF Counted
  <2> QED BY <2>1, <2>2
<1> QED BY <1>6, <1>7, <1>8 DEF Counts, Counted

LEMMA InviteCounts ==
  ASSUME TypeInv, NEW r \in Requests, NEW i \in Invites, InviteCreate(r, i)
  PROVE  Counts
<1>0. PICK o \in Orgs, u \in Users : o = req[r].org /\ u = req[r].user
  <2>1. Shaped(req[r])
    BY RequestType
  <2> QED BY <2>1 DEF InviteCreate, Shaped, Inviting
<1> DEFINE new == [status |-> "PENDING", org |-> o, user |-> u, role |-> req[r].role, expired |-> FALSE]
<1>1. /\ req[r].pc = "invite_create" /\ Done(r) /\ member' = member
      /\ invite' \in {invite, [invite EXCEPT ![i] = new]}
  BY <1>0 DEF InviteCreate
<1>2. r \in Proposing(o, u)
  BY <1>0, <1>1 DEF Proposing
<1>3. req' = [req EXCEPT ![r] = Idle] /\ Idle \in RequestRecord /\ Idle.pc = "idle"
  BY <1>1, IdleShaped DEF Done
<1>4. new.org = o /\ new.user = u
  OBVIOUS
<1> HIDE DEF new
<1>5. \A j \in Invites : invite'[j] = invite[j] \/ (j = i /\ invite'[j] = new)
  BY <1>1 DEF TypeInv, TypeOK
<1>6. /\ PendingFor(o, u)' \subseteq PendingFor(o, u) \cup {i}
      /\ \A p \in Orgs, v \in Users : ~(p = o /\ v = u) => PendingFor(p, v)' \subseteq PendingFor(p, v)
  BY <1>4, <1>5 DEF PendingFor
<1>7. /\ \A v \in Users : Creating(v)' \subseteq Creating(v)
      /\ \A p \in Orgs, v \in Users : Proposing(p, v)' \subseteq Proposing(p, v) \ {r}
  BY <1>3, RequestsCounted
<1>8. \A v \in Users : Owned(v)' = Owned(v)
  BY <1>1 DEF Owned, RoleOf
<1>9. \A p \in Orgs, v \in Users :
        Counted(PendingFor(p, v), Proposing(p, v), PendingFor(p, v)', Proposing(p, v)')
  <2> SUFFICES ASSUME NEW p \in Orgs, NEW v \in Users
               PROVE  Counted(PendingFor(p, v), Proposing(p, v), PendingFor(p, v)', Proposing(p, v)')
    OBVIOUS
  <2>1. CASE p = o /\ v = u
    BY <1>2, <1>6, <1>7, <2>1 DEF Counted
  <2>2. CASE ~(p = o /\ v = u)
    BY <1>6, <1>7, <2>2 DEF Counted
  <2> QED BY <2>1, <2>2
<1> QED BY <1>7, <1>8, <1>9 DEF Counts, Counted

(* Answers, changes of rows and registrations create no owner and no pending   *)
(* invitation.                                                                 *)
LEMMA OthersKeep ==
  ASSUME TypeInv, NEW r \in Requests,
         \/ InviteStep(r) \/ JoinStep(r) \/ RemoveWrite(r) \/ SetRoleWrite(r)
         \/ AcceptNew(r) \/ RegisterInvited(r) \/ RegisterOther(r) \/ RegisterToken(r)
  PROVE  /\ OwnersKept /\ PendingKept
         /\ \E x \in RequestRecord : /\ req' = [req EXCEPT ![r] = x]
                                     /\ x.pc \notin {"create", "invite_create"}
<1>1. UNCHANGED member => OwnersKept
  BY DEF OwnersKept, RoleOf
<1>2. UNCHANGED invite => PendingKept
  BY DEF PendingKept
<1>3. Done(r) => \E x \in RequestRecord : /\ req' = [req EXCEPT ![r] = x]
                                          /\ x.pc \notin {"create", "invite_create"}
  <2>1. Idle \in RequestRecord /\ Idle.pc = "idle"
    BY IdleShaped
  <2> QED BY <2>1 DEF Done
<1>4. ASSUME NEW pc, Goto(r, pc), <<req[r].pc, pc>> \in Follows, pc # "invite_create"
      PROVE  \E x \in RequestRecord : /\ req' = [req EXCEPT ![r] = x]
                                      /\ x.pc \notin {"create", "invite_create"}
  <2>1. pc # "create"
    BY <1>4 DEF Follows
  <2> QED BY <1>4, <2>1, GotoMoves
<1>5. ASSUME NEW i \in Invites,
             \/ invite' = invite
             \/ \E s \in {"EXPIRED", "DECLINED", "ACCEPTED"} :
                  Stored(i) /\ invite' = [invite EXCEPT ![i].status = s]
             \/ Stored(i) /\ invite' = [invite EXCEPT ![i].expired = FALSE]
      PROVE  PendingKept
  BY <1>5, StatusChanges DEF PendingKept
<1>6. CASE InviteStep(r)
  <2>1. /\ req[r].inv \in Invites /\ Done(r) /\ UNCHANGED member
        /\ \/ invite' = invite
           \/ \E s \in {"EXPIRED", "DECLINED", "ACCEPTED"} :
                Stored(req[r].inv) /\ invite' = [invite EXCEPT ![req[r].inv].status = s]
           \/ Stored(req[r].inv) /\ invite' = [invite EXCEPT ![req[r].inv].expired = FALSE]
    BY <1>6, InviteStepMoves
  <2> QED BY <1>1, <1>3, <1>5, <2>1
<1>7. CASE JoinStep(r)
  <2>1. /\ req[r].org \in Orgs /\ req[r].user \in Users /\ req[r].inv \in Invites
        /\ req[r].role \in Invitable /\ req[r].role \in Roles /\ Done(r)
        /\ \/ /\ CanJoin(r) /\ member' = Joined(req[r].org, req[r].user, req[r].role)
              /\ invite' = Accepted(req[r].inv)
           \/ UNCHANGED <<member, invite>>
    BY <1>7, JoinStepMoves
  <2>2. PendingKept
    BY <1>5, <2>1 DEF CanJoin, Accepted
  <2>3. ASSUME member' = Joined(req[r].org, req[r].user, req[r].role) PROVE OwnersKept
    <3> DEFINE p == <<req[r].org, req[r].user>>
    <3>1. /\ \A q \in Orgs \X Users : q # p => member'[q] = member[q]
          /\ member'[p].role = req[r].role /\ req[r].role # "OWNER"
      BY <2>1, <2>3, JoinedRows DEF Invitable
    <3> HIDE DEF p
    <3> QED BY <3>1 DEF OwnersKept, RoleOf
  <2> QED BY <1>1, <1>3, <2>1, <2>2, <2>3
<1>8. CASE RemoveWrite(r) \/ SetRoleWrite(r)
  <2> DEFINE p == <<req[r].org, req[r].user>>
  <2>1. /\ p \in Orgs \X Users /\ Done(r) /\ UNCHANGED invite
        /\ \/ member' = member
           \/ \E role \in Invitable \cup {"none"} : member' = [member EXCEPT ![p].role = role]
    <3>1. Shaped(req[r])
      BY RequestType
    <3>2. CASE RemoveWrite(r)
      BY <3>1, <3>2 DEF RemoveWrite, Shaped, Changing
    <3>3. CASE SetRoleWrite(r)
      BY <3>1, <3>3 DEF SetRoleWrite, Shaped, Changing
    <3> QED BY <1>8, <3>2, <3>3
  <2> HIDE DEF p
  <2>2. ASSUME NEW role \in Invitable \cup {"none"}, member' = [member EXCEPT ![p].role = role]
        PROVE  OwnersKept
    <3>1. role \in Roles \cup {"none"} /\ role # "OWNER"
      BY DEF Invitable, Roles
    <3> HIDE DEF Roles
    <3>2. (\A q \in Orgs \X Users : q # p => member'[q] = member[q]) /\ member'[p].role = role
      BY <2>1, <2>2, <3>1, RoleChanges
    <3> QED BY <3>1, <3>2 DEF OwnersKept, RoleOf
  <2> QED BY <1>1, <1>2, <1>3, <2>1, <2>2
<1>9. CASE AcceptNew(r) \/ RegisterInvited(r) \/ RegisterOther(r) \/ RegisterToken(r)
  <2>1. UNCHANGED <<member, invite>>
    BY <1>9 DEF AcceptNew, RegisterInvited, RegisterOther, RegisterToken
  <2>2. \/ Done(r)
        \/ req[r].pc = "accept_new" /\ Goto(r, "accept_grant")
        \/ req[r].pc = "register_other" /\ Goto(r, "register_token")
    BY <1>9 DEF AcceptNew, RegisterInvited, RegisterOther, RegisterToken
  <2>3. /\ <<"accept_new", "accept_grant">> \in Follows
        /\ <<"register_other", "register_token">> \in Follows
    BY DEF Follows
  <2> QED BY <1>1, <1>2, <1>3, <1>4, <2>1, <2>2, <2>3
<1> QED BY <1>6, <1>7, <1>8, <1>9

LEMMA EnvironmentKeeps ==
  ASSUME TypeInv, Environment
  PROVE  OwnersKept /\ PendingKept /\ req' = req
<1>1. UNCHANGED member => OwnersKept
  BY DEF OwnersKept, RoleOf
<1>2. UNCHANGED invite => PendingKept
  BY DEF PendingKept
<1>3. ASSUME NEW o \in Orgs, DeleteOrganization(o) PROVE OwnersKept /\ PendingKept
  <2>1. \A q \in Orgs \X Users :
          member'[q] = IF q[1] = o THEN [member[q] EXCEPT !.role = "none"] ELSE member[q]
    BY <1>3 DEF DeleteOrganization
  <2>2. \A q \in Orgs \X Users : [member[q] EXCEPT !.role = "none"].role = "none"
    <3> HIDE DEF Roles
    <3> QED BY DEF TypeInv, TypeOK
  <2>3. OwnersKept
    BY <2>1, <2>2 DEF OwnersKept, RoleOf
  <2> DEFINE gone == [NoInvite EXCEPT !.status = "deleted"]
  <2>4. gone.status = "deleted"
    BY DEF NoInvite
  <2>5. invite' = [i \in Invites |-> IF invite[i].org = o THEN gone ELSE invite[i]]
    BY <1>3 DEF DeleteOrganization
  <2> HIDE DEF gone
  <2>6. PendingKept
    BY <2>4, <2>5 DEF PendingKept
  <2> QED BY <2>3, <2>6
<1>4. ASSUME NEW i \in Invites, InvitationExpires(i) PROVE PendingKept
  <2>1. Stored(i) /\ invite' = [invite EXCEPT ![i].expired = TRUE]
    BY <1>4 DEF InvitationExpires, Stored
  <2> QED BY <2>1, StatusChanges DEF PendingKept
<1>5. ASSUME NEW u \in Users, Register(u) \/ VerifyEmail(u) \/ TokenExpires(u)
      PROVE  UNCHANGED <<member, invite, req>>
  BY <1>5 DEF Register, VerifyEmail, TokenExpires
<1>6. ASSUME NEW u \in Users, NEW b \in BOOLEAN, UpdateUserStatus(u, b)
      PROVE  UNCHANGED <<member, invite, req>>
  BY <1>6 DEF UpdateUserStatus
<1>7. ASSUME NEW o \in Orgs, DeleteOrganization(o) PROVE req' = req
  BY <1>7 DEF DeleteOrganization
<1>8. ASSUME NEW i \in Invites, InvitationExpires(i) PROVE UNCHANGED <<member, req>>
  BY <1>8 DEF InvitationExpires
<1> QED BY <1>1, <1>2, <1>3, <1>4, <1>5, <1>6, <1>7, <1>8 DEF Environment

LEMMA BoundsInit == Init => Bounds
<1> SUFFICES ASSUME Init PROVE Bounds
  OBVIOUS
<1>1. Cardinality(Requests) \in Nat /\ Cardinality(Requests) >= 1
  <2>1. Cardinality(Requests) \in Nat /\ Cardinality(Requests) # 0
    BY FS_CardinalityType, FS_EmptySet, MembershipAssumption
  <2> QED BY <2>1
<1>2. Cardinality({}) = 0 /\ IsFiniteSet({})
  BY FS_EmptySet
<1>3. \A r \in Requests : req[r].pc = "idle"
  BY IdleShaped DEF Init
<1>4. ASSUME NEW o \in Orgs, NEW u \in Users PROVE Within(PendingFor(o, u), Proposing(o, u))
  <2>1. PendingFor(o, u) = {}
    BY DEF Init, PendingFor, NoInvite
  <2>2. Proposing(o, u) = {}
    BY <1>3 DEF Proposing
  <2> QED BY <1>1, <1>2, <2>1, <2>2 DEF Within
<1>5. ASSUME NEW u \in Users PROVE Within(Owned(u), Creating(u))
  <2>1. Creating(u) = {}
    BY <1>3 DEF Creating
  <2>2. ASSUME NEW o \in Owned(u), NEW p \in Owned(u) PROVE o = p
    <3>1. SeedRole(o, u) = "OWNER" /\ SeedRole(p, u) = "OWNER" /\ o \in Orgs /\ p \in Orgs
      BY DEF Owned, RoleOf, Init
    <3>2. \A q \in Orgs : SeedRole(q, u) = "OWNER" => \E s \in Seed : s[1] = q /\ s[2] = u /\ s[3] = "OWNER"
      BY DEF SeedRole
    <3> QED BY <3>1, <3>2, MembershipAssumption
  <2>3. Owned(u) = {} \/ \E o \in Orgs : Owned(u) = {o}
    BY <2>2 DEF Owned
  <2>4. \A o \in Orgs : IsFiniteSet({o}) /\ Cardinality({o}) = 1
    BY FS_Singleton
  <2>5. IsFiniteSet(Owned(u)) /\ Cardinality(Owned(u)) \in {0, 1}
    BY <1>2, <2>3, <2>4
  <2>6. Cardinality(Creating(u)) = 0
    BY <1>2, <2>1
  <2> QED BY <1>1, <2>5, <2>6 DEF Within
<1> QED BY <1>4, <1>5 DEF Bounds

LEMMA BoundsNext == TypeInv /\ Bounds /\ [Next]_vars => Bounds'
<1> SUFFICES ASSUME TypeInv, Bounds, [Next]_vars PROVE Bounds'
  OBVIOUS
<1>1. CASE Environment
  <2>1. OwnersKept /\ PendingKept /\ req' = req
    BY <1>1, EnvironmentKeeps
  <2>2. /\ \A u \in Users : Creating(u)' = Creating(u)
        /\ \A o \in Orgs, u \in Users : Proposing(o, u)' = Proposing(o, u)
    BY <2>1 DEF Creating, Proposing
  <2>3. Counts
    BY <2>1, <2>2, KeptSets DEF Counts, Counted
  <2> QED BY <2>3, CountsBound
<1>2. ASSUME NEW r \in Requests, Start(r) PROVE Bounds'
  BY <1>2, StartCounts, CountsBound
<1>3. ASSUME NEW r \in Requests, Step(r) PROVE Bounds'
  <2>1. CASE ReadStep(r)
    BY <2>1, ReadCounts, CountsBound
  <2>2. ASSUME NEW o \in Orgs, CreateOrg(r, o) PROVE Bounds'
    BY <2>2, CreateCounts, CountsBound
  <2>3. ASSUME NEW i \in Invites, InviteCreate(r, i) PROVE Bounds'
    BY <2>3, InviteCounts, CountsBound
  <2>4. CASE \/ InviteStep(r) \/ JoinStep(r) \/ RemoveWrite(r) \/ SetRoleWrite(r)
             \/ AcceptNew(r) \/ RegisterInvited(r) \/ RegisterOther(r) \/ RegisterToken(r)
    <3>1. Counts
      BY <2>4, OthersKeep, KeptCounts
    <3> QED BY <3>1, CountsBound
  <2> QED BY <1>3, <2>1, <2>2, <2>3, <2>4 DEF Step, ReadStep, InviteStep, JoinStep
<1>4. CASE UNCHANGED vars
  BY <1>4 DEF vars, Bounds, Within, Owned, RoleOf, Creating, PendingFor, Proposing
<1> QED BY <1>1, <1>2, <1>3, <1>4 DEF Next

(* A user comes to own, and an address comes to be invited to one organization, *)
(* at most as many times as requests overlap, since the checks of              *)
(* createOrganization and inviteMemberToOrganization precede their writes.     *)
THEOREM CreationsStayBounded == Spec => []CreationsBounded
<1>1. Init => TypeInv /\ Bounds
  BY TypeInit, BoundsInit
<1>2. TypeInv /\ Bounds /\ [Next]_vars => TypeInv' /\ Bounds'
  BY TypeNext, BoundsNext
<1>3. Bounds => CreationsBounded
  <2>1. ASSUME NEW S, NEW A \in SUBSET Requests, Within(S, A)
        PROVE  Cardinality(S) <= Cardinality(Requests)
    <3>1. Cardinality(S) \in Nat /\ Cardinality(A) \in Nat /\ Cardinality(Requests) \in Nat
      BY <2>1, FS_Subset, FS_CardinalityType, MembershipAssumption DEF Within
    <3> QED BY <2>1, <3>1 DEF Within
  <2>2. ASSUME Bounds, NEW u \in Users
        PROVE  Cardinality(Owned(u)) <= Cardinality(Requests)
    <3>1. Creating(u) \in SUBSET Requests /\ Within(Owned(u), Creating(u))
      BY <2>2 DEF Bounds, Creating
    <3> QED BY <2>1, <3>1
  <2>3. ASSUME Bounds, NEW o \in Orgs, NEW u \in Users
        PROVE  Cardinality(PendingFor(o, u)) <= Cardinality(Requests)
    <3>1. Proposing(o, u) \in SUBSET Requests /\ Within(PendingFor(o, u), Proposing(o, u))
      BY <2>3 DEF Bounds, Proposing
    <3> QED BY <2>1, <3>1
  <2> QED BY <2>2, <2>3 DEF CreationsBounded, OwnedBounded, PendingBounded
<1> QED BY <1>1, <1>2, <1>3, PTL DEF Spec

-----------------------------------------------------------------------------
(* Registration tokens.  While answers of one invitee do not overlap, the       *)
(* request that has pre-created an account finds nothing in the way of the      *)
(* token but a deleted organization.                                            *)

Deleted == \E o \in Orgs : org[o] = "deleted"

Answers(x) == x.pc \in Accepting \cup {"decline"}

Alone ==
  \A r, s \in Requests :
    Answers(req[r]) /\ Answers(req[s]) /\ req[r].user = req[s].user => r = s

Backed(x, a, g, m) ==
  /\ x.pc \in Accepting => g[x.org] # "none"
  /\ x.pc = "accept_grant" => m[<<x.org, x.user>>].role = "none"
  /\ x.pc = "create" => a[x.actor].made
  /\ x.pc \in Registering => a[x.user].made
  /\ x.pc = "register_token" => a[x.user].password

Grounded ==
  /\ \A u \in Users : account[u].verified => account[u].made
  /\ \A u \in Users : regToken[u] # "none" => account[u].made
  /\ \A u \in links : account[u].made
  /\ \A o \in Orgs, u \in Users : RoleOf(o, u) # "none" => account[u].made
  /\ \A i \in Invites : invite[i].status = "deleted" => Deleted
  /\ \A i \in Invites : Stored(i) => org[invite[i].org] # "none"

TokenInv ==
  /\ MemberInv /\ Grounded /\ Alone
  /\ \A r \in Requests : Backed(req[r], account, org, member)
  /\ PasswordlessHasToken

(* What a step of one request may do to the rows of the others. *)
Spares(r) ==
  /\ \A u \in Users : /\ account[u].made => account'[u].made
                      /\ account[u].password => account'[u].password
  /\ \A o \in Orgs : org[o] # "none" => org'[o] # "none"
  /\ \A o \in Orgs : org[o] = "deleted" => org'[o] = "deleted"
  /\ \A o \in Orgs, u \in Users :
       RoleOf(o, u) = "none" /\ member'[<<o, u>>].role # "none" =>
         org[o] = "none" \/ (Answers(req[r]) /\ u = req[r].user)

LEMMA SparedStay ==
  ASSUME TokenInv, MemberInv', Grounded', PasswordlessHasToken',
         NEW r \in Requests, NEW x \in RequestRecord, Spares(r),
         req' = [req EXCEPT ![r] = x], Backed(x, account', org', member'),
         Answers(x) => \/ Answers(req[r]) /\ x.user = req[r].user
                       \/ \A s \in Requests : Answers(req[s]) => req[s].user # x.user
  PROVE  TokenInv'
<1>1. \A s \in Requests : req'[s] = IF s = r THEN x ELSE req[s]
  BY DEF TokenInv, MemberInv, TypeInv, TypeOK
<1>2. ASSUME NEW s \in Requests PROVE Backed(req'[s], account', org', member')
  <2>1. CASE s = r
    BY <1>1, <2>1
  <2>2. CASE s # r
    <3> DEFINE y == req[s]
    <3>1. req'[s] = y /\ Shaped(y) /\ Backed(y, account, org, member)
      BY <1>1, <2>2, RequestType DEF TokenInv, MemberInv
    <3>2. Answers(y) => ~(Answers(req[r]) /\ y.user = req[r].user)
      BY <2>2 DEF TokenInv, Alone
    <3> HIDE DEF y
    <3>3. y.pc \in Accepting => y.org \in Orgs /\ y.user \in Users
      BY <3>1 DEF Shaped
    <3>4. y.pc \in Accepting => org'[y.org] # "none"
      BY <3>1, <3>3 DEF Backed, Spares
    <3>5. y.pc = "accept_grant" => member'[<<y.org, y.user>>].role = "none"
      <4> SUFFICES ASSUME y.pc = "accept_grant" PROVE member'[<<y.org, y.user>>].role = "none"
        OBVIOUS
      <4>1. y.pc \in Accepting /\ Answers(y)
        BY DEF Accepting, Answers
      <4>2. RoleOf(y.org, y.user) = "none" /\ org[y.org] # "none"
        BY <3>1, <4>1 DEF Backed, RoleOf
      <4> QED BY <3>2, <3>3, <4>1, <4>2 DEF Spares
    <3>6. /\ y.pc = "create" => y.actor \in Users
          /\ y.pc \in Registering => y.user \in Users
          /\ y.pc = "register_token" => y.pc \in Registering
      BY <3>1 DEF Shaped, Registering
    <3>7. /\ y.pc = "create" => account'[y.actor].made
          /\ y.pc \in Registering => account'[y.user].made
          /\ y.pc = "register_token" => account'[y.user].password
      BY <3>1, <3>6 DEF Backed, Spares
    <3> QED BY <3>1, <3>4, <3>5, <3>7 DEF Backed
  <2> QED BY <2>1, <2>2
<1>3. Alone'
  <2> SUFFICES ASSUME NEW s \in Requests, NEW t \in Requests,
                      Answers(req'[s]), Answers(req'[t]), req'[s].user = req'[t].user, s # t
               PROVE  FALSE
    BY DEF Alone, Answers
  <2>1. ASSUME NEW q \in Requests, q # r, Answers(req[q]), Answers(x), req[q].user = x.user
        PROVE  FALSE
    BY <2>1 DEF TokenInv, Alone
  <2>2. CASE s = r
    BY <1>1, <2>1, <2>2
  <2>3. CASE t = r
    BY <1>1, <2>1, <2>3
  <2>4. CASE s # r /\ t # r
    BY <1>1, <2>4 DEF TokenInv, Alone
  <2> QED BY <2>2, <2>3, <2>4
<1> QED BY <1>2, <1>3 DEF TokenInv

(* A step that neither makes an account without a password nor gives up the    *)
(* answer or the token that one relies on.                                     *)
LEMMA TokensKept ==
  ASSUME TokenInv, NEW r \in Requests, NEW x, req' = [req EXCEPT ![r] = x],
         \A o \in Orgs : org[o] = "deleted" => org'[o] = "deleted",
         faults' \in {faults, faults + 1},
         \A u \in Users :
           account'[u].made /\ ~account'[u].password =>
             /\ account[u].made /\ ~account[u].password
             /\ regToken[u] \in {"live", "expired"} => regToken'[u] \in {"live", "expired"},
         x = req[r] \/ req[r].pc # "accept_grant" \/ faults' = faults + 1
  PROVE  PasswordlessHasToken'
<1>1. faults \in Nat /\ \A s \in Requests : req'[s] = IF s = r THEN x ELSE req[s]
  BY DEF TokenInv, MemberInv, TypeInv, TypeOK
<1>2. (faults > 0 => faults' > 0) /\ (faults' = faults + 1 => faults' > 0)
  BY <1>1
<1> SUFFICES ASSUME NEW u \in Users, account'[u].made, ~account'[u].password
             PROVE  \/ regToken'[u] \in {"live", "expired"}
                    \/ \E s \in Requests : req'[s].pc = "accept_grant" /\ req'[s].user = u
                    \/ faults' > 0 \/ \E o \in Orgs : org'[o] = "deleted"
  BY DEF PasswordlessHasToken
<1>3. \/ regToken[u] \in {"live", "expired"}
      \/ \E s \in Requests : req[s].pc = "accept_grant" /\ req[s].user = u
      \/ faults > 0 \/ \E o \in Orgs : org[o] = "deleted"
  BY DEF TokenInv, PasswordlessHasToken
<1>4. ASSUME NEW s \in Requests, req[s].pc = "accept_grant", req[s].user = u
      PROVE  (req'[s].pc = "accept_grant" /\ req'[s].user = u) \/ faults' > 0
  BY <1>1, <1>2, <1>4
<1> QED BY <1>2, <1>3, <1>4

LEMMA GroundedStays ==
  ASSUME TokenInv, NEW r \in Requests, Spares(r),
         \A u \in Users : account'[u].verified => account'[u].made,
         \A u \in Users : regToken'[u] # "none" => regToken[u] # "none" \/ account'[u].made,
         \A u \in links' : u \in Users /\ (u \in links \/ account'[u].made),
         \A o \in Orgs, u \in Users :
           member'[<<o, u>>].role # "none" => RoleOf(o, u) # "none" \/ account'[u].made,
         \A i \in Invites :
           /\ invite'[i].status = "deleted" => invite[i].status = "deleted" \/ Deleted'
           /\ invite'[i].status \notin {"none", "deleted"} =>
                \/ Stored(i) /\ invite'[i].org = invite[i].org
                \/ org'[invite'[i].org] # "none"
  PROVE  Grounded'
<1>1. Grounded /\ Spares(r)
  BY DEF TokenInv
<1>2. \A u \in Users : account[u].made => account'[u].made
  BY <1>1 DEF Spares
<1>3. Deleted => Deleted'
  BY <1>1 DEF Spares, Deleted
<1>4. \A u \in Users : regToken'[u] # "none" => account'[u].made
  BY <1>1, <1>2 DEF Grounded
<1>5. \A u \in links' : account'[u].made
  BY <1>1, <1>2 DEF Grounded
<1>6. \A o \in Orgs, u \in Users : RoleOf(o, u)' # "none" => account'[u].made
  BY <1>1, <1>2 DEF Grounded, RoleOf
<1>7. \A i \in Invites : invite'[i].status = "deleted" => Deleted'
  BY <1>1, <1>3 DEF Grounded
<1>8. \A i \in Invites : Stored(i)' => org'[invite'[i].org] # "none"
  <2> SUFFICES ASSUME NEW i \in Invites, Stored(i), invite'[i].org = invite[i].org
               PROVE  org'[invite'[i].org] # "none"
    BY DEF Stored
  <2>1. invite[i].org \in Orgs /\ org[invite[i].org] # "none"
    BY <1>1 DEF Grounded, TokenInv, MemberInv, TypeInv
  <2> QED BY <1>1, <2>1 DEF Spares
<1> QED BY <1>4, <1>5, <1>6, <1>7, <1>8 DEF Grounded

(* Rows that did not change. *)
LEMMA RowsSpared ==
  ASSUME TokenInv, NEW r \in Requests,
         UNCHANGED <<account, regToken, links, org, member, invite>>
  PROVE  Spares(r) /\ Grounded'
<1>1. Spares(r)
  BY DEF Spares, RoleOf
<1>2. links \subseteq Users
  BY DEF TokenInv, MemberInv, TypeInv, TypeOK
<1>3. Grounded
  BY DEF TokenInv
<1>4. /\ \A u \in Users : account'[u].verified => account'[u].made
      /\ \A u \in links' : u \in Users /\ (u \in links \/ account'[u].made)
  BY <1>2, <1>3 DEF Grounded
<1> QED BY <1>1, <1>4, GroundedStays DEF RoleOf, Stored

LEMMA TokenDone ==
  ASSUME TokenInv, MemberInv', Grounded', PasswordlessHasToken', NEW r \in Requests, Spares(r), Done(r)
  PROVE  TokenInv'
<1>1. Idle \in RequestRecord /\ Idle.pc = "idle"
  BY IdleShaped
<1>2. req' = [req EXCEPT ![r] = Idle]
  BY DEF Done
<1> HIDE DEF Idle
<1>3. Backed(Idle, account', org', member') /\ ~Answers(Idle)
  BY <1>1 DEF Backed, Answers, Accepting, Registering
<1> QED BY <1>1, <1>2, <1>3, SparedStay

LEMMA StartTokens ==
  ASSUME TokenInv, MemberInv', NEW r \in Requests, CanStart(r), Start(r), ~AnswersOverlap
  PROVE  TokenInv'
<1>1. /\ UNCHANGED <<account, regToken, links, org, member, invite, faults>>
      /\ \E x \in RequestRecord : req' = [req EXCEPT ![r] = x] /\ Shaped(x) /\ Begun(x)
  BY StartMoves DEF TokenInv, MemberInv
<1>2. PICK x \in RequestRecord : req' = [req EXCEPT ![r] = x] /\ Shaped(x) /\ Begun(x)
  BY <1>1
<1>3. Spares(r) /\ Grounded'
  BY <1>1, RowsSpared
<1>4. PasswordlessHasToken'
  <2>1. req[r].pc # "accept_grant"
    BY DEF CanStart
  <2> QED BY <1>1, <1>2, <2>1, TokensKept
<1>5. Backed(x, account, org, member)
  <2>1. x.pc \in Accepting => org[x.org] # "none"
    <3> SUFFICES ASSUME x.pc \in Accepting PROVE org[x.org] # "none"
      OBVIOUS
    <3>1. x.pc = "accept"
      BY <1>2 DEF Begun, Accepting
    <3>2. x.inv \in Invites /\ Stored(x.inv) /\ x.org = invite[x.inv].org
      BY <1>2, <3>1 DEF Begun, Shaped, Accepting, Stored
    <3> QED BY <3>2 DEF TokenInv, Grounded
  <2>2. x.pc # "accept_grant" /\ x.pc # "register_token"
    BY <1>2 DEF Begun
  <2>3. x.pc = "create" => account[x.actor].made
    BY <1>2 DEF Begun, Shaped, TokenInv, Grounded
  <2>4. x.pc \in Registering => account[x.user].made
    <3> SUFFICES ASSUME x.pc \in Registering PROVE account[x.user].made
      OBVIOUS
    <3>1. x.user \in Users /\ regToken[x.user] = "live"
      BY <1>2, <2>2 DEF Begun, Shaped, Registering
    <3> QED BY <3>1 DEF TokenInv, Grounded
  <2> QED BY <2>1, <2>2, <2>3, <2>4 DEF Backed
<1>6. Backed(x, account', org', member')
  BY <1>1, <1>5
<1>7. Answers(x) => \A s \in Requests : Answers(req[s]) => req[s].user # x.user
  <2> SUFFICES ASSUME Answers(x), NEW s \in Requests, Answers(req[s]), req[s].user = x.user
               PROVE  FALSE
    OBVIOUS
  <2>1. Answering(x.user) = {}
    BY <1>2 DEF Begun, Answers, Accepting
  <2>2. req[s].inv # None
    BY RequestType, MembershipAssumption DEF TokenInv, MemberInv, Shaped, Answers
  <2> QED BY <2>1, <2>2 DEF Answering
<1> QED BY <1>2, <1>3, <1>4, <1>6, <1>7, SparedStay

LEMMA ReadTokens ==
  ASSUME TokenInv, MemberInv', NEW r \in Requests, ReadStep(r)
  PROVE  TokenInv'
<1>1. /\ UNCHANGED <<account, regToken, links, org, member, invite>>
      /\ faults' \in {faults, faults + 1}
      /\ Done(r) \/ \E pc : Goto(r, pc) /\ Read(r, pc)
  BY ReadMoves
<1>2. Spares(r) /\ Grounded'
  BY <1>1, RowsSpared
<1>3. req[r].pc # "accept_grant" \/ faults' = faults + 1
  BY DEF ReadStep, InviteMember, InvitePending, RemoveRead, SetRoleRead, RevokeRead, ResendRead,
         AcceptRead, Dies
<1>4. PasswordlessHasToken'
  <2>1. \E x : req' = [req EXCEPT ![r] = x]
    BY <1>1 DEF Done, Goto
  <2> QED BY <1>1, <1>3, <2>1, TokensKept
<1>5. CASE Done(r)
  BY <1>2, <1>4, <1>5, TokenDone
<1>6. ASSUME NEW pc, Goto(r, pc), Read(r, pc) PROVE TokenInv'
  <2> DEFINE x == To(r, pc)
             y == req[r]
  <2>1. <<y.pc, pc>> \in Follows /\ pc \notin {"accept_grant", "register_token"}
    BY <1>6 DEF Read
  <2>2. /\ req' = [req EXCEPT ![r] = x] /\ x \in RequestRecord
        /\ x.pc = pc /\ x.org = y.org /\ x.user = y.user
    BY <1>6, <2>1, GotoMoves DEF TokenInv, MemberInv
  <2>3. Backed(y, account, org, member)
    BY DEF TokenInv
  <2> HIDE DEF x, y
  <2>4. /\ x.pc \in Accepting => y.pc \in Accepting
        /\ x.pc \notin Registering /\ x.pc \notin {"create", "decline"}
    BY <2>1, <2>2 DEF Follows, Accepting, Registering
  <2>5. Backed(x, account, org, member)
    BY <2>1, <2>2, <2>3, <2>4 DEF Backed, Registering
  <2>6. Backed(x, account', org', member')
    BY <1>1, <2>5
  <2>7. Answers(x) => Answers(y) /\ x.user = y.user
    BY <2>2, <2>4 DEF Answers
  <2> QED BY <1>2, <1>4, <2>2, <2>6, <2>7, SparedStay DEF y
<1> QED BY <1>1, <1>5, <1>6

(* Facts about the accounts that a step leaves alone. *)
LEMMA AccountFacts ==
  ASSUME TokenInv, NEW r \in Requests
  PROVE  /\ \A u \in Users : account[u].verified => account[u].made
         /\ \A u \in Users : regToken[u] # "none" => account[u].made
         /\ \A u \in links : u \in Users /\ account[u].made
         /\ \A o \in Orgs, u \in Users : RoleOf(o, u) # "none" => account[u].made
         /\ req[r] \in RequestRecord /\ Shaped(req[r]) /\ Backed(req[r], account, org, member)
         /\ Answered(req[r], account, member, invite)
<1>1. links \subseteq Users
  BY DEF TokenInv, MemberInv, TypeInv, TypeOK
<1> QED BY <1>1, RequestType DEF TokenInv, Grounded, MemberInv

LEMMA InviteTokens ==
  ASSUME TokenInv, MemberInv', NEW r \in Requests, InviteStep(r)
  PROVE  TokenInv'
<1>1. /\ req[r].inv \in Invites /\ Done(r)
      /\ UNCHANGED <<account, regToken, links, org, member, faults>>
      /\ \/ invite' = invite
         \/ \E s \in {"EXPIRED", "DECLINED", "ACCEPTED"} :
              Stored(req[r].inv) /\ invite' = [invite EXCEPT ![req[r].inv].status = s]
         \/ Stored(req[r].inv) /\ invite' = [invite EXCEPT ![req[r].inv].expired = FALSE]
  BY InviteStepMoves DEF TokenInv, MemberInv
<1>2. \A j \in Invites : /\ j # req[r].inv => invite'[j] = invite[j]
                         /\ invite'[j].org = invite[j].org
                         /\ Stored(j) <=> invite'[j].status \notin {"none", "deleted"}
  BY <1>1, StatusChanges DEF TokenInv, MemberInv
<1>3. \A j \in Invites : invite'[j].status = "deleted" => invite[j].status = "deleted"
  <2>1. Stored(req[r].inv) => invite'[req[r].inv].status # "deleted"
    BY <1>1, <1>2
  <2>2. ~Stored(req[r].inv) => invite' = invite
    BY <1>1
  <2> QED BY <1>1, <1>2, <2>1, <2>2
<1>4. Spares(r)
  BY <1>1 DEF Spares, RoleOf
<1>5. Grounded'
  BY <1>1, <1>2, <1>3, <1>4, AccountFacts, GroundedStays DEF RoleOf
<1>6. PasswordlessHasToken'
  <2>1. req[r].pc # "accept_grant"
    BY DEF InviteStep, RevokeWrite, ResendWrite, Decline, AcceptMark
  <2> QED BY <1>1, <2>1, TokensKept DEF Done
<1> QED BY <1>1, <1>4, <1>5, <1>6, TokenDone

LEMMA JoinTokens ==
  ASSUME TokenInv, MemberInv', NEW r \in Requests, JoinStep(r)
  PROVE  TokenInv'
<1>1. PICK o \in Orgs, u \in Users, i \in Invites, role \in Roles :
        /\ o = req[r].org /\ u = req[r].user /\ i = req[r].inv /\ role = req[r].role
        /\ req[r].pc \in {"accept_join", "accept_grant"}
        /\ Done(r) /\ UNCHANGED <<account, links, org, faults>>
        /\ \/ /\ CanJoin(r) /\ member' = Joined(o, u, role) /\ invite' = Accepted(i)
              /\ regToken' = IF req[r].pc = "accept_grant"
                             THEN [regToken EXCEPT ![u] = "live"] ELSE regToken
           \/ ~CanJoin(r) /\ UNCHANGED <<member, invite, regToken>>
  <2> HIDE DEF Roles
  <2> QED BY JoinStepMoves DEF TokenInv, MemberInv
<1> HIDE DEF Roles
<1>2. Answers(req[r]) /\ account[u].made /\ org[o] # "none" /\ invite[i].status # "none"
  BY <1>1, AccountFacts DEF Answers, Accepting, Answered, Backed
<1>3. regToken \in [Users -> {"none", "live", "expired", "used"}]
  BY RowTypes DEF TokenInv, MemberInv
<1>4. CASE ~CanJoin(r) /\ UNCHANGED <<member, invite, regToken>>
  <2>1. Spares(r) /\ Grounded'
    BY <1>1, <1>4, RowsSpared
  <2>2. PasswordlessHasToken'
    <3>1. CASE req[r].pc = "accept_join"
      BY <1>1, <1>4, <3>1, TokensKept DEF Done
    <3>2. CASE req[r].pc = "accept_grant"
      <4>1. RoleOf(o, u) = "none"
        BY <1>1, <3>2, AccountFacts DEF Backed, RoleOf
      <4>2. org[o] # "live" \/ ~Stored(i)
        BY <1>1, <1>4, <4>1 DEF CanJoin
      <4>3. \E p \in Orgs : org[p] = "deleted"
        <5>1. org[o] # "live" => org[o] = "deleted"
          BY <1>2 DEF TokenInv, MemberInv, TypeInv, TypeOK
        <5>2. ~Stored(i) => Deleted
          BY <1>2 DEF Stored, TokenInv, Grounded
        <5> QED BY <4>2, <5>1, <5>2 DEF Deleted
      <4>4. \E p \in Orgs : org'[p] = "deleted"
        BY <1>1, <4>3
      <4> QED BY <4>4 DEF PasswordlessHasToken
    <3> QED BY <1>1, <3>1, <3>2
  <2> QED BY <1>1, <2>1, <2>2, TokenDone
<1>5. CASE /\ CanJoin(r) /\ member' = Joined(o, u, role) /\ invite' = Accepted(i)
           /\ regToken' = IF req[r].pc = "accept_grant"
                          THEN [regToken EXCEPT ![u] = "live"] ELSE regToken
  <2>1. \A q \in Orgs \X Users : q # <<o, u>> => member'[q] = member[q]
    BY <1>5, JoinedRows DEF TokenInv, MemberInv
  <2>2. \A p \in Orgs, v \in Users : member'[<<p, v>>].role # "none" => RoleOf(p, v) # "none" \/ v = u
    BY <2>1 DEF RoleOf
  <2>3. Spares(r)
    BY <1>1, <1>2, <2>2 DEF Spares
  <2>4. Stored(i) /\ invite' = [invite EXCEPT ![i].status = "ACCEPTED"]
    BY <1>1, <1>5 DEF CanJoin, Accepted
  <2>5. \A j \in Invites : /\ j # i => invite'[j] = invite[j]
                           /\ invite'[j].org = invite[j].org
                           /\ Stored(j) <=> invite'[j].status \notin {"none", "deleted"}
    BY <2>4, StatusChanges DEF TokenInv, MemberInv
  <2>6. \A j \in Invites :
          /\ invite'[j].status = "deleted" => invite[j].status = "deleted"
          /\ invite'[j].status \notin {"none", "deleted"} => Stored(j) /\ invite'[j].org = invite[j].org
    BY <2>4, <2>5
  <2>7. \A v \in Users : /\ regToken'[v] # "none" => regToken[v] # "none" \/ account'[v].made
                         /\ regToken[v] \in {"live", "expired"} => regToken'[v] \in {"live", "expired"}
    BY <1>1, <1>2, <1>3, <1>5
  <2>8. Grounded'
    BY <1>1, <1>2, <2>2, <2>3, <2>6, <2>7, AccountFacts, GroundedStays
  <2>9. PasswordlessHasToken'
    <3>1. CASE req[r].pc = "accept_join"
      BY <1>1, <2>7, <3>1, TokensKept DEF Done
    <3>2. CASE req[r].pc = "accept_grant"
      <4>1. regToken'[u] = "live" /\ \A s \in Requests : s # r => req'[s] = req[s]
        BY <1>1, <1>3, <1>5, <3>2 DEF Done, TokenInv, MemberInv, TypeInv, TypeOK
      <4> SUFFICES ASSUME NEW v \in Users, account'[v].made, ~account'[v].password, v # u
                   PROVE  \/ regToken'[v] \in {"live", "expired"}
                          \/ \E s \in Requests : req'[s].pc = "accept_grant" /\ req'[s].user = v
                          \/ faults' > 0 \/ \E p \in Orgs : org'[p] = "deleted"
        BY <4>1 DEF PasswordlessHasToken
      <4>2. \/ regToken[v] \in {"live", "expired"}
            \/ \E s \in Requests : req[s].pc = "accept_grant" /\ req[s].user = v
            \/ faults > 0 \/ \E p \in Orgs : org[p] = "deleted"
        BY <1>1 DEF TokenInv, PasswordlessHasToken
      <4>3. ASSUME NEW s \in Requests, req[s].pc = "accept_grant", req[s].user = v
            PROVE  req'[s].pc = "accept_grant" /\ req'[s].user = v
        BY <1>1, <4>1, <4>3
      <4> QED BY <1>1, <2>7, <4>2, <4>3
    <3> QED BY <1>1, <3>1, <3>2
  <2> QED BY <1>1, <2>3, <2>8, <2>9, TokenDone
<1> QED BY <1>1, <1>4, <1>5

LEMMA CreateTokens ==
  ASSUME TokenInv, MemberInv', NEW r \in Requests, NEW o \in Orgs, CreateOrg(r, o)
  PROVE  TokenInv'
<1>1. PICK u \in Users : /\ u = req[r].actor /\ req[r].pc = "create" /\ org[o] = "none" /\ Done(r)
                         /\ org' = [org EXCEPT ![o] = "live"] /\ member' = Joined(o, u, "OWNER")
                         /\ UNCHANGED <<account, regToken, links, invite, faults>>
  BY AccountFacts DEF CreateOrg, Shaped
<1>2. account[u].made
  BY <1>1, AccountFacts DEF Backed
<1>3. "OWNER" \in Roles
  BY DEF Roles
<1> HIDE DEF Roles
<1>4. \A q \in Orgs \X Users : q # <<o, u>> => member'[q] = member[q]
  BY <1>1, <1>3, JoinedRows DEF TokenInv, MemberInv
<1>5. \A p \in Orgs, v \in Users :
        member'[<<p, v>>].role # "none" => RoleOf(p, v) # "none" \/ (v = u /\ p = o)
  BY <1>4 DEF RoleOf
<1>6. \A p \in Orgs : org'[p] = IF p = o THEN "live" ELSE org[p]
  BY <1>1 DEF TokenInv, MemberInv, TypeInv, TypeOK
<1>7. Spares(r)
  BY <1>1, <1>5, <1>6 DEF Spares
<1>8. Grounded'
  <2>1. \A j \in Invites :
          /\ invite'[j].status = "deleted" => invite[j].status = "deleted"
          /\ invite'[j].status \notin {"none", "deleted"} => Stored(j) /\ invite'[j].org = invite[j].org
    BY <1>1 DEF Stored
  <2> QED BY <1>1, <1>2, <1>5, <1>7, <2>1, AccountFacts, GroundedStays
<1>9. PasswordlessHasToken'
  BY <1>1, <1>6, TokensKept DEF Done
<1> QED BY <1>1, <1>7, <1>8, <1>9, TokenDone

LEMMA InviteCreateTokens ==
  ASSUME TokenInv, MemberInv', NEW r \in Requests, NEW i \in Invites, InviteCreate(r, i)
  PROVE  TokenInv'
<1> DEFINE new == [status |-> "PENDING", org |-> req[r].org, user |-> req[r].user,
                   role |-> req[r].role, expired |-> FALSE]
<1>1. /\ req[r].pc = "invite_create" /\ Done(r)
      /\ invite' = IF org[req[r].org] = "live" THEN [invite EXCEPT ![i] = new] ELSE invite
      /\ UNCHANGED <<account, regToken, links, org, member, faults>>
  BY DEF InviteCreate
<1>2. new.org = req[r].org /\ new.status = "PENDING"
  OBVIOUS
<1> HIDE DEF new
<1>3. \A j \in Invites : \/ invite'[j] = invite[j]
                         \/ invite'[j] = new /\ org[new.org] = "live"
  BY <1>1, <1>2 DEF TokenInv, MemberInv, TypeInv, TypeOK
<1>4. \A j \in Invites :
        /\ invite'[j].status = "deleted" => invite[j].status = "deleted"
        /\ invite'[j].status \notin {"none", "deleted"} =>
             \/ Stored(j) /\ invite'[j].org = invite[j].org
             \/ org'[invite'[j].org] # "none"
  BY <1>1, <1>2, <1>3 DEF Stored
<1>5. Spares(r)
  BY <1>1 DEF Spares, RoleOf
<1>6. Grounded'
  BY <1>1, <1>4, <1>5, AccountFacts, GroundedStays DEF RoleOf
<1>7. PasswordlessHasToken'
  BY <1>1, TokensKept DEF Done
<1> QED BY <1>1, <1>5, <1>6, <1>7, TokenDone

LEMMA ChangeTokens ==
  ASSUME TokenInv, MemberInv', NEW r \in Requests, RemoveWrite(r) \/ SetRoleWrite(r)
  PROVE  TokenInv'
<1> DEFINE p == <<req[r].org, req[r].user>>
<1>1. /\ p \in Orgs \X Users /\ Done(r) /\ req[r].pc \in {"remove_write", "role_write"}
      /\ UNCHANGED <<account, regToken, links, org, invite, faults>>
      /\ \/ member' = member
         \/ /\ member[p].role # "none"
            /\ \E role \in Invitable \cup {"none"} : member' = [member EXCEPT ![p].role = role]
  <2>1. Shaped(req[r])
    BY AccountFacts
  <2>2. CASE RemoveWrite(r)
    BY <2>1, <2>2 DEF RemoveWrite, SameRow, RoleOf, Shaped, Changing
  <2>3. CASE SetRoleWrite(r)
    BY <2>1, <2>3 DEF SetRoleWrite, SameRow, RoleOf, Shaped, Changing
  <2> QED BY <2>2, <2>3
<1> HIDE DEF p
<1>2. \A q \in Orgs \X Users : member'[q].role # "none" => member[q].role # "none"
  <2>1. ASSUME NEW role \in Invitable \cup {"none"}, member' = [member EXCEPT ![p].role = role]
        PROVE  \A q \in Orgs \X Users : q # p => member'[q] = member[q]
    <3>1. role \in Roles \cup {"none"}
      BY DEF Invitable, Roles
    <3> HIDE DEF Roles
    <3> QED BY <1>1, <2>1, <3>1, RoleChanges DEF TokenInv, MemberInv
  <2> QED BY <1>1, <2>1
<1>3. \A o \in Orgs, u \in Users : member'[<<o, u>>].role # "none" => RoleOf(o, u) # "none"
  BY <1>2 DEF RoleOf
<1>4. Spares(r)
  BY <1>1, <1>3 DEF Spares
<1>5. Grounded'
  <2>1. \A j \in Invites :
          /\ invite'[j].status = "deleted" => invite[j].status = "deleted"
          /\ invite'[j].status \notin {"none", "deleted"} => Stored(j) /\ invite'[j].org = invite[j].org
    BY <1>1 DEF Stored
  <2> QED BY <1>1, <1>3, <1>4, <2>1, AccountFacts, GroundedStays
<1>6. PasswordlessHasToken'
  BY <1>1, TokensKept DEF Done
<1> QED BY <1>1, <1>4, <1>5, <1>6, TokenDone

(* The account is pre-created: the request goes on to its token. *)
LEMMA NewTokens ==
  ASSUME TokenInv, MemberInv', NEW r \in Requests, AcceptNew(r)
  PROVE  TokenInv'
<1>1. PICK u \in Users : /\ u = req[r].user /\ req[r].pc = "accept_new"
                         /\ UNCHANGED <<regToken, links, org, member, invite, faults>>
                         /\ \/ /\ ~account[u].made /\ account' = [account EXCEPT ![u].made = TRUE]
                               /\ Goto(r, "accept_grant")
                            \/ account' = account /\ Done(r)
  BY AccountFacts DEF AcceptNew, Shaped, Accepting
<1>2. account \in [Users -> [made : BOOLEAN, password : BOOLEAN, verified : BOOLEAN]]
  BY RowTypes DEF TokenInv, MemberInv
<1>3. CASE account' = account /\ Done(r)
  <2>1. Spares(r) /\ Grounded'
    BY <1>1, <1>3, RowsSpared
  <2>2. PasswordlessHasToken'
    BY <1>1, <1>3, TokensKept DEF Done
  <2> QED BY <1>3, <2>1, <2>2, TokenDone
<1>4. CASE /\ ~account[u].made /\ account' = [account EXCEPT ![u].made = TRUE]
           /\ Goto(r, "accept_grant")
  <2>1. /\ \A v \in Users : v # u => account'[v] = account[v]
        /\ account'[u].made
        /\ account'[u].password = account[u].password /\ account'[u].verified = account[u].verified
    BY <1>2, <1>4, AccountMade
  <2> DEFINE x == To(r, "accept_grant")
  <2>2. <<"accept_new", "accept_grant">> \in Follows
    BY DEF Follows
  <2>3. /\ req' = [req EXCEPT ![r] = x] /\ x \in RequestRecord
        /\ x.pc = "accept_grant" /\ x.org = req[r].org /\ x.user = u
    BY <1>1, <1>4, <2>2, GotoMoves DEF TokenInv, MemberInv
  <2>4. req[r].org \in Orgs /\ org[req[r].org] # "none" /\ Answers(req[r])
    BY <1>1, AccountFacts DEF Shaped, Backed, Accepting, Answers
  <2>5. RoleOf(req[r].org, u) = "none"
    BY <1>4, <2>4, AccountFacts
  <2> HIDE DEF x
  <2>6. Spares(r)
    BY <1>1, <2>1 DEF Spares, RoleOf
  <2>7. Grounded'
    <3>1. \A j \in Invites :
            /\ invite'[j].status = "deleted" => invite[j].status = "deleted"
            /\ invite'[j].status \notin {"none", "deleted"} => Stored(j) /\ invite'[j].org = invite[j].org
      BY <1>1 DEF Stored
    <3>2. \A v \in Users : account'[v].verified => account'[v].made
      BY <2>1, AccountFacts
    <3> QED BY <1>1, <2>6, <3>1, <3>2, AccountFacts, GroundedStays DEF RoleOf
  <2>8. Backed(x, account', org', member')
    BY <1>1, <2>3, <2>4, <2>5 DEF Backed, RoleOf, Registering
  <2>9. PasswordlessHasToken'
    <3>1. \A s \in Requests : req'[s] = IF s = r THEN x ELSE req[s]
      BY <2>3 DEF TokenInv, MemberInv, TypeInv, TypeOK
    <3> SUFFICES ASSUME NEW v \in Users, account'[v].made, ~account'[v].password, v # u
                 PROVE  \/ regToken'[v] \in {"live", "expired"}
                        \/ \E s \in Requests : req'[s].pc = "accept_grant" /\ req'[s].user = v
                        \/ faults' > 0 \/ \E p \in Orgs : org'[p] = "deleted"
      BY <2>3, <3>1 DEF PasswordlessHasToken
    <3>2. \/ regToken[v] \in {"live", "expired"}
          \/ \E s \in Requests : req[s].pc = "accept_grant" /\ req[s].user = v
          \/ faults > 0 \/ \E p \in Orgs : org[p] = "deleted"
      BY <2>1 DEF TokenInv, PasswordlessHasToken
    <3>3. ASSUME NEW s \in Requests, req[s].pc = "accept_grant", req[s].user = v
          PROVE  req'[s].pc = "accept_grant" /\ req'[s].user = v
      BY <1>1, <3>1, <3>3
    <3> QED BY <1>1, <3>2, <3>3
  <2> QED BY <1>1, <2>3, <2>4, <2>6, <2>7, <2>8, <2>9, SparedStay
<1> QED BY <1>1, <1>3, <1>4

(* Registration gives the account its password before the token is used up.   *)
LEMMA RegisterTokens ==
  ASSUME TokenInv, MemberInv', NEW r \in Requests,
         RegisterInvited(r) \/ RegisterOther(r) \/ RegisterToken(r)
  PROVE  TokenInv'
<1>1. PICK u \in Users :
        /\ u = req[r].user /\ req[r].pc \in Registering
        /\ UNCHANGED <<links, org, member, invite, faults>>
        /\ \/ account' = account /\ regToken' = regToken /\ Done(r)
           \/ /\ account' = [account EXCEPT ![u].password = TRUE, ![u].verified = TRUE]
              /\ regToken' = [regToken EXCEPT ![u] = "used"] /\ Done(r)
           \/ /\ account' = [account EXCEPT ![u].password = TRUE, ![u].verified = FALSE]
              /\ regToken' = regToken /\ req[r].pc = "register_other" /\ Goto(r, "register_token")
           \/ /\ account' = account /\ req[r].pc = "register_token"
              /\ regToken' = [regToken EXCEPT ![u] = "used"] /\ Done(r)
  BY AccountFacts DEF RegisterInvited, RegisterOther, RegisterToken, Shaped, Registering
<1>2. /\ account \in [Users -> [made : BOOLEAN, password : BOOLEAN, verified : BOOLEAN]]
      /\ regToken \in [Users -> {"none", "live", "expired", "used"}]
  BY RowTypes DEF TokenInv, MemberInv
<1>3. account[u].made /\ (req[r].pc = "register_token" => account[u].password)
  BY <1>1, AccountFacts DEF Backed
<1>4. /\ \A v \in Users : v # u => account'[v] = account[v]
      /\ account'[u].made /\ (account[u].password => account'[u].password)
  <2>1. CASE account' = account
    BY <1>3, <2>1
  <2>2. ASSUME NEW b \in BOOLEAN,
               account' = [account EXCEPT ![u].password = TRUE, ![u].verified = b]
        PROVE  /\ \A v \in Users : v # u => account'[v] = account[v]
               /\ account'[u].made /\ account'[u].password
    BY <1>2, <1>3, <2>2, AccountWritten
  <2> QED BY <1>1, <2>1, <2>2
<1>5. regToken' = regToken \/ (regToken' = [regToken EXCEPT ![u] = "used"] /\ account'[u].password)
  <2>1. ASSUME account' = [account EXCEPT ![u].password = TRUE, ![u].verified = TRUE]
        PROVE  account'[u].password
    BY <1>2, <2>1, AccountWritten
  <2> QED BY <1>1, <1>3, <2>1
<1>6. Spares(r)
  BY <1>1, <1>3, <1>4 DEF Spares, RoleOf
<1>7. Grounded'
  <2>1. \A j \in Invites :
          /\ invite'[j].status = "deleted" => invite[j].status = "deleted"
          /\ invite'[j].status \notin {"none", "deleted"} => Stored(j) /\ invite'[j].org = invite[j].org
    BY <1>1 DEF Stored
  <2>2. \A v \in Users : account'[v].verified => account'[v].made
    BY <1>4, AccountFacts
  <2>3. \A v \in Users : regToken'[v] # "none" => regToken[v] # "none" \/ account'[v].made
    BY <1>2, <1>4, <1>5
  <2> QED BY <1>1, <1>6, <2>1, <2>2, <2>3, AccountFacts, GroundedStays DEF RoleOf
<1>8. PasswordlessHasToken'
  <2>1. \A v \in Users :
          account'[v].made /\ ~account'[v].password =>
            /\ account[v].made /\ ~account[v].password
            /\ regToken[v] \in {"live", "expired"} => regToken'[v] \in {"live", "expired"}
    <3> SUFFICES ASSUME NEW v \in Users, account'[v].made, ~account'[v].password
                 PROVE  /\ account[v].made /\ ~account[v].password
                        /\ regToken[v] \in {"live", "expired"} => regToken'[v] \in {"live", "expired"}
      OBVIOUS
    <3>1. CASE v = u
      BY <1>3, <1>4, <1>5, <3>1
    <3>2. CASE v # u
      BY <1>2, <1>4, <1>5, <3>2
    <3> QED BY <3>1, <3>2
  <2>2. req[r].pc # "accept_grant" /\ \E x : req' = [req EXCEPT ![r] = x]
    BY <1>1 DEF Registering, Done, Goto
  <2> QED BY <1>1, <2>1, <2>2, TokensKept
<1>9. CASE Done(r)
  BY <1>6, <1>7, <1>8, <1>9, TokenDone
<1>10. CASE /\ account' = [account EXCEPT ![u].password = TRUE, ![u].verified = FALSE]
            /\ req[r].pc = "register_other" /\ Goto(r, "register_token")
  <2> DEFINE x == To(r, "register_token")
  <2>1. <<"register_other", "register_token">> \in Follows
    BY DEF Follows
  <2>2. req' = [req EXCEPT ![r] = x] /\ x \in RequestRecord /\ x.pc = "register_token" /\ x.user = u
    BY <1>1, <1>10, <2>1, GotoMoves DEF TokenInv, MemberInv
  <2>3. account'[u].password
    BY <1>2, <1>10, AccountWritten
  <2> HIDE DEF x
  <2>4. Backed(x, account', org', member') /\ ~Answers(x)
    BY <1>4, <2>2, <2>3 DEF Backed, Answers, Accepting
  <2> QED BY <1>6, <1>7, <1>8, <2>2, <2>4, SparedStay
<1> QED BY <1>1, <1>9, <1>10

(* What the environment leaves to the requests in progress. *)
Leaves ==
  /\ \A u \in Users : /\ account[u].made => account'[u].made
                      /\ account[u].password => account'[u].password
  /\ \A o \in Orgs : /\ org[o] # "none" => org'[o] # "none"
                     /\ org[o] = "deleted" => org'[o] = "deleted"
  /\ \A o \in Orgs, u \in Users : member'[<<o, u>>].role # "none" => RoleOf(o, u) # "none"
  /\ \A u \in Users :
       account'[u].made /\ ~account'[u].password =>
         /\ account[u].made /\ ~account[u].password
         /\ regToken[u] \in {"live", "expired"} => regToken'[u] \in {"live", "expired"}
  /\ UNCHANGED <<req, faults>>

LEMMA LeavesTokens ==
  ASSUME TokenInv, MemberInv', Leaves,
         \A u \in Users : account'[u].verified => account'[u].made,
         \A u \in Users : regToken'[u] # "none" => regToken[u] # "none" \/ account'[u].made,
         \A u \in links' : u \in Users /\ (u \in links \/ account'[u].made),
         \A i \in Invites :
           /\ invite'[i].status = "deleted" => invite[i].status = "deleted" \/ Deleted'
           /\ invite'[i].status \notin {"none", "deleted"} => Stored(i) /\ invite'[i].org = invite[i].org
  PROVE  TokenInv'
<1>1. PICK r \in Requests : TRUE
  BY MembershipAssumption
<1> DEFINE x == req[r]
<1>2. /\ req' = [req EXCEPT ![r] = x] /\ x \in RequestRecord
      /\ faults' = faults
  BY RequestType DEF TokenInv, MemberInv, TypeInv, TypeOK, Leaves
<1>3. Spares(r)
  BY DEF Spares, Leaves
<1>4. Grounded'
  BY <1>3, GroundedStays DEF Leaves
<1>5. PasswordlessHasToken'
  BY <1>2, TokensKept DEF Leaves
<1>6. /\ Backed(x, account, org, member)
      /\ x.pc \in Accepting => x.org \in Orgs /\ x.user \in Users
      /\ x.pc = "create" => x.actor \in Users
      /\ x.pc \in Registering => x.user \in Users
  BY AccountFacts DEF Shaped
<1> HIDE DEF x
<1>7. Backed(x, account', org', member')
  <2>1. x.pc \in Accepting => org'[x.org] # "none"
    BY <1>6 DEF Backed, Leaves
  <2>2. x.pc = "accept_grant" => member'[<<x.org, x.user>>].role = "none"
    BY <1>6 DEF Backed, Leaves, RoleOf, Accepting
  <2>3. /\ x.pc = "create" => account'[x.actor].made
        /\ x.pc \in Registering => account'[x.user].made
        /\ x.pc = "register_token" => account'[x.user].password
    BY <1>6 DEF Backed, Leaves, Registering
  <2> QED BY <2>1, <2>2, <2>3 DEF Backed
<1> QED BY <1>2, <1>3, <1>4, <1>5, <1>7, SparedStay DEF x

LEMMA EnvironmentTokens ==
  ASSUME TokenInv, MemberInv', Environment
  PROVE  TokenInv'
<1>1. /\ account \in [Users -> [made : BOOLEAN, password : BOOLEAN, verified : BOOLEAN]]
      /\ regToken \in [Users -> {"none", "live", "expired", "used"}]
      /\ org \in [Orgs -> {"none", "live", "deleted"}]
  BY RowTypes DEF TokenInv, MemberInv
<1>2. PICK r \in Requests : TRUE
  BY MembershipAssumption
<1>3. /\ \A u \in Users : account[u].verified => account[u].made
      /\ \A u \in links : u \in Users /\ account[u].made
  BY <1>2, AccountFacts
<1>4. ASSUME NEW u \in Users, Register(u) PROVE TokenInv'
  <2> DEFINE row == [made |-> TRUE, password |-> TRUE, verified |-> FALSE]
  <2>1. row.made /\ row.password
    OBVIOUS
  <2>2. /\ account' = [account EXCEPT ![u] = row] /\ links' = links \cup {u}
        /\ UNCHANGED <<regToken, org, member, invite, req, faults>>
    BY <1>4 DEF Register
  <2> HIDE DEF row
  <2>3. (\A v \in Users : v # u => account'[v] = account[v]) /\ account'[u].made /\ account'[u].password
    BY <1>1, <2>1, <2>2
  <2>4. Leaves
    BY <2>2, <2>3 DEF Leaves, RoleOf
  <2>5. \A v \in Users : account'[v].verified => account'[v].made
    BY <1>3, <2>3
  <2> QED BY <1>3, <2>2, <2>3, <2>4, <2>5, LeavesTokens DEF Stored
<1>5. ASSUME NEW u \in Users, NEW b \in BOOLEAN, account[u].made,
             account' = [account EXCEPT ![u].verified = b],
             UNCHANGED <<regToken, links, org, member, invite, req, faults>>
      PROVE  TokenInv'
  <2>1. /\ \A v \in Users : v # u => account'[v] = account[v]
        /\ account'[u].made = account[u].made /\ account'[u].password = account[u].password
    BY <1>1, <1>5, AccountMarked
  <2>2. Leaves
    BY <1>5, <2>1 DEF Leaves, RoleOf
  <2>3. \A v \in Users : account'[v].verified => account'[v].made
    BY <1>3, <1>5, <2>1
  <2> QED BY <1>3, <1>5, <2>2, <2>3, LeavesTokens DEF Stored
<1>6. ASSUME NEW u \in Users, VerifyEmail(u) PROVE TokenInv'
  BY <1>3, <1>5, <1>6 DEF VerifyEmail
<1>7. ASSUME NEW u \in Users, NEW b \in BOOLEAN, UpdateUserStatus(u, b) PROVE TokenInv'
  BY <1>5, <1>7 DEF UpdateUserStatus
<1>8. ASSUME NEW u \in Users, TokenExpires(u) PROVE TokenInv'
  <2>1. /\ UNCHANGED <<account, links, org, member, invite, req, faults>>
        /\ \A v \in Users : /\ regToken'[v] # "none" => regToken[v] # "none"
                            /\ regToken[v] \in {"live", "expired"} => regToken'[v] \in {"live", "expired"}
    BY <1>1, <1>8 DEF TokenExpires
  <2>2. Leaves
    BY <2>1 DEF Leaves, RoleOf
  <2> QED BY <1>3, <2>1, <2>2, LeavesTokens DEF Stored
<1>9. ASSUME NEW o \in Orgs, DeleteOrganization(o) PROVE TokenInv'
  <2>1. /\ UNCHANGED <<account, regToken, links, req, faults>>
        /\ \A p \in Orgs : org'[p] = IF p = o THEN "deleted" ELSE org[p]
    BY <1>1, <1>9 DEF DeleteOrganization
  <2>2. \A q \in Orgs \X Users : member'[q].role # "none" => member[q].role # "none"
    <3>1. \A q \in Orgs \X Users :
            member'[q] = IF q[1] = o THEN [member[q] EXCEPT !.role = "none"] ELSE member[q]
      BY <1>9 DEF DeleteOrganization
    <3>2. \A q \in Orgs \X Users : [member[q] EXCEPT !.role = "none"].role = "none"
      <4> HIDE DEF Roles
      <4> QED BY DEF TokenInv, MemberInv, TypeInv, TypeOK
    <3> QED BY <3>1, <3>2
  <2>3. Leaves
    BY <2>1, <2>2 DEF Leaves, RoleOf
  <2> DEFINE gone == [NoInvite EXCEPT !.status = "deleted"]
  <2>4. gone.status = "deleted"
    BY DEF NoInvite
  <2>5. invite' = [i \in Invites |-> IF invite[i].org = o THEN gone ELSE invite[i]]
    BY <1>9 DEF DeleteOrganization
  <2> HIDE DEF gone
  <2>6. /\ Deleted'
        /\ \A i \in Invites :
             invite'[i].status \notin {"none", "deleted"} => Stored(i) /\ invite'[i].org = invite[i].org
    BY <2>1, <2>4, <2>5 DEF Deleted, Stored
  <2> QED BY <1>3, <2>1, <2>3, <2>6, LeavesTokens
<1>10. ASSUME NEW i \in Invites, InvitationExpires(i) PROVE TokenInv'
  <2>1. /\ Stored(i) /\ invite' = [invite EXCEPT ![i].expired = TRUE]
        /\ UNCHANGED <<account, regToken, links, org, member, req, faults>>
    BY <1>10 DEF InvitationExpires, Stored
  <2>2. \A j \in Invites : /\ j # i => invite'[j] = invite[j]
                           /\ invite'[j].org = invite[j].org
                           /\ Stored(j) <=> invite'[j].status \notin {"none", "deleted"}
    BY <2>1, StatusChanges DEF TokenInv, MemberInv
  <2>3. Leaves
    BY <2>1 DEF Leaves, RoleOf
  <2> QED BY <1>3, <2>1, <2>2, <2>3, LeavesTokens
<1> QED BY <1>4, <1>6, <1>7, <1>8, <1>9, <1>10 DEF Environment

LEMMA TokenInit == Init => TokenInv
<1> SUFFICES ASSUME Init PROVE TokenInv
  OBVIOUS
<1>1. MemberInv
  BY MemberInit
<1>2. \A r \in Requests : req[r].pc = "idle"
  BY IdleShaped DEF Init
<1>3. \A o \in Orgs, u \in Users : RoleOf(o, u) # "none" => u \in Registered
  <2> SUFFICES ASSUME NEW o \in Orgs, NEW u \in Users, SeedRole(o, u) # "none" PROVE u \in Registered
    BY DEF Init, RoleOf
  <2>1. PICK s \in Seed : s[1] = o /\ s[2] = u
    BY DEF SeedRole
  <2> QED BY <2>1, MembershipAssumption
<1>4. /\ \A u \in Users : account[u].made = (u \in Registered) /\ account[u].password = (u \in Registered)
      /\ \A u \in Users : account[u].verified = (u \in Registered)
      /\ regToken = [u \in Users |-> "none"] /\ links = {} /\ invite = [i \in Invites |-> NoInvite]
  BY DEF Init
<1>5. Grounded
  BY <1>3, <1>4 DEF Grounded, Stored, NoInvite
<1>6. Alone /\ \A r \in Requests : Backed(req[r], account, org, member)
  BY <1>2 DEF Alone, Answers, Backed, Accepting, Registering
<1>7. PasswordlessHasToken
  BY <1>4 DEF PasswordlessHasToken
<1> QED BY <1>1, <1>5, <1>6, <1>7 DEF TokenInv

LEMMA TokenNext ==
  ASSUME ~AnswersOverlap, TokenInv, [Next]_vars
  PROVE  TokenInv'
<1>1. MemberInv'
  BY MemberNext DEF TokenInv
<1>2. CASE Environment
  BY <1>1, <1>2, EnvironmentTokens
<1>3. ASSUME NEW r \in Requests, CanStart(r) /\ Start(r) PROVE TokenInv'
  BY <1>1, <1>3, StartTokens
<1>4. ASSUME NEW r \in Requests, Step(r) PROVE TokenInv'
  <2>1. CASE ReadStep(r)
    BY <1>1, <2>1, ReadTokens
  <2>2. CASE InviteStep(r)
    BY <1>1, <2>2, InviteTokens
  <2>3. CASE JoinStep(r)
    BY <1>1, <2>3, JoinTokens
  <2>4. ASSUME NEW o \in Orgs, CreateOrg(r, o) PROVE TokenInv'
    BY <1>1, <2>4, CreateTokens
  <2>5. ASSUME NEW i \in Invites, InviteCreate(r, i) PROVE TokenInv'
    BY <1>1, <2>5, InviteCreateTokens
  <2>6. CASE RemoveWrite(r) \/ SetRoleWrite(r)
    BY <1>1, <2>6, ChangeTokens
  <2>7. CASE AcceptNew(r)
    BY <1>1, <2>7, NewTokens
  <2>8. CASE RegisterInvited(r) \/ RegisterOther(r) \/ RegisterToken(r)
    BY <1>1, <2>8, RegisterTokens
  <2> QED BY <1>4, <2>1, <2>2, <2>3, <2>4, <2>5, <2>6, <2>7, <2>8
          DEF Step, ReadStep, InviteStep, JoinStep
<1>5. CASE UNCHANGED vars
  BY <1>1, <1>5 DEF vars, TokenInv, Grounded, Alone, PasswordlessHasToken, Stored, RoleOf, Deleted
<1> QED BY <1>2, <1>3, <1>4, <1>5 DEF Next

(* An invitee whose account was pre-created and who has no password yet has a   *)
(* registration token, unless the answer is still in progress, a request died  *)
(* half-way or an organization was deleted; for answers of one invitee that do *)
(* not overlap (userRespondToInvitation, createUser).                          *)
THEOREM TokenOutlivesAnswer ==
  ASSUME ~AnswersOverlap
  PROVE  Spec => []PasswordlessHasToken
<1>1. Init => TokenInv
  BY TokenInit
<1>2. TokenInv /\ [Next]_vars => TokenInv'
  BY TokenNext
<1>3. TokenInv => PasswordlessHasToken
  BY DEF TokenInv
<1> QED BY <1>1, <1>2, <1>3, PTL DEF Spec
=============================================================================
