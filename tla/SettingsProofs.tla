---------------------------- MODULE SettingsProofs ----------------------------
(***************************************************************************)
(* Machine-checked proofs about Settings, for all sets of users, keys and  *)
(* requests, every limit and any number of requests and faults.            *)
(***************************************************************************)
EXTENDS Settings, FiniteSetTheorems, TLAPS

-----------------------------------------------------------------------------
(* The shape of a request, and the number of secrets given: every secret but  *)
(* the first was asked for by a request of its own.                           *)

RequestRecord ==
  [pc : {"idle", "find_key", "code", "commit", "flag", "mfa_create",
         "dest_count", "dest_create"},
   kind : CodeKinds \cup {"none"}, user : Users \cup {None},
   key : Keys \cup {None}, code : [secret : Secrets, step : Steps]]

Shaped(x) ==
  /\ x.pc \in {"find_key", "code", "commit", "flag"} => x.kind \in CodeKinds
  /\ x.pc \in {"idle", "mfa_create", "dest_count", "dest_create"} => x.kind = "none"
  /\ x.pc # "idle" => x.user \in Users
  /\ x.kind \in {"rotate", "revoke"} => x.key \in Keys
  /\ x.pc = "flag" => x.kind = "complete"

At(pc) == {r \in Requests : req[r].pc = pc}

SecretsCounted ==
  \A u \in Users : mfa[u].secret + Cardinality(At("mfa_create")) <= begun + 1

TypeInv ==
  /\ TypeOK /\ begun <= MaxRequests
  /\ \A r \in Requests : Shaped(req[r])
  /\ SecretsCounted

-----------------------------------------------------------------------------
(* A request moves on. *)

LEMMA IdleShaped == Idle \in RequestRecord /\ Shaped(Idle)
<1>1. 0 \in Secrets /\ 0 \in Steps
  BY SettingsAssumption DEF Secrets, Steps
<1> QED BY <1>1 DEF Idle, NoCode, RequestRecord, Shaped

LEMMA AtFinite ==
  ASSUME NEW pc
  PROVE  IsFiniteSet(At(pc)) /\ Cardinality(At(pc)) \in Nat
                             /\ Cardinality(At(pc)) <= Cardinality(Requests)
<1>1. At(pc) \in SUBSET Requests
  BY DEF At
<1>2. IsFiniteSet(At(pc)) /\ Cardinality(At(pc)) <= Cardinality(Requests)
  BY <1>1, FS_Subset, SettingsAssumption
<1> QED BY <1>2, FS_CardinalityType

LEMMA RequestMoves ==
  ASSUME req \in [Requests -> RequestRecord], \A s \in Requests : Shaped(req[s]),
         NEW r \in Requests, NEW x \in RequestRecord, Shaped(x),
         req' = [req EXCEPT ![r] = x], NEW pc
  PROVE  /\ req' \in [Requests -> RequestRecord] /\ \A s \in Requests : Shaped(req'[s])
         /\ \A s \in Requests : req'[s] = IF s = r THEN x ELSE req[s]
         /\ Cardinality(At(pc)') \in Nat
         /\ x.pc = pc /\ req[r].pc # pc => Cardinality(At(pc)') = Cardinality(At(pc)) + 1
         /\ x.pc # pc /\ req[r].pc = pc => Cardinality(At(pc)') = Cardinality(At(pc)) - 1
         /\ (x.pc = pc <=> req[r].pc = pc) => Cardinality(At(pc)') = Cardinality(At(pc))
<1>1. \A s \in Requests : req'[s] = IF s = r THEN x ELSE req[s]
  OBVIOUS
<1>2. req' \in [Requests -> RequestRecord] /\ \A s \in Requests : Shaped(req'[s])
  BY <1>1
<1>3. IsFiniteSet(At(pc)) /\ Cardinality(At(pc)) \in Nat
  BY AtFinite
<1>4. CASE x.pc = pc
  <2>1. At(pc)' = At(pc) \cup {r}
    BY <1>1, <1>4 DEF At
  <2>2. r \in At(pc) <=> req[r].pc = pc
    BY DEF At
  <2>3. Cardinality(At(pc) \cup {r})
          = IF r \in At(pc) THEN Cardinality(At(pc)) ELSE Cardinality(At(pc)) + 1
    BY <1>3, FS_AddElement
  <2> QED BY <1>1, <1>2, <1>3, <1>4, <2>1, <2>2, <2>3
<1>5. CASE x.pc # pc
  <2>1. At(pc)' = At(pc) \ {r}
    BY <1>1, <1>5 DEF At
  <2>2. r \in At(pc) <=> req[r].pc = pc
    BY DEF At
  <2>3. /\ IsFiniteSet(At(pc) \ {r})
        /\ Cardinality(At(pc) \ {r})
             = IF r \in At(pc) THEN Cardinality(At(pc)) - 1 ELSE Cardinality(At(pc))
    BY <1>3, FS_RemoveElement
  <2>4. Cardinality(At(pc) \ {r}) \in Nat
    BY <2>3, FS_CardinalityType
  <2> QED BY <1>1, <1>2, <1>3, <1>5, <2>1, <2>2, <2>3, <2>4
<1> QED BY <1>4, <1>5

(* What a step does to the requests, the number of secrets and the count of   *)
(* requests begun is all that types and the numbering of secrets rest on.     *)
LEMMA CountsKept ==
  ASSUME TypeInv, NEW r \in Requests, NEW x \in RequestRecord, Shaped(x),
         x.pc # "mfa_create",
         req' = [req EXCEPT ![r] = x],
         \A u \in Users : mfa'[u].secret = mfa[u].secret,
         begun' \in Nat, begun' >= begun, begun' <= MaxRequests
  PROVE  /\ req' \in [Requests -> RequestRecord] /\ \A s \in Requests : Shaped(req'[s])
         /\ SecretsCounted'
<1>1. req \in [Requests -> RequestRecord] /\ \A s \in Requests : Shaped(req[s])
  BY DEF TypeInv, TypeOK, RequestRecord
<1>2. /\ req' \in [Requests -> RequestRecord] /\ \A s \in Requests : Shaped(req'[s])
      /\ Cardinality(At("mfa_create")') \in Nat
      /\ Cardinality(At("mfa_create")') <= Cardinality(At("mfa_create"))
  <2>1. Cardinality(At("mfa_create")) \in Nat
    BY AtFinite
  <2>2. /\ req' \in [Requests -> RequestRecord] /\ \A s \in Requests : Shaped(req'[s])
        /\ Cardinality(At("mfa_create")') \in Nat
        /\ req[r].pc = "mfa_create" =>
             Cardinality(At("mfa_create")') = Cardinality(At("mfa_create")) - 1
        /\ req[r].pc # "mfa_create" =>
             Cardinality(At("mfa_create")') = Cardinality(At("mfa_create"))
    BY <1>1, RequestMoves
  <2> QED BY <2>1, <2>2
<1>3. SecretsCounted'
  <2> SUFFICES ASSUME NEW u \in Users
               PROVE  mfa'[u].secret + Cardinality(At("mfa_create")') <= begun' + 1
    BY DEF SecretsCounted
  <2>1. mfa[u].secret + Cardinality(At("mfa_create")) <= begun + 1
    BY DEF TypeInv, SecretsCounted
  <2>2. mfa[u].secret \in Nat /\ begun \in Nat /\ Cardinality(At("mfa_create")) \in Nat
    BY AtFinite, SettingsAssumption DEF TypeInv, TypeOK, Secrets
  <2> QED BY <1>2, <2>1, <2>2
<1> QED BY <1>2, <1>3

LEMMA RequestType ==
  ASSUME TypeInv, NEW r \in Requests
  PROVE  req[r] \in RequestRecord /\ Shaped(req[r])
BY DEF TypeInv, TypeOK, RequestRecord

LEMMA TypeInit == Init => TypeInv
<1> SUFFICES ASSUME Init PROVE TypeInv
  OBVIOUS
<1>1. 0 \in Secrets /\ 1 \in Secrets /\ 0 \in Steps /\ 1 \in Steps
  BY SettingsAssumption DEF Secrets, Steps
<1>2. \A r \in Requests : req[r] \in RequestRecord /\ Shaped(req[r])
  BY IdleShaped DEF Init
<1>3. req \in [Requests -> RequestRecord]
  BY <1>2 DEF Init
<1>4. TypeOK
  BY <1>1, <1>3, SettingsAssumption DEF Init, TypeOK, RequestRecord, NoRow
<1>5. At("mfa_create") = {}
  BY DEF At, Init, Idle
<1>6. SecretsCounted
  <2>1. Cardinality(At("mfa_create")) = 0
    BY <1>5, FS_EmptySet
  <2>2. \A u \in Users : mfa[u].secret \in {0, 1} /\ begun = 0
    BY DEF Init, NoRow
  <2> QED BY <2>1, <2>2 DEF SecretsCounted
<1> QED BY <1>2, <1>4, <1>6, SettingsAssumption DEF TypeInv, Init

LEMMA StaysTyped ==
  ASSUME TypeInv, UNCHANGED vars
  PROVE  TypeInv'
BY DEF TypeInv, TypeOK, SecretsCounted, At, Shaped, vars

(* Steps that leave the accounts, the keys and the histories alone. *)
LEMMA MovesTyped ==
  ASSUME TypeInv, NEW r \in Requests, NEW x \in RequestRecord, Shaped(x),
         x.pc # "mfa_create", req' = [req EXCEPT ![r] = x],
         UNCHANGED <<accounts, key, now, history>>,
         destinations' \in Nat, faults' \in Nat,
         begun' \in Nat, begun' >= begun, begun' <= MaxRequests
  PROVE  TypeInv'
<1>1. \A u \in Users : mfa'[u].secret = mfa[u].secret
  BY DEF accounts
<1>2. /\ req' \in [Requests -> RequestRecord] /\ \A s \in Requests : Shaped(req'[s])
      /\ SecretsCounted'
  BY <1>1, CountsKept
<1>3. TypeOK'
  BY <1>2 DEF TypeInv, TypeOK, RequestRecord, accounts, history
<1> QED BY <1>2, <1>3 DEF TypeInv, Shaped

To(r, pc) == [req[r] EXCEPT !.pc = pc]

LEMMA GotoMoves ==
  ASSUME TypeInv, NEW r \in Requests, NEW pc, Goto(r, pc),
         \/ req[r].pc = "find_key" /\ pc = "code"
         \/ req[r].pc = "code" /\ pc = "commit"
         \/ req[r].pc = "commit" /\ req[r].kind = "complete" /\ pc = "flag"
         \/ req[r].pc = "dest_count" /\ pc = "dest_create"
  PROVE  /\ req' = [req EXCEPT ![r] = To(r, pc)]
         /\ To(r, pc) \in RequestRecord /\ Shaped(To(r, pc)) /\ To(r, pc).pc = pc
<1>1. req[r] \in RequestRecord /\ Shaped(req[r])
  BY RequestType
<1>2. To(r, pc) \in RequestRecord /\ Shaped(To(r, pc)) /\ To(r, pc).pc = pc
  BY <1>1 DEF RequestRecord, Shaped, To
<1>3. req' = [req EXCEPT ![r] = To(r, pc)]
  BY DEF Goto, To
<1> QED BY <1>2, <1>3

(* Steps that change the accounts as well, but give nobody a new secret. *)
LEMMA AccountsTyped ==
  ASSUME TypeInv, NEW r \in Requests, NEW x \in RequestRecord, Shaped(x),
         x.pc # "mfa_create", req' = [req EXCEPT ![r] = x],
         enabled' \in [Users -> BOOLEAN],
         mfa' \in [Users -> [status : {"none", "PENDING", "ENABLED"}, secret : Secrets, last : Steps]],
         \A u \in Users : mfa'[u].secret = mfa[u].secret,
         key' \in [Keys -> [status : {"none", "live", "revoked"}, hash : Nat]],
         uses' \in [Users -> [Secrets \X Steps -> Nat]],
         settled' \subseteq Keys,
         UNCHANGED <<destinations, now, begun, faults, proved, lax, crossed>>
  PROVE  TypeInv'
<1>1. /\ req' \in [Requests -> RequestRecord] /\ \A s \in Requests : Shaped(req'[s])
      /\ SecretsCounted'
  <2>1. begun' \in Nat /\ begun' >= begun /\ begun' <= MaxRequests
    BY SettingsAssumption DEF TypeInv, TypeOK
  <2> QED BY <2>1, CountsKept
<1>2. TypeOK'
  BY <1>1 DEF TypeInv, TypeOK, RequestRecord
<1> QED BY <1>1, <1>2 DEF TypeInv, Shaped

(* A code that reached its commit is recorded. *)
LEMMA RecordedTyped ==
  ASSUME TypeInv, NEW r \in Requests, req[r].pc = "commit"
  PROVE  /\ req[r].user \in Users /\ req[r].kind \in CodeKinds
         /\ Recorded(r) \in
              [Users -> [status : {"none", "PENDING", "ENABLED"}, secret : Secrets, last : Steps]]
         /\ \A u \in Users : Recorded(r)[u] = IF u = req[r].user
                                              THEN [mfa[u] EXCEPT !.last = req[r].code.step]
                                              ELSE mfa[u]
         /\ Used(r) \in [Users -> [Secrets \X Steps -> Nat]]
<1>1. req[r] \in RequestRecord /\ Shaped(req[r])
  BY RequestType
<1>2. req[r].user \in Users /\ req[r].kind \in CodeKinds
  BY <1>1 DEF Shaped
<1>3. /\ req[r].code.step \in Steps /\ req[r].code.secret \in Secrets
      /\ mfa \in [Users -> [status : {"none", "PENDING", "ENABLED"}, secret : Secrets, last : Steps]]
      /\ uses \in [Users -> [Secrets \X Steps -> Nat]]
  BY <1>1 DEF RequestRecord, TypeInv, TypeOK
<1>4. Recorded(r) \in
        [Users -> [status : {"none", "PENDING", "ENABLED"}, secret : Secrets, last : Steps]]
  BY <1>2, <1>3 DEF Recorded
<1>5. \A u \in Users : Recorded(r)[u] = IF u = req[r].user
                                        THEN [mfa[u] EXCEPT !.last = req[r].code.step]
                                        ELSE mfa[u]
  BY <1>2, <1>3 DEF Recorded
<1>6. Used(r) \in [Users -> [Secrets \X Steps -> Nat]]
  <2> DEFINE u == req[r].user
             c == <<req[r].code.secret, req[r].code.step>>
  <2>1. u \in Users /\ c \in Secrets \X Steps
    BY <1>2, <1>3
  <2>3. Used(r) = [uses EXCEPT ![u] = [uses[u] EXCEPT ![c] = uses[u][c] + 1]]
    BY DEF Used
  <2> HIDE DEF u, c
  <2>2. uses[u] \in [Secrets \X Steps -> Nat] /\ uses[u][c] + 1 \in Nat
    <3>1. uses[u] \in [Secrets \X Steps -> Nat]
      BY <1>3, <2>1
    <3>2. uses[u][c] \in Nat
      BY <3>1, <2>1
    <3> QED BY <3>1, <3>2
  <2>4. [uses[u] EXCEPT ![c] = uses[u][c] + 1] \in [Secrets \X Steps -> Nat]
    BY <2>1, <2>2
  <2> QED BY <1>3, <2>1, <2>3, <2>4
<1> QED BY <1>2, <1>4, <1>5, <1>6

LEMMA StartTyped ==
  ASSUME TypeInv, NEW r \in Requests, CanStart(r), Start(r)
  PROVE  TypeInv'
<1>1. PICK u \in Users :
        \/ \E kind \in CodeKinds, k \in Keys \cup {None}, step \in Steps :
             StartWithCode(r, u, kind, k, step)
        \/ StartEnable(r, u) \/ StartDestination(r, u)
  BY DEF Start
<1>2. /\ begun + 1 \in Nat /\ begun + 1 >= begun /\ begun + 1 <= MaxRequests
      /\ req[r].pc = "idle" /\ mfa[u].secret \in Secrets
      /\ begun \in Nat /\ destinations \in Nat /\ faults \in Nat
  BY SettingsAssumption DEF CanStart, TypeInv, TypeOK
<1>3. CASE StartDestination(r, u)
  <2> DEFINE x == [Idle EXCEPT !.pc = "dest_count", !.user = u]
  <2>1. x \in RequestRecord /\ Shaped(x) /\ x.pc # "mfa_create"
    BY IdleShaped DEF Idle, RequestRecord, Shaped
  <2>2. /\ req' = [req EXCEPT ![r] = x] /\ begun' = begun + 1
        /\ UNCHANGED <<accounts, key, destinations, now, faults, history>>
    BY <1>3 DEF StartDestination, Begin
  <2> HIDE DEF x
  <2>3. destinations' \in Nat /\ faults' \in Nat
        /\ begun' \in Nat /\ begun' >= begun /\ begun' <= MaxRequests
    BY <1>2, <2>2
  <2>4. UNCHANGED <<accounts, key, now, history>>
    BY <2>2
  <2> QED BY <2>1, <2>2, <2>3, <2>4, MovesTyped
<1>4. CASE StartEnable(r, u)
  <2> DEFINE x == [Idle EXCEPT !.pc = "mfa_create", !.user = u]
  <2>1. x \in RequestRecord /\ Shaped(x) /\ x.pc = "mfa_create"
    BY IdleShaped DEF Idle, RequestRecord, Shaped
  <2>2. /\ req' = [req EXCEPT ![r] = x] /\ begun' = begun + 1
        /\ UNCHANGED <<accounts, key, destinations, now, faults, history>>
    BY <1>4 DEF StartEnable, Begin
  <2> HIDE DEF x
  <2>3. req \in [Requests -> RequestRecord] /\ \A s \in Requests : Shaped(req[s])
    BY DEF TypeInv, TypeOK, RequestRecord
  <2>4. /\ req' \in [Requests -> RequestRecord] /\ \A s \in Requests : Shaped(req'[s])
        /\ Cardinality(At("mfa_create")') = Cardinality(At("mfa_create")) + 1
    BY <1>2, <2>1, <2>2, <2>3, RequestMoves
  <2>5. SecretsCounted'
    <3> SUFFICES ASSUME NEW v \in Users
                 PROVE  mfa'[v].secret + Cardinality(At("mfa_create")') <= begun' + 1
      BY DEF SecretsCounted
    <3>1. mfa[v].secret + Cardinality(At("mfa_create")) <= begun + 1 /\ mfa' = mfa
      BY <2>2 DEF TypeInv, SecretsCounted, accounts
    <3>2. mfa[v].secret \in Nat /\ Cardinality(At("mfa_create")) \in Nat
      BY AtFinite, SettingsAssumption DEF TypeInv, TypeOK, Secrets
    <3> QED BY <1>2, <2>2, <2>4, <3>1, <3>2
  <2>6. TypeOK'
    BY <1>2, <2>2, <2>4 DEF TypeInv, TypeOK, RequestRecord, accounts, history
  <2> QED BY <1>2, <2>2, <2>4, <2>5, <2>6 DEF TypeInv, Shaped
<1>5. ASSUME NEW kind \in CodeKinds, NEW k \in Keys \cup {None}, NEW step \in Steps,
             StartWithCode(r, u, kind, k, step)
      PROVE  TypeInv'
  <2> DEFINE x == [pc |-> IF k = None THEN "code" ELSE "find_key", kind |-> kind, user |-> u,
                   key |-> k, code |-> [secret |-> mfa[u].secret, step |-> step]]
  <2>1. x \in RequestRecord /\ Shaped(x) /\ x.pc # "mfa_create"
    <3>1. (k = None) = (kind \notin {"rotate", "revoke"})
      BY <1>5 DEF StartWithCode
    <3> QED BY <1>2, <3>1 DEF RequestRecord, Shaped, CodeKinds
  <2>2. /\ req' = [req EXCEPT ![r] = x] /\ begun' = begun + 1
        /\ lax' \in {lax, lax \cup {u}}
        /\ UNCHANGED <<accounts, key, destinations, now, faults, uses, proved, crossed, settled>>
    BY <1>5 DEF StartWithCode, Begin
  <2> HIDE DEF x
  <2>3. begun' \in Nat /\ begun' >= begun /\ begun' <= MaxRequests
    BY <1>2, <2>2
  <2>4. \A v \in Users : mfa'[v].secret = mfa[v].secret
    BY <2>2 DEF accounts
  <2>5. /\ req' \in [Requests -> RequestRecord] /\ \A s \in Requests : Shaped(req'[s])
        /\ SecretsCounted'
    BY <2>1, <2>2, <2>3, <2>4, CountsKept
  <2>6. TypeOK'
    BY <2>2, <2>3, <2>5 DEF TypeInv, TypeOK, RequestRecord, accounts
  <2> QED BY <2>3, <2>5, <2>6 DEF TypeInv, Shaped
<1> QED BY <1>1, <1>3, <1>4, <1>5

LEMMA StepTyped ==
  ASSUME TypeInv, NEW r \in Requests, Step(r)
  PROVE  TypeInv'
<1> DEFINE Same == UNCHANGED <<accounts, key, now, history>>
<1>1. /\ begun' = begun => begun' \in Nat /\ begun' >= begun /\ begun' <= MaxRequests
      /\ destinations \in Nat /\ destinations + 1 \in Nat
      /\ faults \in Nat /\ faults + 1 \in Nat
  BY SettingsAssumption DEF TypeInv, TypeOK
<1>2. Idle \in RequestRecord /\ Shaped(Idle) /\ Idle.pc # "mfa_create"
  BY IdleShaped DEF Idle
<1>3. ASSUME Done(r), Same, destinations' \in Nat, faults' \in Nat, begun' = begun
      PROVE  TypeInv'
  <2>1. req' = [req EXCEPT ![r] = Idle]
    BY <1>3 DEF Done
  <2> QED BY <1>1, <1>2, <1>3, <2>1, MovesTyped
<1>4. ASSUME NEW pc, Goto(r, pc), Same, destinations' \in Nat, faults' \in Nat, begun' = begun,
             \/ req[r].pc = "find_key" /\ pc = "code"
             \/ req[r].pc = "code" /\ pc = "commit"
             \/ req[r].pc = "dest_count" /\ pc = "dest_create"
      PROVE  TypeInv'
  <2>1. /\ req' = [req EXCEPT ![r] = To(r, pc)]
        /\ To(r, pc) \in RequestRecord /\ Shaped(To(r, pc)) /\ To(r, pc).pc # "mfa_create"
    BY <1>4, GotoMoves
  <2> QED BY <1>1, <1>4, <2>1, MovesTyped
<1>5. CASE FindKey(r)
  <2>1. Same /\ destinations' \in Nat /\ faults' \in Nat /\ begun' = begun /\ req[r].pc = "find_key"
    BY <1>1, <1>5 DEF FindKey
  <2>2. Goto(r, "code") \/ Done(r)
    BY <1>5 DEF FindKey
  <2> QED BY <1>3, <1>4, <2>1, <2>2
<1>6. CASE CountDestinations(r)
  <2>1. Same /\ destinations' \in Nat /\ faults' \in Nat /\ begun' = begun /\ req[r].pc = "dest_count"
    BY <1>1, <1>6 DEF CountDestinations
  <2>2. Goto(r, "dest_create") \/ Done(r)
    BY <1>6 DEF CountDestinations
  <2> QED BY <1>3, <1>4, <2>1, <2>2
<1>7. CASE CreateDestination(r)
  <2>1. Same /\ destinations' \in Nat /\ faults' \in Nat /\ begun' = begun /\ Done(r)
    BY <1>1, <1>7 DEF CreateDestination
  <2> QED BY <1>3, <2>1
<1>8. CASE Aborts(r)
  <2>1. Same /\ destinations' \in Nat /\ faults' \in Nat /\ begun' = begun /\ Done(r)
    BY <1>1, <1>8 DEF Aborts
  <2> QED BY <1>3, <2>1
<1>9. CASE Dies(r)
  <2>1. Same /\ destinations' \in Nat /\ faults' \in Nat /\ begun' = begun /\ Done(r)
    BY <1>1, <1>9 DEF Dies
  <2> QED BY <1>3, <2>1
<1>10. CASE VerifyCode(r)
  <2>1. req[r].pc = "code" /\ req[r].user \in Users /\ req[r].code.secret \in Secrets
    BY <1>10, RequestType DEF VerifyCode, RequestRecord, Shaped
  <2>2. PICK x \in RequestRecord :
          Shaped(x) /\ x.pc # "mfa_create" /\ req' = [req EXCEPT ![r] = x]
    <3>1. Goto(r, "commit") \/ Done(r)
      BY <1>10 DEF VerifyCode
    <3>2. CASE Goto(r, "commit")
      <4>1. /\ req' = [req EXCEPT ![r] = To(r, "commit")]
            /\ To(r, "commit") \in RequestRecord /\ Shaped(To(r, "commit"))
            /\ To(r, "commit").pc # "mfa_create"
        BY <2>1, <3>2, GotoMoves
      <4> QED BY <4>1
    <3>3. CASE Done(r)
      BY <1>2, <3>3 DEF Done
    <3> QED BY <3>1, <3>2, <3>3
  <2>3. proved' \in {proved, [proved EXCEPT ![req[r].user] = @ \cup {req[r].code.secret}]}
    BY <1>10 DEF VerifyCode
  <2>4. proved' \in [Users -> SUBSET Secrets]
    <3>1. proved \in [Users -> SUBSET Secrets]
      BY DEF TypeInv, TypeOK
    <3>2. proved[req[r].user] \cup {req[r].code.secret} \in SUBSET Secrets
      BY <2>1, <3>1
    <3> QED BY <2>1, <2>3, <3>1, <3>2
  <2>5. UNCHANGED <<accounts, key, destinations, now, begun, faults, uses, lax, crossed, settled>>
    BY <1>10 DEF VerifyCode
  <2>6. /\ req' \in [Requests -> RequestRecord] /\ \A s \in Requests : Shaped(req'[s])
        /\ SecretsCounted'
    <3>1. \A u \in Users : mfa'[u].secret = mfa[u].secret
      BY <2>5 DEF accounts
    <3>2. begun' \in Nat /\ begun' >= begun /\ begun' <= MaxRequests
      BY <1>1, <2>5
    <3> QED BY <2>2, <3>1, <3>2, CountsKept
  <2>7. TypeOK'
    BY <2>4, <2>5, <2>6 DEF TypeInv, TypeOK, RequestRecord, accounts
  <2> QED BY <2>5, <2>6, <2>7 DEF TypeInv, Shaped
<1>11. ASSUME req[r].pc = "commit", NEW pc,
              \/ Done(r)
              \/ Goto(r, pc) /\ pc = "flag" /\ req[r].kind = "complete",
              \/ mfa' = Recorded(r)
              \/ mfa' = [Recorded(r) EXCEPT ![req[r].user].status = "ENABLED"],
              key' \in [Keys -> [status : {"none", "live", "revoked"}, hash : Nat]],
              uses' \in {uses, Used(r)}, settled' \subseteq Keys,
              UNCHANGED <<enabled, destinations, now, begun, faults, proved, lax, crossed>>
       PROVE  TypeInv'
  <2>1. PICK x \in RequestRecord :
          Shaped(x) /\ x.pc # "mfa_create" /\ req' = [req EXCEPT ![r] = x]
    <3>1. CASE Goto(r, pc) /\ pc = "flag" /\ req[r].kind = "complete"
      <4>1. /\ req' = [req EXCEPT ![r] = To(r, "flag")]
            /\ To(r, "flag") \in RequestRecord /\ Shaped(To(r, "flag"))
            /\ To(r, "flag").pc # "mfa_create"
        BY <1>11, <3>1, GotoMoves
      <4> QED BY <4>1
    <3>2. CASE Done(r)
      BY <1>2, <3>2 DEF Done
    <3> QED BY <1>11, <3>1, <3>2
  <2>2. /\ req[r].user \in Users
        /\ Recorded(r) \in
             [Users -> [status : {"none", "PENDING", "ENABLED"}, secret : Secrets, last : Steps]]
        /\ \A u \in Users : Recorded(r)[u].secret = mfa[u].secret
        /\ Used(r) \in [Users -> [Secrets \X Steps -> Nat]]
    <3>1. /\ req[r].user \in Users
          /\ Recorded(r) \in
               [Users -> [status : {"none", "PENDING", "ENABLED"}, secret : Secrets, last : Steps]]
          /\ \A u \in Users : Recorded(r)[u] = IF u = req[r].user
                                               THEN [mfa[u] EXCEPT !.last = req[r].code.step]
                                               ELSE mfa[u]
          /\ Used(r) \in [Users -> [Secrets \X Steps -> Nat]]
      BY <1>11, RecordedTyped
    <3>2. \A u \in Users : mfa[u] \in [status : {"none", "PENDING", "ENABLED"},
                                       secret : Secrets, last : Steps]
      BY DEF TypeInv, TypeOK
    <3> QED BY <3>1, <3>2
  <2>3. /\ mfa' \in
             [Users -> [status : {"none", "PENDING", "ENABLED"}, secret : Secrets, last : Steps]]
        /\ \A u \in Users : mfa'[u].secret = mfa[u].secret
    <3> DEFINE f == Recorded(r)
    <3>1. mfa' = f \/ mfa' = [f EXCEPT ![req[r].user].status = "ENABLED"]
      BY <1>11
    <3> HIDE DEF f
    <3>2. f \in [Users -> [status : {"none", "PENDING", "ENABLED"}, secret : Secrets, last : Steps]]
          /\ \A u \in Users : f[u].secret = mfa[u].secret
      BY <2>2 DEF f
    <3>3. /\ req[r].user \in Users
          /\ f[req[r].user] \in [status : {"none", "PENDING", "ENABLED"},
                                 secret : Secrets, last : Steps]
      BY <2>2, <3>2
    <3>4. CASE mfa' = [f EXCEPT ![req[r].user].status = "ENABLED"]
      <4>1. mfa' = [f EXCEPT ![req[r].user] = [f[req[r].user] EXCEPT !.status = "ENABLED"]]
        BY <3>4
      <4>2. /\ [f[req[r].user] EXCEPT !.status = "ENABLED"] \in
                 [status : {"none", "PENDING", "ENABLED"}, secret : Secrets, last : Steps]
            /\ [f[req[r].user] EXCEPT !.status = "ENABLED"].secret = f[req[r].user].secret
        BY <3>3
      <4> QED BY <3>2, <3>3, <4>1, <4>2
    <3> QED BY <3>1, <3>2, <3>4
  <2>4. uses' \in [Users -> [Secrets \X Steps -> Nat]] /\ enabled' \in [Users -> BOOLEAN]
    BY <1>11, <2>2 DEF TypeInv, TypeOK
  <2> QED BY <1>11, <2>1, <2>3, <2>4, AccountsTyped
<1>12. key \in [Keys -> [status : {"none", "live", "revoked"}, hash : Nat]] /\ settled \subseteq Keys
  BY DEF TypeInv, TypeOK
<1>13. CASE Login(r)
  BY <1>11, <1>12, <1>13 DEF Login, AtCommit
<1>14. CASE Setup(r)
  BY <1>11, <1>12, <1>14 DEF Setup, AtCommit, history
<1>15. CASE Complete(r)
  BY <1>11, <1>12, <1>15 DEF Complete, AtCommit, history
<1>16. CASE RotateApiKey(r) \/ RevokeApiKey(r)
  <2>1. req[r].pc = "commit" /\ req[r].key \in Keys
    <3>1. req[r].pc = "commit" /\ req[r].kind \in {"rotate", "revoke"}
      BY <1>16 DEF RotateApiKey, RevokeApiKey, AtCommit
    <3> QED BY <3>1, RequestType DEF Shaped
  <2>2. /\ mfa' = Recorded(r) /\ uses' = Used(r) /\ Done(r)
        /\ UNCHANGED <<enabled, destinations, now, begun, faults, proved, lax, crossed>>
    BY <1>16 DEF RotateApiKey, RevokeApiKey
  <2>3. key' \in [Keys -> [status : {"none", "live", "revoked"}, hash : Nat]]
    BY <1>12, <1>16, <2>1 DEF RotateApiKey, RevokeApiKey
  <2>4. settled' \subseteq Keys
    BY <1>12, <1>16, <2>1 DEF RotateApiKey, RevokeApiKey
  <2> QED BY <1>11, <2>1, <2>2, <2>3, <2>4
<1>17. CASE SetFlag(r)
  <2>1. req[r].user \in Users
    BY <1>17, RequestType DEF SetFlag, Shaped
  <2>2. enabled' \in [Users -> BOOLEAN]
    BY <1>17, <2>1 DEF SetFlag, TypeInv, TypeOK
  <2>3. /\ req' = [req EXCEPT ![r] = Idle]
        /\ UNCHANGED <<mfa, key, destinations, now, begun, faults, uses, proved, lax, crossed, settled>>
    BY <1>17 DEF SetFlag, Done, history
  <2>4. /\ mfa' \in
             [Users -> [status : {"none", "PENDING", "ENABLED"}, secret : Secrets, last : Steps]]
        /\ \A u \in Users : mfa'[u].secret = mfa[u].secret
        /\ key' \in [Keys -> [status : {"none", "live", "revoked"}, hash : Nat]]
        /\ uses' \in [Users -> [Secrets \X Steps -> Nat]] /\ settled' \subseteq Keys
    BY <2>3 DEF TypeInv, TypeOK
  <2> QED BY <1>2, <2>2, <2>3, <2>4, AccountsTyped
<1>18. CASE CreateMfa(r)
  <2> DEFINE u == req[r].user
  <2>1. req[r].pc = "mfa_create" /\ u \in Users /\ req' = [req EXCEPT ![r] = Idle]
    BY <1>18, RequestType DEF CreateMfa, Done, Shaped
  <2>2. \/ mfa' = mfa
        \/ mfa' = [mfa EXCEPT ![u] = [status |-> "PENDING", secret |-> mfa[u].secret + 1, last |-> 0]]
    BY <1>18 DEF CreateMfa
  <2>3. UNCHANGED <<enabled, key, destinations, now, begun, faults, uses, proved, lax, crossed, settled>>
    BY <1>18 DEF CreateMfa, history
  <2> HIDE DEF u
  <2>4. /\ req' \in [Requests -> RequestRecord] /\ \A s \in Requests : Shaped(req'[s])
        /\ Cardinality(At("mfa_create")') \in Nat
        /\ Cardinality(At("mfa_create")') = Cardinality(At("mfa_create")) - 1
    <3>1. req \in [Requests -> RequestRecord] /\ \A s \in Requests : Shaped(req[s])
      BY DEF TypeInv, TypeOK, RequestRecord
    <3> QED BY <1>2, <2>1, <3>1, RequestMoves
  <2>5. Cardinality(At("mfa_create")) \in Nat /\ begun \in Nat /\ begun <= MaxRequests
        /\ \A v \in Users : /\ mfa[v] \in [status : {"none", "PENDING", "ENABLED"},
                                           secret : Secrets, last : Steps]
                            /\ mfa[v].secret \in Nat
                            /\ mfa[v].secret + Cardinality(At("mfa_create")) <= begun + 1
    BY AtFinite, SettingsAssumption DEF TypeInv, TypeOK, Secrets, SecretsCounted
  <2>6. SecretsCounted'
    <3> SUFFICES ASSUME NEW v \in Users
                 PROVE  mfa'[v].secret + Cardinality(At("mfa_create")') <= begun' + 1
      BY DEF SecretsCounted
    <3>1. mfa'[v].secret \in {mfa[v].secret, mfa[v].secret + 1}
      BY <2>1, <2>2 DEF TypeInv, TypeOK
    <3> QED BY <2>3, <2>4, <2>5, <3>1
  <2>7. mfa' \in [Users -> [status : {"none", "PENDING", "ENABLED"}, secret : Secrets, last : Steps]]
    <3>1. mfa[u].secret + 1 \in Secrets /\ 0 \in Steps
      BY <2>1, <2>4, <2>5, SettingsAssumption DEF Secrets, Steps
    <3> QED BY <2>1, <2>2, <3>1 DEF TypeInv, TypeOK
  <2>8. TypeOK'
    BY <2>3, <2>4, <2>7 DEF TypeInv, TypeOK, RequestRecord
  <2> QED BY <2>3, <2>4, <2>6, <2>8 DEF TypeInv, Shaped
<1> QED BY <1>5, <1>6, <1>7, <1>8, <1>9, <1>10, <1>13, <1>14, <1>15, <1>16, <1>17, <1>18 DEF Step

LEMMA EnvironmentTyped ==
  ASSUME TypeInv, Environment
  PROVE  TypeInv'
<1>1. /\ mfa \in [Users -> [status : {"none", "PENDING", "ENABLED"}, secret : Secrets, last : Steps]]
      /\ 0 \in Steps /\ begun \in Nat /\ begun + 1 \in Nat
      /\ begun < MaxRequests => begun + 1 <= MaxRequests
  BY SettingsAssumption DEF TypeInv, TypeOK, Steps
<1>2. ASSUME begun' \in Nat, begun' >= begun, begun' <= MaxRequests, UNCHANGED req,
             \A u \in Users : mfa'[u].secret = mfa[u].secret
      PROVE  SecretsCounted' /\ \A r \in Requests : Shaped(req'[r])
  <2>1. At("mfa_create")' = At("mfa_create") /\ Cardinality(At("mfa_create")) \in Nat
    BY <1>2, AtFinite DEF At
  <2>2. \A u \in Users : /\ mfa[u].secret \in Nat
                         /\ mfa[u].secret + Cardinality(At("mfa_create")) <= begun + 1
    BY SettingsAssumption DEF TypeInv, TypeOK, SecretsCounted, Secrets
  <2>3. SecretsCounted'
    BY <1>1, <1>2, <2>1, <2>2 DEF SecretsCounted
  <2> QED BY <1>2, <2>3 DEF TypeInv
<1>3. CASE Tick
  <2>1. now' \in Steps
    BY <1>3, SettingsAssumption DEF Tick, TypeInv, TypeOK, Steps
  <2>2. UNCHANGED <<enabled, mfa, key, destinations, req, begun, faults, uses, proved, lax, crossed, settled>>
    BY <1>3 DEF Tick, accounts, history
  <2> QED BY <2>1, <2>2 DEF TypeInv, TypeOK, SecretsCounted, At, Shaped
<1>4. CASE DeleteDestination
  <2>1. /\ begun' = begun + 1 /\ begun < MaxRequests /\ destinations' \in Nat
        /\ UNCHANGED <<enabled, mfa, key, req, now, faults, uses, proved, lax, crossed, settled>>
    BY <1>4 DEF DeleteDestination, accounts, history, TypeInv, TypeOK
  <2>2. begun' \in Nat /\ begun' >= begun /\ begun' <= MaxRequests
    BY <1>1, <2>1
  <2>3. SecretsCounted' /\ \A r \in Requests : Shaped(req'[r])
    BY <1>2, <2>1, <2>2
  <2>4. TypeOK'
    BY <2>1, <2>2 DEF TypeInv, TypeOK
  <2> QED BY <2>2, <2>3, <2>4 DEF TypeInv, Shaped
<1>5. ASSUME NEW u \in Users, NEW k \in Keys, CreateApiKey(u, k) PROVE TypeInv'
  <2>1. /\ begun' = begun + 1 /\ begun < MaxRequests
        /\ key' = [key EXCEPT ![k] = [status |-> "live", hash |-> 1]]
        /\ UNCHANGED <<enabled, mfa, destinations, req, now, faults, uses, proved, lax, crossed, settled>>
    BY <1>5 DEF CreateApiKey, accounts, history
  <2>2. begun' \in Nat /\ begun' >= begun /\ begun' <= MaxRequests
    BY <1>1, <2>1
  <2>3. SecretsCounted' /\ \A r \in Requests : Shaped(req'[r])
    BY <1>2, <2>1, <2>2
  <2>4. key' \in [Keys -> [status : {"none", "live", "revoked"}, hash : Nat]]
    BY <2>1 DEF TypeInv, TypeOK
  <2>5. TypeOK'
    BY <2>1, <2>2, <2>4 DEF TypeInv, TypeOK
  <2> QED BY <2>2, <2>3, <2>5 DEF TypeInv, Shaped
<1>6. ASSUME NEW u \in Users, DisableUserMfa(u) PROVE TypeInv'
  <2>1. /\ begun' = begun + 1 /\ begun < MaxRequests
        /\ enabled' = [enabled EXCEPT ![u] = FALSE]
        /\ mfa' = [mfa EXCEPT ![u].status = "none", ![u].last = 0]
        /\ crossed' \in {crossed, crossed \cup {u}}
        /\ UNCHANGED <<key, destinations, req, now, faults, uses, proved, lax, settled>>
    BY <1>6 DEF DisableUserMfa
  <2>2. begun' \in Nat /\ begun' >= begun /\ begun' <= MaxRequests
    BY <1>1, <2>1
  <2>3. /\ mfa' \in [Users -> [status : {"none", "PENDING", "ENABLED"}, secret : Secrets, last : Steps]]
        /\ \A v \in Users : mfa'[v].secret = mfa[v].secret
    BY <1>1, <2>1
  <2>4. SecretsCounted' /\ \A r \in Requests : Shaped(req'[r])
    BY <1>2, <2>1, <2>2, <2>3
  <2>5. enabled' \in [Users -> BOOLEAN] /\ crossed' \subseteq Users
    BY <2>1 DEF TypeInv, TypeOK
  <2>6. TypeOK'
    BY <2>1, <2>2, <2>3, <2>5 DEF TypeInv, TypeOK
  <2> QED BY <2>2, <2>4, <2>6 DEF TypeInv, Shaped
<1> QED BY <1>3, <1>4, <1>5, <1>6 DEF Environment

LEMMA NextTyped == TypeInv /\ [Next]_vars => TypeInv'
BY StaysTyped, EnvironmentTyped, StartTyped, StepTyped DEF Next

(* Every variable keeps its type: no run of requests, deaths and disables     *)
(* gives a user more secrets than requests for one, or a request a code, a    *)
(* key or a user its kind does not have.                                      *)
THEOREM SettingsType == Spec => []TypeOK
<1>1. TypeInv => TypeOK
  BY DEF TypeInv
<1> QED BY <1>1, TypeInit, NextTyped, PTL DEF Spec

-----------------------------------------------------------------------------
(* RevocationIsFinal.  A key is settled when no rotation of it has found it;  *)
(* from then on none does, for only a live key is found.                      *)

RevocationInv ==
  /\ RevocationIsFinal
  /\ \A r \in Requests, k \in settled : r \notin Rotating(k)

LEMMA RevocationKeeps == TypeInv /\ RevocationInv /\ [Next]_vars => RevocationInv'
<1> SUFFICES ASSUME TypeInv, RevocationInv, [Next]_vars PROVE RevocationInv'
  OBVIOUS
<1>1. /\ req \in [Requests -> RequestRecord]
      /\ \A r \in Requests : Shaped(req[r])
      /\ key \in [Keys -> [status : {"none", "live", "revoked"}, hash : Nat]]
      /\ settled \subseteq Keys
      /\ \A k \in settled : key[k].status = "revoked"
      /\ \A r \in Requests, k \in settled :
           ~(req[r].key = k /\ req[r].kind = "rotate" /\ req[r].pc \in {"code", "commit"})
  BY DEF TypeInv, TypeOK, RequestRecord, RevocationInv, RevocationIsFinal, Rotating
<1> USE <1>1
<1>2. ASSUME UNCHANGED <<key, settled>>, NEW r \in Requests, NEW x \in RequestRecord,
             req' = [req EXCEPT ![r] = x],
             x.kind = "rotate" /\ x.pc \in {"code", "commit"} => x.key \notin settled
      PROVE  RevocationInv'
  BY <1>2 DEF RevocationInv, RevocationIsFinal, Rotating
<1>3. ASSUME UNCHANGED <<key, settled>>, NEW r \in Requests, Done(r) PROVE RevocationInv'
  BY <1>2, <1>3, IdleShaped DEF Done, Idle
<1>4. ASSUME UNCHANGED <<key, settled, req>> PROVE RevocationInv'
  BY <1>4 DEF RevocationInv, RevocationIsFinal, Rotating
<1>5. ASSUME NEW r \in Requests, Start(r) PROVE RevocationInv'
  <2>1. PICK u \in Users :
          \/ \E kind \in CodeKinds, k \in Keys \cup {None}, step \in Steps :
               StartWithCode(r, u, kind, k, step)
          \/ StartEnable(r, u) \/ StartDestination(r, u)
    BY <1>5 DEF Start
  <2>2. UNCHANGED <<key, settled>>
    BY <2>1 DEF StartWithCode, StartEnable, StartDestination, history
  <2>3. PICK x : /\ req' = [req EXCEPT ![r] = x]
                 /\ ~(x.kind = "rotate" /\ x.pc \in {"code", "commit"})
    <3>1. CASE StartEnable(r, u) \/ StartDestination(r, u)
      <4>1. PICK pc \in {"mfa_create", "dest_count"} :
              req' = [req EXCEPT ![r] = [Idle EXCEPT !.pc = pc, !.user = u]]
        BY <3>1 DEF StartEnable, StartDestination, Begin
      <4>2. [Idle EXCEPT !.pc = pc, !.user = u].kind = "none"
        BY DEF Idle
      <4> QED BY <4>1, <4>2
    <3>2. ASSUME NEW kind \in CodeKinds, NEW k \in Keys \cup {None}, NEW step \in Steps,
                 StartWithCode(r, u, kind, k, step)
          PROVE  \E x : /\ req' = [req EXCEPT ![r] = x]
                        /\ ~(x.kind = "rotate" /\ x.pc \in {"code", "commit"})
      <4> DEFINE x == [pc |-> IF k = None THEN "code" ELSE "find_key", kind |-> kind, user |-> u,
                       key |-> k, code |-> [secret |-> mfa[u].secret, step |-> step]]
      <4>1. req' = [req EXCEPT ![r] = x] /\ ((k = None) = (kind \notin {"rotate", "revoke"}))
        BY <3>2 DEF StartWithCode, Begin
      <4>2. x.kind = kind /\ x.pc = IF k = None THEN "code" ELSE "find_key"
        OBVIOUS
      <4> HIDE DEF x
      <4> QED BY <4>1, <4>2
    <3> QED BY <2>1, <3>1, <3>2
  <2> QED BY <2>2, <2>3 DEF RevocationInv, RevocationIsFinal, Rotating
<1>6. ASSUME NEW r \in Requests, FindKey(r) PROVE RevocationInv'
  <2>1. UNCHANGED <<key, settled>> /\ req[r].pc = "find_key"
    BY <1>6 DEF FindKey, history
  <2>2. CASE Goto(r, "code") /\ key[req[r].key].status = "live"
    <3>1. req' = [req EXCEPT ![r] = To(r, "code")] /\ To(r, "code") \in RequestRecord
      BY <2>1, <2>2, GotoMoves
    <3>2. req[r].key \notin settled
      BY <2>2
    <3>3. To(r, "code").key = req[r].key
      BY DEF To, RequestRecord
    <3> QED BY <1>2, <2>1, <3>1, <3>2, <3>3
  <2> QED BY <1>3, <1>6, <2>1, <2>2 DEF FindKey
<1>7. ASSUME NEW r \in Requests, VerifyCode(r) PROVE RevocationInv'
  <2>1. UNCHANGED <<key, settled>> /\ req[r].pc = "code"
    BY <1>7 DEF VerifyCode
  <2>2. CASE Goto(r, "commit")
    <3>1. req' = [req EXCEPT ![r] = To(r, "commit")] /\ To(r, "commit") \in RequestRecord
      BY <2>1, <2>2, GotoMoves
    <3>2. To(r, "commit").key = req[r].key /\ To(r, "commit").kind = req[r].kind
      BY DEF To, RequestRecord
    <3> QED BY <1>2, <2>1, <3>1, <3>2
  <2> QED BY <1>3, <1>7, <2>1, <2>2 DEF VerifyCode
<1>8. ASSUME NEW r \in Requests, Complete(r) PROVE RevocationInv'
  <2>1. /\ UNCHANGED <<key, settled>> /\ req[r].pc = "commit" /\ req[r].kind = "complete"
        /\ Goto(r, "flag")
    BY <1>8 DEF Complete, AtCommit, history
  <2>2. req' = [req EXCEPT ![r] = To(r, "flag")] /\ To(r, "flag") \in RequestRecord
        /\ To(r, "flag").pc = "flag"
    BY <2>1, GotoMoves
  <2> QED BY <1>2, <2>1, <2>2
<1>9. ASSUME NEW r \in Requests, CountDestinations(r) PROVE RevocationInv'
  <2>1. UNCHANGED <<key, settled>> /\ req[r].pc = "dest_count"
    BY <1>9 DEF CountDestinations, history
  <2>2. CASE Goto(r, "dest_create")
    <3>1. req' = [req EXCEPT ![r] = To(r, "dest_create")] /\ To(r, "dest_create") \in RequestRecord
          /\ To(r, "dest_create").pc = "dest_create"
      BY <2>1, <2>2, GotoMoves
    <3> QED BY <1>2, <2>1, <3>1
  <2> QED BY <1>3, <1>9, <2>1, <2>2 DEF CountDestinations
<1>10. ASSUME NEW r \in Requests, RotateApiKey(r) PROVE RevocationInv'
  <2>1. /\ req[r].pc = "commit" /\ req[r].kind = "rotate" /\ req[r].key \in Keys
        /\ key' = [key EXCEPT ![req[r].key] = [status |-> "live", hash |-> key[req[r].key].hash + 1]]
        /\ req' = [req EXCEPT ![r] = Idle] /\ UNCHANGED settled
    BY <1>10 DEF RotateApiKey, AtCommit, Done, Shaped
  <2>2. req[r].key \notin settled
    BY <2>1
  <2> QED BY <2>1, <2>2 DEF RevocationInv, RevocationIsFinal, Rotating, Idle
<1>11. ASSUME NEW r \in Requests, RevokeApiKey(r) PROVE RevocationInv'
  <2> DEFINE k == req[r].key
  <2>1. /\ req[r].pc = "commit" /\ req[r].kind = "revoke" /\ k \in Keys
        /\ key' = [key EXCEPT ![k].status = "revoked"]
        /\ req' = [req EXCEPT ![r] = Idle]
        /\ settled' = IF Rotating(k) = {} THEN settled \cup {k} ELSE settled
    BY <1>11 DEF RevokeApiKey, AtCommit, Done, Shaped
  <2> HIDE DEF k
  <2>2. \A j \in settled' : key'[j].status = "revoked"
    BY <2>1
  <2>3. \A s \in Requests, j \in settled' :
          ~(req[s].key = j /\ req[s].kind = "rotate" /\ req[s].pc \in {"code", "commit"})
    BY <2>1 DEF Rotating
  <2> QED BY <2>1, <2>2, <2>3 DEF RevocationInv, RevocationIsFinal, Rotating, Idle
<1>12. ASSUME NEW u \in Users, NEW k \in Keys, CreateApiKey(u, k) PROVE RevocationInv'
  BY <1>12 DEF CreateApiKey, history, RevocationInv, RevocationIsFinal, Rotating
<1>13. ASSUME Environment PROVE RevocationInv'
  <2>1. CASE DeleteDestination \/ Tick \/ \E u \in Users : DisableUserMfa(u)
    BY <1>4, <2>1 DEF DeleteDestination, Tick, DisableUserMfa, history
  <2> QED BY <1>12, <1>13, <2>1 DEF Environment
<1>14. ASSUME NEW r \in Requests,
              \/ Aborts(r) \/ Dies(r) \/ Login(r) \/ Setup(r) \/ SetFlag(r)
              \/ CreateMfa(r) \/ CreateDestination(r)
       PROVE  RevocationInv'
  BY <1>3, <1>14 DEF Aborts, Dies, Login, Setup, SetFlag, CreateMfa, CreateDestination, history
<1>15. CASE UNCHANGED vars
  BY <1>4, <1>15 DEF vars
<1>16. ASSUME NEW r \in Requests, Step(r) PROVE RevocationInv'
  BY <1>6, <1>7, <1>8, <1>9, <1>10, <1>11, <1>14, <1>16 DEF Step
<1> QED BY <1>5, <1>13, <1>15, <1>16 DEF Next

(* A key revoked while no rotation of it was under way stays revoked, with    *)
(* any number of rotations, revocations and deaths.                           *)
THEOREM RevokedStaysRevoked == Spec => []RevocationIsFinal
<1>1. Init => RevocationInv
  BY DEF Init, RevocationInv, RevocationIsFinal, Rotating
<1>2. RevocationInv => RevocationIsFinal
  BY DEF RevocationInv
<1> QED BY <1>1, <1>2, TypeInit, NextTyped, RevocationKeeps, PTL DEF Spec

-----------------------------------------------------------------------------
(* DestinationsBounded.  Every request that has counted is one of Requests,   *)
(* and found fewer than LIMIT destinations.                                   *)

DestinationsInv ==
  destinations + Cardinality(At("dest_create")) <= LIMIT + Cardinality(Requests) - 1

LEMMA DestinationsKeep == TypeInv /\ DestinationsInv /\ [Next]_vars => DestinationsInv'
<1> SUFFICES ASSUME TypeInv, DestinationsInv, [Next]_vars PROVE DestinationsInv'
  OBVIOUS
<1>1. /\ req \in [Requests -> RequestRecord]
      /\ \A r \in Requests : Shaped(req[r])
      /\ destinations \in Nat /\ LIMIT \in Nat /\ Cardinality(Requests) \in Nat
      /\ Cardinality(At("dest_create")) \in Nat
      /\ Idle \in RequestRecord /\ Shaped(Idle)
  BY SettingsAssumption, AtFinite, IdleShaped, FS_CardinalityType DEF TypeInv, TypeOK, RequestRecord
<1>2. ASSUME NEW r \in Requests, NEW x \in RequestRecord, Shaped(x), x.pc # "dest_create",
             req' = [req EXCEPT ![r] = x], destinations' = destinations
      PROVE  DestinationsInv'
  <2>1. /\ Cardinality(At("dest_create")') \in Nat
        /\ req[r].pc = "dest_create" =>
             Cardinality(At("dest_create")') = Cardinality(At("dest_create")) - 1
        /\ req[r].pc # "dest_create" =>
             Cardinality(At("dest_create")') = Cardinality(At("dest_create"))
    BY <1>1, <1>2, RequestMoves
  <2> QED BY <1>1, <1>2, <2>1 DEF DestinationsInv
<1>3. ASSUME NEW r \in Requests, Done(r), destinations' = destinations PROVE DestinationsInv'
  BY <1>1, <1>2, <1>3 DEF Done, Idle
<1>4. ASSUME UNCHANGED req, destinations' \in Nat, destinations' <= destinations
      PROVE  DestinationsInv'
  <2>1. At("dest_create")' = At("dest_create")
    BY <1>4 DEF At
  <2> QED BY <1>1, <1>4, <2>1 DEF DestinationsInv
<1>5. ASSUME NEW r \in Requests, Start(r), CanStart(r) PROVE DestinationsInv'
  <2>1. /\ TypeInv' /\ req[r].pc # "dest_create"
    BY <1>5, StartTyped DEF CanStart
  <2>2. PICK u \in Users :
          \/ \E kind \in CodeKinds, k \in Keys \cup {None}, step \in Steps :
               StartWithCode(r, u, kind, k, step)
          \/ StartEnable(r, u) \/ StartDestination(r, u)
    BY <1>5 DEF Start
  <2>3. PICK x : req' = [req EXCEPT ![r] = x] /\ x.pc # "dest_create"
    <3>1. CASE StartEnable(r, u) \/ StartDestination(r, u)
      <4>1. PICK pc \in {"mfa_create", "dest_count"} :
              req' = [req EXCEPT ![r] = [Idle EXCEPT !.pc = pc, !.user = u]]
        BY <3>1 DEF StartEnable, StartDestination, Begin
      <4>2. [Idle EXCEPT !.pc = pc, !.user = u].pc = pc
        BY DEF Idle
      <4> QED BY <4>1, <4>2
    <3>2. ASSUME NEW kind \in CodeKinds, NEW k \in Keys \cup {None}, NEW step \in Steps,
                 StartWithCode(r, u, kind, k, step)
          PROVE  \E x : req' = [req EXCEPT ![r] = x] /\ x.pc # "dest_create"
      <4> DEFINE x == [pc |-> IF k = None THEN "code" ELSE "find_key", kind |-> kind, user |-> u,
                       key |-> k, code |-> [secret |-> mfa[u].secret, step |-> step]]
      <4>1. req' = [req EXCEPT ![r] = x]
        BY <3>2 DEF StartWithCode, Begin
      <4>2. x.pc # "dest_create"
        OBVIOUS
      <4> HIDE DEF x
      <4> QED BY <4>1, <4>2
    <3> QED BY <2>2, <3>1, <3>2
  <2>4. x \in RequestRecord /\ Shaped(x)
    BY <1>1, <2>1, <2>3, RequestType DEF TypeInv, TypeOK, RequestRecord
  <2>5. destinations' = destinations
    BY <2>2 DEF StartWithCode, StartEnable, StartDestination
  <2> QED BY <1>2, <2>3, <2>4, <2>5
<1>6. ASSUME NEW r \in Requests, NEW pc, Goto(r, pc), destinations' = destinations,
             \/ req[r].pc = "find_key" /\ pc = "code"
             \/ req[r].pc = "code" /\ pc = "commit"
             \/ req[r].pc = "commit" /\ req[r].kind = "complete" /\ pc = "flag"
      PROVE  DestinationsInv'
  <2>1. /\ req' = [req EXCEPT ![r] = To(r, pc)]
        /\ To(r, pc) \in RequestRecord /\ Shaped(To(r, pc)) /\ To(r, pc).pc # "dest_create"
    BY <1>6, GotoMoves
  <2> QED BY <1>2, <1>6, <2>1
<1>7. ASSUME NEW r \in Requests, CountDestinations(r) PROVE DestinationsInv'
  <2>1. CASE destinations < LIMIT /\ Goto(r, "dest_create")
    <3>1. req' \in [Requests -> RequestRecord] /\ destinations' = destinations
      <4>1. req[r].pc = "dest_count" /\ destinations' = destinations
        BY <1>7 DEF CountDestinations
      <4>2. req' = [req EXCEPT ![r] = To(r, "dest_create")] /\ To(r, "dest_create") \in RequestRecord
        BY <2>1, <4>1, GotoMoves
      <4> QED BY <1>1, <4>1, <4>2
    <3>2. Cardinality(At("dest_create")') \in Nat
          /\ Cardinality(At("dest_create")') <= Cardinality(Requests)
      <4>1. At("dest_create")' \in SUBSET Requests
        BY DEF At
      <4> QED BY <4>1, FS_Subset, FS_CardinalityType, SettingsAssumption
    <3> QED BY <1>1, <2>1, <3>1, <3>2 DEF DestinationsInv
  <2> QED BY <1>3, <1>7, <2>1 DEF CountDestinations
<1>8. ASSUME NEW r \in Requests, CreateDestination(r) PROVE DestinationsInv'
  <2>1. /\ req[r].pc = "dest_create" /\ req' = [req EXCEPT ![r] = Idle]
        /\ destinations' = destinations + 1 /\ Idle.pc # "dest_create"
    BY <1>8 DEF CreateDestination, Done, Idle
  <2>2. Cardinality(At("dest_create")') = Cardinality(At("dest_create")) - 1
    BY <1>1, <2>1, RequestMoves
  <2> QED BY <1>1, <2>1, <2>2 DEF DestinationsInv
<1>9. ASSUME Environment PROVE DestinationsInv'
  <2>1. /\ UNCHANGED req
        /\ \/ destinations' = destinations
           \/ destinations > 0 /\ destinations' = destinations - 1
    <3>1. ASSUME NEW u \in Users, NEW k \in Keys, CreateApiKey(u, k)
          PROVE  UNCHANGED <<req, destinations>>
      BY <3>1 DEF CreateApiKey
    <3>2. ASSUME NEW u \in Users, DisableUserMfa(u) PROVE UNCHANGED <<req, destinations>>
      BY <3>2 DEF DisableUserMfa
    <3>3. CASE DeleteDestination
      BY <3>3 DEF DeleteDestination
    <3>4. CASE Tick
      BY <3>4 DEF Tick
    <3> QED BY <1>9, <3>1, <3>2, <3>3, <3>4 DEF Environment
  <2>2. destinations' \in Nat /\ destinations' <= destinations
    BY <1>1, <2>1
  <2> QED BY <1>4, <2>1, <2>2
<1>10. ASSUME NEW r \in Requests,
              \/ Aborts(r) \/ Dies(r) \/ Login(r) \/ Setup(r) \/ SetFlag(r)
              \/ CreateMfa(r) \/ RotateApiKey(r) \/ RevokeApiKey(r)
       PROVE  DestinationsInv'
  BY <1>3, <1>10 DEF Aborts, Dies, Login, Setup, SetFlag, CreateMfa, RotateApiKey, RevokeApiKey
<1>11. ASSUME NEW r \in Requests, FindKey(r) \/ VerifyCode(r) \/ Complete(r) PROVE DestinationsInv'
  BY <1>3, <1>6, <1>11 DEF FindKey, VerifyCode, Complete, AtCommit
<1>12. CASE UNCHANGED vars
  BY <1>1, <1>4, <1>12 DEF vars
<1>13. ASSUME NEW r \in Requests, Step(r) PROVE DestinationsInv'
  BY <1>7, <1>8, <1>10, <1>11, <1>13 DEF Step
<1> QED BY <1>5, <1>9, <1>12, <1>13 DEF Next

(* However the counts and the creations of createDestination interleave with  *)
(* each other and with deletions, a FREE organization exceeds its limit by at *)
(* most the other requests in progress.                                       *)
THEOREM DestinationsStayBounded == Spec => []DestinationsBounded
<1>1. Init => DestinationsInv
  <2> SUFFICES ASSUME Init PROVE DestinationsInv
    OBVIOUS
  <2>1. At("dest_create") = {} /\ destinations = 0
    BY DEF Init, At, Idle
  <2>2. Cardinality(Requests) \in Nat /\ Cardinality({}) = 0
    BY FS_CardinalityType, FS_EmptySet, SettingsAssumption
  <2> QED BY <2>1, <2>2, SettingsAssumption DEF DestinationsInv
<1>2. TypeInv /\ DestinationsInv => DestinationsBounded
  <2> SUFFICES ASSUME TypeInv, DestinationsInv PROVE DestinationsBounded
    OBVIOUS
  <2>1. /\ Cardinality(At("dest_create")) \in Nat /\ destinations \in Nat /\ LIMIT \in Nat
        /\ Cardinality(Requests) \in Nat
    BY AtFinite, SettingsAssumption, FS_CardinalityType DEF TypeInv, TypeOK
  <2> QED BY <2>1 DEF DestinationsInv, DestinationsBounded
<1> QED BY <1>1, <1>2, TypeInit, NextTyped, DestinationsKeep, PTL DEF Spec

-----------------------------------------------------------------------------
(* Inv.  What a verified setup or a half-written one relies on is still there *)
(* unless an administrator's disable crossed it.                              *)

Promised(x, rows, shown, spoiled) ==
  /\ x.pc = "flag" => x.user \in spoiled \/ rows[x.user].status # "none"
  /\ x.pc = "commit" /\ x.kind \in {"setup", "complete"} =>
       \/ x.user \in spoiled
       \/ /\ rows[x.user].status # "none" /\ x.code.secret = rows[x.user].secret
          /\ rows[x.user].secret \in shown[x.user]

AccountInv == MarkHasRow /\ EnabledIsProved /\ \A r \in Requests : Promised(req[r], mfa, proved, crossed)

(* Steps that leave statuses and secrets alone and only add to what is proved. *)
LEMMA AccountFrame ==
  ASSUME TypeInv, AccountInv,
         UNCHANGED <<enabled, crossed>>,
         \A u \in Users : /\ mfa'[u].status = mfa[u].status /\ mfa'[u].secret = mfa[u].secret
                          /\ proved[u] \subseteq proved'[u],
         \A r \in Requests : req'[r] = req[r] \/ Promised(req'[r], mfa', proved', crossed')
  PROVE  AccountInv'
<1>1. MarkHasRow' /\ EnabledIsProved'
  BY DEF AccountInv, MarkHasRow, EnabledIsProved
<1>2. ASSUME NEW r \in Requests PROVE Promised(req'[r], mfa', proved', crossed')
  <2>1. CASE req'[r] = req[r]
    <3>1. Promised(req[r], mfa, proved, crossed) /\ Shaped(req[r])
      BY DEF AccountInv, TypeInv
    <3>2. CASE req[r].pc \in {"flag", "commit"}
      <4>1. req[r].user \in Users
        BY <3>1, <3>2 DEF Shaped
      <4> QED BY <2>1, <3>1, <4>1 DEF Promised
    <3> QED BY <2>1, <3>2 DEF Promised
  <2> QED BY <2>1
<1>3. \A r \in Requests : Promised(req'[r], mfa', proved', crossed')
  BY <1>2
<1> QED BY <1>1, <1>3 DEF AccountInv

LEMMA AccountKeeps == TypeInv /\ AccountInv /\ [Next]_vars => AccountInv'
<1> SUFFICES ASSUME TypeInv, AccountInv, [Next]_vars PROVE AccountInv'
  OBVIOUS
<1>1. /\ req \in [Requests -> RequestRecord] /\ \A r \in Requests : Shaped(req[r])
      /\ mfa \in [Users -> [status : {"none", "PENDING", "ENABLED"}, secret : Secrets, last : Steps]]
      /\ enabled \in [Users -> BOOLEAN] /\ proved \in [Users -> SUBSET Secrets]
      /\ crossed \subseteq Users
  BY DEF TypeInv, TypeOK, RequestRecord
<1>2. ASSUME UNCHANGED <<enabled, mfa, proved, crossed>>, NEW r \in Requests, NEW x,
             req' = [req EXCEPT ![r] = x], x.pc \notin {"flag", "commit"}
      PROVE  AccountInv'
  <2>1. Promised(x, mfa', proved', crossed')
    BY <1>2 DEF Promised
  <2>2. \A s \in Requests : req'[s] = IF s = r THEN x ELSE req[s]
    BY <1>1, <1>2
  <2>3. \A s \in Requests : req'[s] = req[s] \/ Promised(req'[s], mfa', proved', crossed')
    BY <2>1, <2>2
  <2> QED BY <1>2, <2>3, AccountFrame
<1>3. ASSUME UNCHANGED <<enabled, mfa, proved, crossed>>, NEW r \in Requests, Done(r)
      PROVE  AccountInv'
  BY <1>2, <1>3 DEF Done, Idle
<1>4. ASSUME NEW r \in Requests, Start(r) PROVE AccountInv'
  <2>1. PICK u \in Users :
          \/ \E kind \in CodeKinds, k \in Keys \cup {None}, step \in Steps :
               StartWithCode(r, u, kind, k, step)
          \/ StartEnable(r, u) \/ StartDestination(r, u)
    BY <1>4 DEF Start
  <2>2. PICK x : req' = [req EXCEPT ![r] = x] /\ x.pc \notin {"flag", "commit"}
    <3>1. CASE StartEnable(r, u) \/ StartDestination(r, u)
      <4>1. PICK pc \in {"mfa_create", "dest_count"} :
              req' = [req EXCEPT ![r] = [Idle EXCEPT !.pc = pc, !.user = u]]
        BY <3>1 DEF StartEnable, StartDestination, Begin
      <4>2. [Idle EXCEPT !.pc = pc, !.user = u].pc = pc
        BY DEF Idle
      <4> QED BY <4>1, <4>2
    <3>2. ASSUME NEW kind \in CodeKinds, NEW k \in Keys \cup {None}, NEW step \in Steps,
                 StartWithCode(r, u, kind, k, step)
          PROVE  \E x : req' = [req EXCEPT ![r] = x] /\ x.pc \notin {"flag", "commit"}
      <4> DEFINE x == [pc |-> IF k = None THEN "code" ELSE "find_key", kind |-> kind, user |-> u,
                       key |-> k, code |-> [secret |-> mfa[u].secret, step |-> step]]
      <4>1. req' = [req EXCEPT ![r] = x]
        BY <3>2 DEF StartWithCode, Begin
      <4>2. x.pc \notin {"flag", "commit"}
        OBVIOUS
      <4> HIDE DEF x
      <4> QED BY <4>1, <4>2
    <3> QED BY <2>1, <3>1, <3>2
  <2>3. UNCHANGED <<enabled, mfa, proved, crossed>>
    BY <2>1 DEF StartWithCode, StartEnable, StartDestination, accounts, history
  <2> QED BY <1>2, <2>2, <2>3
<1>5. ASSUME NEW r \in Requests, VerifyCode(r) PROVE AccountInv'
  <2> DEFINE u == req[r].user
  <2>1. /\ req[r].pc = "code" /\ u \in Users /\ UNCHANGED <<enabled, mfa, crossed>>
    BY <1>1, <1>5 DEF VerifyCode, Shaped, accounts
  <2>2. CASE Valid(mfa[u], req[r].code, req[r].kind \in Checked) /\ Goto(r, "commit")
    <3>1. /\ req' = [req EXCEPT ![r] = To(r, "commit")]
          /\ To(r, "commit").user = u /\ To(r, "commit").code = req[r].code
          /\ To(r, "commit").pc = "commit"
      <4>1. req[r] \in RequestRecord
        BY <1>1
      <4> QED BY <2>1, <2>2, <4>1 DEF To, Goto, RequestRecord
    <3>2. mfa[u].status # "none" /\ req[r].code.secret = mfa[u].secret
      BY <2>2 DEF Valid
    <3>3. proved' = [proved EXCEPT ![u] = proved[u] \cup {req[r].code.secret}]
      BY <1>5, <2>2 DEF VerifyCode
    <3> HIDE DEF u
    <3>4. mfa[u].secret \in proved'[u] /\ \A v \in Users : proved[v] \subseteq proved'[v]
      BY <1>1, <2>1, <3>2, <3>3
    <3>5. Promised(To(r, "commit"), mfa', proved', crossed')
      BY <2>1, <3>1, <3>2, <3>4 DEF Promised
    <3>6. \A s \in Requests : req'[s] = req[s] \/ Promised(req'[s], mfa', proved', crossed')
      <4>1. \A s \in Requests : req'[s] = IF s = r THEN To(r, "commit") ELSE req[s]
        BY <1>1, <3>1
      <4>2. req'[r] = To(r, "commit")
        BY <4>1
      <4>3. Promised(req'[r], mfa', proved', crossed')
        BY <3>5, <4>2
      <4> QED BY <4>1, <4>3
    <3> QED BY <2>1, <3>4, <3>6, AccountFrame
  <2>3. CASE ~Valid(mfa[u], req[r].code, req[r].kind \in Checked) /\ Done(r)
    <3>1. proved' = proved
      BY <1>5, <2>3 DEF VerifyCode
    <3> QED BY <1>3, <2>1, <2>3, <3>1
  <2> QED BY <1>5, <2>2, <2>3 DEF VerifyCode
<1>6. ASSUME NEW r \in Requests, req[r].pc = "commit", mfa' = Recorded(r), Done(r),
             UNCHANGED <<enabled, proved, crossed>>
      PROVE  AccountInv'
  <2>1. \A u \in Users : Recorded(r)[u] = IF u = req[r].user
                                          THEN [mfa[u] EXCEPT !.last = req[r].code.step]
                                          ELSE mfa[u]
    BY <1>6, RecordedTyped
  <2>2. \A u \in Users : mfa'[u].status = mfa[u].status /\ mfa'[u].secret = mfa[u].secret
    BY <1>1, <1>6, <2>1
  <2>3. Promised(Idle, mfa', proved', crossed') /\ \A s \in Requests : req'[s] = IF s = r THEN Idle ELSE req[s]
    BY <1>1, <1>6 DEF Done, Promised, Idle
  <2>4. \A s \in Requests : req'[s] = req[s] \/ Promised(req'[s], mfa', proved', crossed')
    BY <2>3
  <2> QED BY <1>6, <2>2, <2>4, AccountFrame
<1>7. ASSUME NEW r \in Requests, req[r].pc = "commit", req[r].kind \in {"setup", "complete"},
             HasRow(r), mfa' = [Recorded(r) EXCEPT ![req[r].user].status = "ENABLED"],
             UNCHANGED <<enabled, proved, crossed>>,
             NEW x, req' = [req EXCEPT ![r] = x], x = Idle \/ (x.pc = "flag" /\ x.user = req[r].user)
      PROVE  AccountInv'
  <2> DEFINE u == req[r].user
             f == Recorded(r)
  <2>1. /\ u \in Users
        /\ f \in [Users -> [status : {"none", "PENDING", "ENABLED"}, secret : Secrets, last : Steps]]
        /\ \A v \in Users : f[v] = IF v = u THEN [mfa[v] EXCEPT !.last = req[r].code.step]
                                   ELSE mfa[v]
    BY <1>7, RecordedTyped
  <2>2. /\ mfa' = [f EXCEPT ![u].status = "ENABLED"]
        /\ mfa[u].status # "none"
        /\ \/ u \in crossed
           \/ req[r].code.secret = mfa[u].secret /\ mfa[u].secret \in proved[u]
    BY <1>7 DEF HasRow, AccountInv, Promised
  <2>3. /\ mfa'[u].status = "ENABLED"
        /\ \A v \in Users : mfa'[v].secret = mfa[v].secret /\ (v # u => mfa'[v] = mfa[v])
    <3> HIDE DEF u, f
    <3> QED BY <1>1, <2>1, <2>2
  <2> HIDE DEF u, f
  <2>4. MarkHasRow' /\ EnabledIsProved'
    BY <1>7, <2>1, <2>2, <2>3 DEF AccountInv, MarkHasRow, EnabledIsProved
  <2>5. ASSUME NEW s \in Requests PROVE Promised(req'[s], mfa', proved', crossed')
    <3>1. CASE s = r
      <4>1. req'[s] = x
        BY <1>1, <1>7, <3>1
      <4> QED BY <1>7, <2>1, <2>3, <4>1 DEF Promised, Idle, u
    <3>2. CASE s # r
      <4>1. req'[s] = req[s] /\ Promised(req[s], mfa, proved, crossed) /\ Shaped(req[s])
        BY <1>1, <1>7, <3>2 DEF AccountInv
      <4>2. CASE req[s].pc \notin {"flag", "commit"}
        BY <4>1, <4>2 DEF Promised
      <4>3. CASE req[s].pc \in {"flag", "commit"}
        <5>1. req[s].user \in Users
          BY <4>1, <4>3 DEF Shaped
        <5>2. mfa'[req[s].user].secret = mfa[req[s].user].secret
              /\ (mfa[req[s].user].status # "none" => mfa'[req[s].user].status # "none")
          BY <2>3, <5>1
        <5> QED BY <1>7, <4>1, <4>3, <5>2 DEF Promised
      <4> QED BY <4>2, <4>3
    <3> QED BY <3>1, <3>2
  <2> QED BY <2>4, <2>5 DEF AccountInv
<1>8. ASSUME NEW r \in Requests, Setup(r) PROVE AccountInv'
  BY <1>7, <1>8 DEF Setup, AtCommit, Done, history
<1>9. ASSUME NEW r \in Requests, Complete(r) PROVE AccountInv'
  <2>1. /\ req[r].pc = "commit" /\ req[r].kind = "complete" /\ Goto(r, "flag")
        /\ HasRow(r) /\ mfa' = [Recorded(r) EXCEPT ![req[r].user].status = "ENABLED"]
        /\ UNCHANGED <<enabled, proved, crossed>>
    BY <1>9 DEF Complete, AtCommit, history
  <2>2. /\ req' = [req EXCEPT ![r] = To(r, "flag")]
        /\ To(r, "flag").pc = "flag" /\ To(r, "flag").user = req[r].user
    <3>1. req[r] \in RequestRecord
      BY <1>1
    <3> QED BY <2>1, <3>1 DEF To, Goto, RequestRecord
  <2> QED BY <1>7, <2>1, <2>2
<1>10. ASSUME NEW r \in Requests, SetFlag(r) PROVE AccountInv'
  <2> DEFINE u == req[r].user
  <2>1. /\ req[r].pc = "flag" /\ u \in Users /\ enabled' = [enabled EXCEPT ![u] = TRUE]
        /\ req' = [req EXCEPT ![r] = Idle] /\ UNCHANGED <<mfa, proved, crossed>>
    BY <1>1, <1>10 DEF SetFlag, Shaped, Done, history
  <2>2. u \in crossed \/ mfa[u].status # "none"
    BY <2>1 DEF AccountInv, Promised
  <2> HIDE DEF u
  <2>3. MarkHasRow' /\ EnabledIsProved'
    BY <1>1, <2>1, <2>2 DEF AccountInv, MarkHasRow, EnabledIsProved
  <2>4. ASSUME NEW s \in Requests PROVE Promised(req'[s], mfa', proved', crossed')
    <3>1. req'[s] = IF s = r THEN Idle ELSE req[s]
      BY <1>1, <2>1
    <3>2. Promised(req[s], mfa, proved, crossed) /\ Idle.pc = "idle"
      BY DEF AccountInv, Idle
    <3> QED BY <2>1, <3>1, <3>2 DEF Promised
  <2> QED BY <2>3, <2>4 DEF AccountInv
<1>11. ASSUME NEW r \in Requests, CreateMfa(r) PROVE AccountInv'
  <2> DEFINE u == req[r].user
  <2>1. /\ req[r].pc = "mfa_create" /\ u \in Users /\ Done(r)
        /\ req' = [req EXCEPT ![r] = Idle] /\ UNCHANGED <<enabled, proved, crossed>>
    BY <1>1, <1>11 DEF CreateMfa, Shaped, Done, history
  <2>2. CASE mfa[u].status # "none"
    BY <1>3, <1>11, <2>1, <2>2 DEF CreateMfa
  <2>3. CASE mfa[u].status = "none"
    <3>1. mfa' = [mfa EXCEPT ![u] = [status |-> "PENDING", secret |-> mfa[u].secret + 1, last |-> 0]]
      BY <1>11, <2>3 DEF CreateMfa
    <3> HIDE DEF u
    <3>2. mfa'[u].status = "PENDING" /\ \A v \in Users : v # u => mfa'[v] = mfa[v]
      BY <1>1, <2>1, <3>1
    <3>3. MarkHasRow' /\ EnabledIsProved'
      BY <2>1, <3>2 DEF AccountInv, MarkHasRow, EnabledIsProved
    <3>4. ASSUME NEW s \in Requests PROVE Promised(req'[s], mfa', proved', crossed')
      <4>1. req'[s] = IF s = r THEN Idle ELSE req[s]
        BY <1>1, <2>1
      <4>2. Promised(req[s], mfa, proved, crossed) /\ Shaped(req[s]) /\ Idle.pc = "idle"
        BY <1>1 DEF AccountInv, Idle
      <4>3. CASE req[s].pc \in {"flag", "commit"} /\ s # r
        <5>1. req[s].user \in Users
          BY <4>2, <4>3 DEF Shaped
        <5>2. req[s].user # u => mfa'[req[s].user] = mfa[req[s].user]
          BY <3>2, <5>1
        <5> QED BY <2>1, <2>3, <3>2, <4>1, <4>2, <4>3, <5>1, <5>2 DEF Promised
      <4> QED BY <4>1, <4>2, <4>3 DEF Promised
    <3> QED BY <3>3, <3>4 DEF AccountInv
  <2> QED BY <2>2, <2>3
<1>12. ASSUME NEW u \in Users, DisableUserMfa(u) PROVE AccountInv'
  <2>1. /\ enabled' = [enabled EXCEPT ![u] = FALSE]
        /\ mfa' = [mfa EXCEPT ![u].status = "none", ![u].last = 0]
        /\ crossed \subseteq crossed' /\ UNCHANGED <<req, proved>>
    BY <1>12 DEF DisableUserMfa
  <2>2. mfa'[u].status = "none" /\ \A v \in Users : v # u => mfa'[v] = mfa[v]
    BY <1>1, <2>1
  <2>3. MarkHasRow' /\ EnabledIsProved'
    BY <1>1, <2>1, <2>2 DEF AccountInv, MarkHasRow, EnabledIsProved
  <2>4. ASSUME NEW s \in Requests PROVE Promised(req'[s], mfa', proved', crossed')
    <3>1. req'[s] = req[s] /\ Promised(req[s], mfa, proved, crossed) /\ Shaped(req[s])
      BY <1>1, <2>1 DEF AccountInv
    <3>2. CASE \/ req[s].pc = "flag"
               \/ req[s].pc = "commit" /\ req[s].kind \in {"setup", "complete"}
      <4>1. req[s].user \in Users /\ (req[s].kind = "complete" \/ req[s].kind \in {"setup", "complete"})
        BY <3>1, <3>2 DEF Shaped
      <4>2. req[s].user = u => u \in crossed'
        BY <1>12, <3>2, <4>1 DEF DisableUserMfa, CodeRequests
      <4>3. req[s].user # u => mfa'[req[s].user] = mfa[req[s].user]
        BY <2>2, <4>1
      <4> QED BY <2>1, <3>1, <3>2, <4>2, <4>3 DEF Promised
    <3> QED BY <3>1, <3>2 DEF Promised
  <2> QED BY <2>3, <2>4 DEF AccountInv
<1>13. ASSUME UNCHANGED <<enabled, mfa, proved, crossed, req>> PROVE AccountInv'
  BY <1>13 DEF AccountInv, MarkHasRow, EnabledIsProved, Promised
<1>14. ASSUME Environment PROVE AccountInv'
  <2>1. ASSUME NEW u \in Users, NEW k \in Keys, CreateApiKey(u, k) PROVE AccountInv'
    BY <1>13, <2>1 DEF CreateApiKey, accounts, history
  <2>2. CASE DeleteDestination \/ Tick
    BY <1>13, <2>2 DEF DeleteDestination, Tick, accounts, history
  <2> QED BY <1>12, <1>14, <2>1, <2>2 DEF Environment
<1>15. ASSUME NEW r \in Requests, Login(r) \/ RotateApiKey(r) \/ RevokeApiKey(r) PROVE AccountInv'
  BY <1>6, <1>15 DEF Login, RotateApiKey, RevokeApiKey, AtCommit
<1>16. ASSUME NEW r \in Requests, Aborts(r) \/ Dies(r) \/ CreateDestination(r) PROVE AccountInv'
  BY <1>3, <1>16 DEF Aborts, Dies, CreateDestination, accounts, history
<1>17. ASSUME NEW r \in Requests, FindKey(r) \/ CountDestinations(r) PROVE AccountInv'
  <2>1. UNCHANGED <<enabled, mfa, proved, crossed>>
    BY <1>17 DEF FindKey, CountDestinations, accounts, history
  <2>2. ASSUME NEW pc \in {"code", "dest_create"}, Goto(r, pc) PROVE AccountInv'
    <3>1. req' = [req EXCEPT ![r] = To(r, pc)] /\ To(r, pc).pc = pc
      BY <1>1, <2>2 DEF Goto, To, RequestRecord
    <3> QED BY <1>2, <2>1, <3>1
  <2> QED BY <1>3, <1>17, <2>1, <2>2 DEF FindKey, CountDestinations
<1>18. CASE UNCHANGED vars
  BY <1>13, <1>18 DEF vars
<1>19. ASSUME NEW r \in Requests, Step(r) PROVE AccountInv'
  BY <1>5, <1>8, <1>9, <1>10, <1>11, <1>15, <1>16, <1>17, <1>19 DEF Step
<1> QED BY <1>4, <1>14, <1>18, <1>19 DEF Next

(* The mark of an account and its authenticator row agree, and an enabled     *)
(* secret was shown by its user, unless a disable crossed the setup.          *)
THEOREM AccountsAgree == Spec => []Inv
<1>1. Init => AccountInv
  <2> SUFFICES ASSUME Init PROVE AccountInv
    OBVIOUS
  <2>1. ASSUME NEW u \in Users
        PROVE  IF u \in Enrolled THEN enabled[u] /\ mfa[u].status = "ENABLED"
                                      /\ mfa[u].secret \in proved[u]
                                 ELSE ~enabled[u] /\ mfa[u].status = "none"
    BY DEF Init, NoRow
  <2>2. MarkHasRow /\ EnabledIsProved
    BY <2>1 DEF MarkHasRow, EnabledIsProved
  <2>3. \A r \in Requests : Promised(req[r], mfa, proved, crossed)
    BY DEF Init, Idle, Promised
  <2> QED BY <2>2, <2>3 DEF AccountInv
<1>2. TypeInv /\ AccountInv => Inv
  BY DEF TypeInv, AccountInv, Inv
<1> QED BY <1>1, <1>2, TypeInit, NextTyped, AccountKeeps, PTL DEF Spec

-----------------------------------------------------------------------------
(* CodeOnce, for a user whose requests with codes do not overlap.  A row keeps *)
(* the steps it has accepted below `last', a PENDING row has accepted none of  *)
(* its secret, and a request that has passed verifyMfaOtp is not stale.        *)

UsedOnce(row, used) ==
  \A s \in Secrets, t \in Steps :
    /\ used[<<s, t>>] <= 1
    /\ used[<<s, t>>] > 0 =>
         /\ s <= row.secret
         /\ s = row.secret => /\ row.status # "PENDING"
                              /\ row.status = "ENABLED" => t <= row.last

Accepted(x, row, used) ==
  /\ x.code.step > 0 /\ x.code.secret <= row.secret
  /\ x.pc = "flag" => row.status = "ENABLED"
  /\ x.pc # "flag" /\ x.code.secret < row.secret => row.status # "ENABLED"
  /\ x.pc # "flag" /\ x.code.secret = row.secret /\ row.status # "none" =>
       row.status = IF x.kind \in Checked THEN "ENABLED" ELSE "PENDING"
  /\ x.pc = "commit" /\ x.kind \notin Checked =>
       row.status # "none" /\ x.code.secret = row.secret
  /\ x.pc = "commit" /\ x.kind \in Checked =>
       /\ used[<<x.code.secret, x.code.step>>] = 0
       /\ x.code.secret = row.secret => row.last < x.code.step

OnceInv(u) ==
  /\ \A r, s \in CodeRequests(u) : r = s
  /\ enabled[u] => mfa[u].status = "ENABLED"
  /\ UsedOnce(mfa[u], uses[u])
  /\ \A r \in CodeRequests(u) : Accepted(req[r], mfa[u], uses[u])

(* A step of another user, and a step of the user that leaves the row alone. *)
LEMMA OnceFrame ==
  ASSUME TypeInv, NEW u \in Users, OnceInv(u),
         enabled'[u] = enabled[u], mfa'[u] = mfa[u], uses'[u] = uses[u],
         NEW r \in Requests, NEW x, req' = [req EXCEPT ![r] = x],
         \/ x.kind = "none" \/ x.user # u
         \/ /\ x.kind = req[r].kind /\ x.user = req[r].user
            /\ Accepted(x, mfa[u], uses[u])
  PROVE  OnceInv(u)'
<1>1. \A s \in Requests : req'[s] = IF s = r THEN x ELSE req[s]
  BY DEF TypeInv, TypeOK
<1>2. CodeRequests(u)' \subseteq CodeRequests(u)
  BY <1>1 DEF CodeRequests
<1>3. \A s \in CodeRequests(u)' : Accepted(req'[s], mfa'[u], uses'[u])
  <2> SUFFICES ASSUME NEW s \in CodeRequests(u)' PROVE Accepted(req'[s], mfa'[u], uses'[u])
    OBVIOUS
  <2>1. CASE s = r
    BY <1>1, <2>1 DEF CodeRequests
  <2>2. CASE s # r
    <3>1. req'[s] = req[s]
      BY <1>1, <2>2 DEF CodeRequests
    <3> QED BY <1>2, <3>1 DEF OnceInv
  <2> QED BY <2>1, <2>2
<1> QED BY <1>2, <1>3 DEF OnceInv

LEMMA RowTypes ==
  ASSUME TypeInv, NEW u \in Users
  PROVE  /\ mfa[u] \in [status : {"none", "PENDING", "ENABLED"}, secret : Secrets, last : Steps]
         /\ \A n \in Secrets \cup Steps : n \in Int /\ n >= 0
         /\ \A s \in Secrets, t \in Steps : uses[u][<<s, t>>] \in Nat
<1>1. \A n \in Secrets \cup Steps : n \in Int /\ n >= 0
  BY SettingsAssumption DEF Secrets, Steps
<1>2. uses[u] \in [Secrets \X Steps -> Nat]
  BY DEF TypeInv, TypeOK
<1>3. \A s \in Secrets, t \in Steps : uses[u][<<s, t>>] \in Nat
  BY <1>2
<1>4. mfa[u] \in [status : {"none", "PENDING", "ENABLED"}, secret : Secrets, last : Steps]
  BY DEF TypeInv, TypeOK
<1> QED BY <1>1, <1>3, <1>4

LEMMA UsedPoint ==
  ASSUME TypeInv, NEW r \in Requests, req[r].user \in Users
  PROVE  /\ \A v \in Users : v # req[r].user => Used(r)[v] = uses[v]
         /\ \A s \in Secrets, t \in Steps :
              Used(r)[req[r].user][<<s, t>>] =
                IF s = req[r].code.secret /\ t = req[r].code.step
                THEN uses[req[r].user][<<s, t>>] + 1 ELSE uses[req[r].user][<<s, t>>]
<1> DEFINE u == req[r].user
           c == <<req[r].code.secret, req[r].code.step>>
<1>1. Used(r) = [uses EXCEPT ![u] = [uses[u] EXCEPT ![c] = uses[u][c] + 1]]
  BY DEF Used
<1>2. c = <<req[r].code.secret, req[r].code.step>>
  OBVIOUS
<1>3. uses \in [Users -> [Secrets \X Steps -> Nat]] /\ u \in Users
  BY DEF TypeInv, TypeOK
<1> HIDE DEF u, c
<1>4. /\ \A v \in Users : v # u => Used(r)[v] = uses[v]
      /\ Used(r)[u] = [uses[u] EXCEPT ![c] = uses[u][c] + 1]
  BY <1>1, <1>3
<1>5. \A d \in Secrets \X Steps :
        Used(r)[u][d] = IF d = c THEN uses[u][d] + 1 ELSE uses[u][d]
  <2>1. uses[u] \in [Secrets \X Steps -> Nat]
    BY <1>3
  <2> QED BY <1>4, <2>1
<1>6. ASSUME NEW s \in Secrets, NEW t \in Steps
      PROVE  Used(r)[u][<<s, t>>] = IF s = req[r].code.secret /\ t = req[r].code.step
                                    THEN uses[u][<<s, t>>] + 1 ELSE uses[u][<<s, t>>]
  <2>1. <<s, t>> \in Secrets \X Steps
    OBVIOUS
  <2>2. <<s, t>> = c <=> s = req[r].code.secret /\ t = req[r].code.step
    BY <1>2
  <2> QED BY <1>5, <2>1, <2>2
<1> QED BY <1>4, <1>6 DEF u

(* A sign-in, or a key operation, uses the code it verified. *)
LEMMA CheckedCommit ==
  ASSUME TypeInv, NEW r \in Requests, NEW u \in Users, req[r].user = u,
         OnceInv(u), req[r].pc = "commit",
         req[r].kind \in Checked, HasRow(r),
         mfa' = Recorded(r), uses' = Used(r), UNCHANGED enabled, Done(r)
  PROVE  OnceInv(u)'
<1> DEFINE code == req[r].code
           row == mfa[u]
<1>1. /\ r \in CodeRequests(u)
      /\ code \in [secret : Secrets, step : Steps]
  BY RequestType DEF Shaped, RequestRecord, CodeRequests, Checked
<1>2. /\ row \in [status : {"none", "PENDING", "ENABLED"}, secret : Secrets, last : Steps]
      /\ \A n \in Secrets \cup Steps : n \in Int /\ n >= 0
      /\ \A s \in Secrets, t \in Steps : uses[u][<<s, t>>] \in Nat
  BY <1>1, RowTypes
<1>3. /\ mfa'[u] = [row EXCEPT !.last = code.step]
      /\ \A s \in Secrets, t \in Steps :
           uses'[u][<<s, t>>] = IF s = code.secret /\ t = code.step
                                THEN uses[u][<<s, t>>] + 1 ELSE uses[u][<<s, t>>]
  <2>1. mfa'[u] = [row EXCEPT !.last = code.step]
    BY RecordedTyped
  <2>2. \A s \in Secrets, t \in Steps :
          uses'[u][<<s, t>>] = IF s = code.secret /\ t = code.step
                               THEN uses[u][<<s, t>>] + 1 ELSE uses[u][<<s, t>>]
    BY UsedPoint
  <2> QED BY <2>1, <2>2
<1>4. /\ \A s \in CodeRequests(u) : s = r
      /\ enabled[u] => row.status = "ENABLED"
      /\ UsedOnce(row, uses[u]) /\ Accepted(req[r], row, uses[u])
  BY <1>1 DEF OnceInv
<1>5. /\ code.secret <= row.secret /\ code.step > 0
      /\ uses[u][<<code.secret, code.step>>] = 0
      /\ code.secret = row.secret => row.status = "ENABLED" /\ row.last < code.step
      /\ code.secret < row.secret => row.status # "ENABLED"
      /\ row.status # "none"
  BY <1>4 DEF Accepted, HasRow
<1>6. CodeRequests(u)' = {}
  <2>1. \A s \in Requests : req'[s] = IF s = r THEN Idle ELSE req[s]
    BY DEF TypeInv, TypeOK, Done
  <2>2. ASSUME NEW s \in CodeRequests(u)' PROVE FALSE
    <3>1. s \in Requests /\ req'[s].kind # "none" /\ req'[s].user = u
      BY <2>2 DEF CodeRequests
    <3>2. s # r /\ req'[s] = req[s]
      BY <2>1, <3>1 DEF Idle
    <3>3. s \in CodeRequests(u)
      BY <3>1, <3>2 DEF CodeRequests
    <3> QED BY <1>4, <3>2, <3>3
  <2> QED BY <2>2
<1> HIDE DEF code, row
<1>7. /\ mfa'[u].status = row.status /\ mfa'[u].secret = row.secret /\ mfa'[u].last = code.step
      /\ row.secret \in Int /\ row.last \in Int /\ code.secret \in Int /\ code.step \in Int
  BY <1>1, <1>2, <1>3
<1>8. UsedOnce(mfa'[u], uses'[u])
  <2> SUFFICES ASSUME NEW s \in Secrets, NEW t \in Steps
               PROVE  /\ uses'[u][<<s, t>>] <= 1
                      /\ uses'[u][<<s, t>>] > 0 =>
                           /\ s <= row.secret
                           /\ s = row.secret => /\ row.status # "PENDING"
                                                /\ row.status = "ENABLED" => t <= code.step
    BY <1>7 DEF UsedOnce
  <2>1. s \in Int /\ t \in Int /\ uses[u][<<s, t>>] \in Nat
    BY <1>2
  <2>2. CASE s = code.secret /\ t = code.step
    BY <1>3, <1>5, <1>7, <2>1, <2>2
  <2>3. CASE ~(s = code.secret /\ t = code.step)
    <3>1. uses'[u][<<s, t>>] = uses[u][<<s, t>>]
      BY <1>3, <2>3
    <3>2. /\ uses[u][<<s, t>>] <= 1
          /\ uses[u][<<s, t>>] > 0 =>
               /\ s <= row.secret
               /\ s = row.secret => /\ row.status # "PENDING"
                                    /\ row.status = "ENABLED" => t <= row.last
      BY <1>4 DEF UsedOnce
    <3>3. row.status = "ENABLED" => row.last < code.step
      BY <1>5, <1>7
    <3> QED BY <1>7, <2>1, <3>1, <3>2, <3>3
  <2> QED BY <2>2, <2>3
<1>9. enabled'[u] => mfa'[u].status = "ENABLED"
  BY <1>4, <1>7
<1> QED BY <1>6, <1>8, <1>9 DEF OnceInv

(* A setup is verified against a PENDING row, which has accepted nothing. *)
LEMMA SetupCommit ==
  ASSUME TypeInv, NEW r \in Requests, NEW u \in Users, req[r].user = u,
         OnceInv(u), req[r].pc = "commit", req[r].kind \in {"setup", "complete"}, HasRow(r),
         mfa' = [Recorded(r) EXCEPT ![req[r].user].status = "ENABLED"],
         UNCHANGED <<uses, enabled>>,
         NEW x, req' = [req EXCEPT ![r] = x],
         x = Idle \/ (x.pc = "flag" /\ x.code = req[r].code)
  PROVE  OnceInv(u)'
<1> DEFINE code == req[r].code
           row == mfa[u]
           f == Recorded(r)
<1>1. /\ r \in CodeRequests(u)
      /\ code \in [secret : Secrets, step : Steps]
  BY RequestType DEF Shaped, RequestRecord, CodeRequests
<1>2. /\ row \in [status : {"none", "PENDING", "ENABLED"}, secret : Secrets, last : Steps]
      /\ \A n \in Secrets \cup Steps : n \in Int /\ n >= 0
      /\ \A s \in Secrets, t \in Steps : uses[u][<<s, t>>] \in Nat
  BY RowTypes
<1>3. /\ \A s \in CodeRequests(u) : s = r
      /\ UsedOnce(row, uses[u]) /\ Accepted(req[r], row, uses[u])
  BY <1>1 DEF OnceInv
<1>4. /\ f \in [Users -> [status : {"none", "PENDING", "ENABLED"}, secret : Secrets, last : Steps]]
      /\ f[u] = [row EXCEPT !.last = code.step]
  BY RecordedTyped
<1>5. mfa' = [f EXCEPT ![u] = [f[u] EXCEPT !.status = "ENABLED"]]
  OBVIOUS
<1>6. row.status = "PENDING" /\ code.secret = row.secret /\ code.step > 0
  BY <1>2, <1>3 DEF Accepted, HasRow, Checked
<1> HIDE DEF f, code, row
<1>7. mfa'[u].status = "ENABLED" /\ mfa'[u].secret = row.secret
  <2>1. mfa'[u] = [f[u] EXCEPT !.status = "ENABLED"]
    BY <1>4, <1>5
  <2>2. f[u] \in [status : {"none", "PENDING", "ENABLED"}, secret : Secrets, last : Steps]
        /\ f[u].secret = row.secret
    BY <1>2, <1>4
  <2> QED BY <2>1, <2>2
<1>8. UsedOnce(mfa'[u], uses'[u])
  <2> SUFFICES ASSUME NEW s \in Secrets, NEW t \in Steps
               PROVE  /\ uses[u][<<s, t>>] <= 1
                      /\ uses[u][<<s, t>>] > 0 =>
                           /\ s <= row.secret
                           /\ s # row.secret
    BY <1>7 DEF UsedOnce
  <2> QED BY <1>3, <1>6 DEF UsedOnce
<1>9. \A s \in Requests : req'[s] = IF s = r THEN x ELSE req[s]
  BY DEF TypeInv, TypeOK
<1>10. \A s \in CodeRequests(u)' : s = r /\ x # Idle
  <2> SUFFICES ASSUME NEW s \in CodeRequests(u)' PROVE s = r /\ x # Idle
    OBVIOUS
  <2>1. s \in Requests /\ req'[s].kind # "none" /\ req'[s].user = u
    BY DEF CodeRequests
  <2>2. CASE s = r
    BY <1>9, <2>1, <2>2 DEF Idle
  <2>3. CASE s # r
    <3>1. s \in CodeRequests(u)
      BY <1>9, <2>1, <2>3 DEF CodeRequests
    <3> QED BY <1>3, <2>3, <3>1
  <2> QED BY <2>2, <2>3
<1>11. x # Idle => Accepted(x, mfa'[u], uses'[u])
  <2> SUFFICES ASSUME x # Idle PROVE Accepted(x, mfa'[u], uses'[u])
    OBVIOUS
  <2>1. x.pc = "flag" /\ x.code = code
    BY DEF code
  <2>2. code.secret <= row.secret
    BY <1>3 DEF Accepted, code
  <2> QED BY <1>6, <1>7, <2>1, <2>2 DEF Accepted
<1>12. \A s \in CodeRequests(u)' : Accepted(req'[s], mfa'[u], uses'[u])
  BY <1>9, <1>10, <1>11 DEF CodeRequests
<1>13. \A s, t \in CodeRequests(u)' : s = t
  BY <1>10
<1> QED BY <1>7, <1>8, <1>12, <1>13 DEF OnceInv

(* A new secret has not been used, and a deleted row accepts nothing. *)
LEMMA RowReplaced ==
  ASSUME TypeInv, NEW u \in Users, OnceInv(u),
         \A r \in CodeRequests(u)' : r \in CodeRequests(u) /\ req'[r] = req[r],
         uses' = uses, enabled'[u] => FALSE,
         \/ mfa'[u].status = "none" /\ mfa'[u].secret = mfa[u].secret
            /\ mfa'[u].last = 0
         \/ /\ mfa[u].status = "none"
            /\ mfa'[u] = [status |-> "PENDING", secret |-> mfa[u].secret + 1, last |-> 0],
         \A r \in CodeRequests(u) : req[r].pc = "flag" \/
                                    (req[r].pc = "commit" /\ req[r].kind \notin Checked) => FALSE
  PROVE  OnceInv(u)'
<1>1. /\ mfa[u] \in [status : {"none", "PENDING", "ENABLED"}, secret : Secrets, last : Steps]
      /\ \A n \in Secrets \cup Steps : n \in Int /\ n >= 0
      /\ \A s \in Secrets, t \in Steps : uses[u][<<s, t>>] \in Nat
  BY RowTypes
<1>2. mfa'[u].status # "ENABLED" /\ mfa[u].secret <= mfa'[u].secret
      /\ (mfa'[u].status # "none" => mfa'[u].secret = mfa[u].secret + 1)
      /\ mfa'[u].last = 0
      /\ mfa'[u].secret \in Int
  BY <1>1
<1>3. UsedOnce(mfa'[u], uses'[u])
  <2> SUFFICES ASSUME NEW s \in Secrets, NEW t \in Steps
               PROVE  /\ uses[u][<<s, t>>] <= 1
                      /\ uses[u][<<s, t>>] > 0 =>
                           /\ s <= mfa'[u].secret
                           /\ s = mfa'[u].secret => mfa'[u].status # "PENDING"
    BY <1>2 DEF UsedOnce
  <2>1. /\ uses[u][<<s, t>>] <= 1
        /\ uses[u][<<s, t>>] > 0 => s <= mfa[u].secret
    BY DEF OnceInv, UsedOnce
  <2>2. s \in Int /\ mfa[u].secret \in Int
    BY <1>1
  <2> QED BY <1>2, <2>1, <2>2
<1>4. ASSUME NEW r \in CodeRequests(u)' PROVE Accepted(req'[r], mfa'[u], uses'[u])
  <2>1. /\ req'[r] = req[r] /\ r \in CodeRequests(u) /\ r \in Requests
        /\ Accepted(req[r], mfa[u], uses[u])
    BY DEF OnceInv, CodeRequests
  <2>2. req[r].code.secret \in Int /\ mfa[u].secret \in Int /\ req[r].code.step \in Int
    BY <1>1, <2>1, RequestType DEF RequestRecord
  <2>3. req[r].code.secret <= mfa[u].secret
    BY <2>1 DEF Accepted
  <2>4. req[r].pc # "flag" /\ (req[r].pc = "commit" => req[r].kind \in Checked)
    BY <2>1
  <2>5. mfa'[u].status # "none" => req[r].code.secret < mfa'[u].secret
    BY <1>2, <2>2, <2>3
  <2>6. req[r].code.step > 0 /\ req[r].code.secret <= mfa'[u].secret
    BY <1>2, <2>1, <2>2, <2>3 DEF Accepted
  <2>7. req[r].code.secret = mfa'[u].secret => mfa'[u].status = "none"
    BY <1>2, <2>2, <2>5
  <2>8. req[r].pc = "commit" => uses[u][<<req[r].code.secret, req[r].code.step>>] = 0
    BY <2>1, <2>4 DEF Accepted
  <2> QED BY <1>2, <2>1, <2>4, <2>6, <2>7, <2>8 DEF Accepted
<1>5. \A r, s \in CodeRequests(u)' : r = s
  BY DEF OnceInv
<1> QED BY <1>3, <1>4, <1>5 DEF OnceInv

(* A code of the user's secret is shown by the only request of the user. *)
LEMMA CodeShown ==
  ASSUME TypeInv, NEW r \in Requests, req[r].pc = "idle", NEW u \in Users, OnceInv(u),
         u \notin crossed, u \notin lax',
         NEW kind \in CodeKinds, NEW k \in Keys \cup {None}, NEW step \in Steps,
         StartWithCode(r, u, kind, k, step)
  PROVE  OnceInv(u)'
<1> DEFINE x == [pc |-> IF k = None THEN "code" ELSE "find_key", kind |-> kind, user |-> u,
                 key |-> k, code |-> [secret |-> mfa[u].secret, step |-> step]]
<1>1. /\ req' = [req EXCEPT ![r] = x]
      /\ enabled[u] \/ kind = "complete"
      /\ step # 0
      /\ CodeRequests(u) = {} /\ (kind \in Checked \/ mfa[u].status # "ENABLED")
      /\ UNCHANGED <<enabled, mfa, uses>>
  BY DEF StartWithCode, Begin, accounts
<1>2. /\ x.pc \in {"code", "find_key"} /\ x.kind = kind /\ x.code.step = step
      /\ x.code.secret = mfa[u].secret
  OBVIOUS
<1> HIDE DEF x
<1>3. \A s \in Requests : req'[s] = IF s = r THEN x ELSE req[s]
  BY <1>1 DEF TypeInv, TypeOK
<1>4. \A s \in CodeRequests(u)' : s = r
  <2> SUFFICES ASSUME NEW s \in CodeRequests(u)', s # r PROVE FALSE
    OBVIOUS
  <2>1. s \in CodeRequests(u)
    BY <1>3 DEF CodeRequests
  <2> QED BY <1>1, <2>1
<1>5. Accepted(x, mfa[u], uses[u])
  <2>1. /\ mfa[u].secret \in Int /\ step \in Int /\ step >= 0
        /\ mfa[u].status \in {"none", "PENDING", "ENABLED"}
    BY RowTypes
  <2>2. x.code.step > 0 /\ x.code.secret <= mfa[u].secret /\ ~(x.code.secret < mfa[u].secret)
    BY <1>1, <1>2, <2>1
  <2>3. mfa[u].status # "none" =>
          mfa[u].status = IF kind \in Checked THEN "ENABLED" ELSE "PENDING"
    <3>1. enabled[u] => mfa[u].status = "ENABLED"
      BY DEF OnceInv
    <3>2. kind \in Checked => kind # "complete"
      BY DEF Checked
    <3> QED BY <1>1, <2>1, <3>1, <3>2
  <2> QED BY <1>2, <2>2, <2>3 DEF Accepted
<1>6. \A s \in CodeRequests(u)' : Accepted(req'[s], mfa'[u], uses'[u])
  BY <1>1, <1>3, <1>4, <1>5 DEF CodeRequests
<1>7. \A s, t \in CodeRequests(u)' : s = t
  BY <1>4
<1> QED BY <1>1, <1>6, <1>7 DEF OnceInv

(* verifyMfaOtp accepts no code that was used: `last' is at least its step. *)
LEMMA CodeVerified ==
  ASSUME TypeInv, NEW r \in Requests, NEW u \in Users, req[r].user = u, OnceInv(u),
         req[r].pc = "code", Valid(mfa[u], req[r].code, req[r].kind \in Checked)
  PROVE  Accepted(To(r, "commit"), mfa[u], uses[u])
<1> DEFINE code == req[r].code
           row == mfa[u]
<1>1. /\ req[r] \in RequestRecord /\ Shaped(req[r]) /\ r \in CodeRequests(u)
      /\ code.secret \in Secrets /\ code.step \in Steps
  BY RequestType DEF Shaped, RequestRecord, CodeRequests, CodeKinds
<1>2. /\ row \in [status : {"none", "PENDING", "ENABLED"}, secret : Secrets, last : Steps]
      /\ \A n \in Secrets \cup Steps : n \in Int /\ n >= 0
      /\ \A s \in Secrets, t \in Steps : uses[u][<<s, t>>] \in Nat
  BY RowTypes
<1>3. UsedOnce(row, uses[u]) /\ Accepted(req[r], row, uses[u])
  BY <1>1 DEF OnceInv
<1>4. /\ To(r, "commit").code = code /\ To(r, "commit").kind = req[r].kind
      /\ To(r, "commit").pc = "commit"
  BY <1>1 DEF To, RequestRecord
<1>5. /\ row.status # "none" /\ code.secret = row.secret
      /\ req[r].kind \in Checked /\ row.last > 0 => code.step > row.last
  BY DEF Valid
<1>6. /\ row.status = IF req[r].kind \in Checked THEN "ENABLED" ELSE "PENDING"
      /\ code.step > 0
  BY <1>3, <1>5 DEF Accepted
<1> HIDE DEF code, row
<1>7. row.last \in Int /\ row.last >= 0 /\ code.step \in Int
      /\ row.secret \in Int /\ code.secret \in Int
  BY <1>1, <1>2
<1>8. req[r].kind \in Checked => row.last < code.step
  BY <1>5, <1>6, <1>7
<1>9. req[r].kind \in Checked => uses[u][<<code.secret, code.step>>] = 0
  <2> SUFFICES ASSUME req[r].kind \in Checked, uses[u][<<code.secret, code.step>>] > 0
               PROVE  FALSE
    BY <1>1, <1>2
  <2>1. code.step <= row.last
    BY <1>1, <1>3, <1>5, <1>6 DEF UsedOnce
  <2> QED BY <1>7, <1>8, <2>1
<1>10. code.secret <= row.secret /\ ~(code.secret < row.secret)
  BY <1>5, <1>7
<1> QED BY <1>4, <1>5, <1>6, <1>8, <1>9, <1>10 DEF Accepted, code, row

LEMMA OnceKeeps ==
  ASSUME TypeInv, [Next]_vars, NEW u \in Users, u \notin lax' \cup crossed', OnceInv(u)
  PROVE  OnceInv(u)'
<1>1. /\ req \in [Requests -> RequestRecord] /\ \A r \in Requests : Shaped(req[r])
      /\ mfa \in [Users -> [status : {"none", "PENDING", "ENABLED"}, secret : Secrets, last : Steps]]
      /\ enabled \in [Users -> BOOLEAN] /\ uses \in [Users -> [Secrets \X Steps -> Nat]]
  BY DEF TypeInv, TypeOK, RequestRecord
<1>2. ASSUME enabled'[u] = enabled[u], mfa'[u] = mfa[u], uses'[u] = uses[u],
             NEW r \in Requests, Done(r)
      PROVE  OnceInv(u)'
  <2>1. req' = [req EXCEPT ![r] = Idle] /\ Idle.kind = "none"
    BY <1>2 DEF Done, Idle
  <2> QED BY <1>2, <2>1, OnceFrame
<1>3. ASSUME enabled'[u] = enabled[u], mfa'[u] = mfa[u], uses'[u] = uses[u], UNCHANGED req
      PROVE  OnceInv(u)'
  BY <1>3 DEF OnceInv, CodeRequests
<1>4. ASSUME enabled'[u] = enabled[u], mfa'[u] = mfa[u], uses'[u] = uses[u],
             NEW r \in Requests, NEW pc, Goto(r, pc),
             req[r].user = u /\ req[r].kind # "none" => Accepted(To(r, pc), mfa[u], uses[u])
      PROVE  OnceInv(u)'
  <2>1. /\ req' = [req EXCEPT ![r] = To(r, pc)]
        /\ To(r, pc).kind = req[r].kind /\ To(r, pc).user = req[r].user
    BY <1>1, <1>4 DEF Goto, To, RequestRecord
  <2> QED BY <1>4, <2>1, OnceFrame
<1>5. ASSUME NEW r \in Requests, CanStart(r), Start(r), u \notin crossed PROVE OnceInv(u)'
  <2>1. PICK v \in Users :
          \/ \E kind \in CodeKinds, k \in Keys \cup {None}, step \in Steps :
               StartWithCode(r, v, kind, k, step)
          \/ StartEnable(r, v) \/ StartDestination(r, v)
    BY <1>5 DEF Start
  <2>2. CASE StartEnable(r, v) \/ StartDestination(r, v)
    <3>1. UNCHANGED <<enabled, mfa, uses>>
      BY <2>2 DEF StartEnable, StartDestination, accounts, history
    <3>2. PICK pc \in {"mfa_create", "dest_count"} :
            req' = [req EXCEPT ![r] = [Idle EXCEPT !.pc = pc, !.user = v]]
      BY <2>2 DEF StartEnable, StartDestination, Begin
    <3>3. [Idle EXCEPT !.pc = pc, !.user = v].kind = "none"
      BY DEF Idle
    <3> QED BY <3>1, <3>2, <3>3, OnceFrame
  <2>3. ASSUME NEW kind \in CodeKinds, NEW k \in Keys \cup {None}, NEW step \in Steps,
               StartWithCode(r, v, kind, k, step)
        PROVE  OnceInv(u)'
    <3>1. CASE v = u
      BY <1>5, <2>3, <3>1, CodeShown DEF CanStart
    <3>2. CASE v # u
      <4> DEFINE x == [pc |-> IF k = None THEN "code" ELSE "find_key", kind |-> kind, user |-> v,
                       key |-> k, code |-> [secret |-> mfa[v].secret, step |-> step]]
      <4>1. req' = [req EXCEPT ![r] = x] /\ UNCHANGED <<enabled, mfa, uses>> /\ x.user # u
        BY <2>3, <3>2 DEF StartWithCode, Begin, accounts
      <4> HIDE DEF x
      <4> QED BY <4>1, OnceFrame
    <3> QED BY <3>1, <3>2
  <2> QED BY <2>1, <2>2, <2>3
<1>6. ASSUME NEW r \in Requests, FindKey(r) PROVE OnceInv(u)'
  <2>1. UNCHANGED <<enabled, mfa, uses>> /\ req[r].pc = "find_key"
    BY <1>6 DEF FindKey, accounts, history
  <2>2. CASE Goto(r, "code")
    <3>1. ASSUME req[r].user = u, req[r].kind # "none"
          PROVE  Accepted(To(r, "code"), mfa[u], uses[u])
      <4>1. Accepted(req[r], mfa[u], uses[u])
        BY <3>1 DEF OnceInv, CodeRequests
      <4>2. /\ To(r, "code").code = req[r].code /\ To(r, "code").kind = req[r].kind
            /\ To(r, "code").pc = "code"
        BY <1>1 DEF To, RequestRecord
      <4> QED BY <2>1, <4>1, <4>2 DEF Accepted
    <3> QED BY <1>4, <2>1, <2>2, <3>1
  <2> QED BY <1>2, <1>6, <2>1, <2>2 DEF FindKey
<1>7. ASSUME NEW r \in Requests, VerifyCode(r) PROVE OnceInv(u)'
  <2>1. UNCHANGED <<enabled, mfa, uses>> /\ req[r].pc = "code"
    BY <1>7 DEF VerifyCode, accounts
  <2>2. CASE /\ Goto(r, "commit")
             /\ Valid(mfa[req[r].user], req[r].code, req[r].kind \in Checked)
    <3>1. req[r].user = u => Accepted(To(r, "commit"), mfa[u], uses[u])
      BY <2>1, <2>2, CodeVerified
    <3> QED BY <1>4, <2>1, <2>2, <3>1
  <2> QED BY <1>2, <1>7, <2>1, <2>2 DEF VerifyCode
<1>8. ASSUME NEW r \in Requests, Login(r) \/ RotateApiKey(r) \/ RevokeApiKey(r) PROVE OnceInv(u)'
  <2>1. /\ req[r].pc = "commit" /\ req[r].kind \in Checked /\ HasRow(r) /\ req[r].user \in Users
        /\ mfa' = Recorded(r) /\ uses' = Used(r) /\ UNCHANGED enabled /\ Done(r)
    BY <1>1, <1>8 DEF Login, RotateApiKey, RevokeApiKey, AtCommit, Checked, Shaped
  <2>2. CASE req[r].user = u
    BY <2>1, <2>2, CheckedCommit
  <2>3. CASE req[r].user # u
    <3>1. mfa'[u] = mfa[u] /\ uses'[u] = uses[u]
      BY <2>1, <2>3, RecordedTyped, UsedPoint
    <3> QED BY <1>2, <2>1, <3>1
  <2> QED BY <2>2, <2>3
<1>9. ASSUME NEW r \in Requests, Setup(r) \/ Complete(r) PROVE OnceInv(u)'
  <2>1. /\ req[r].pc = "commit" /\ req[r].kind \in {"setup", "complete"} /\ HasRow(r)
        /\ req[r].user \in Users
        /\ mfa' = [Recorded(r) EXCEPT ![req[r].user].status = "ENABLED"]
        /\ UNCHANGED <<uses, enabled>>
    BY <1>1, <1>9 DEF Setup, Complete, AtCommit, Shaped, history
  <2>2. PICK x : /\ req' = [req EXCEPT ![r] = x]
                 /\ \/ x = Idle
                    \/ /\ x.pc = "flag" /\ x.code = req[r].code
                       /\ x.kind = req[r].kind /\ x.user = req[r].user
    <3>1. CASE Setup(r)
      BY <3>1 DEF Setup, Done
    <3>2. CASE Complete(r)
      <4>1. req' = [req EXCEPT ![r] = To(r, "flag")]
        BY <3>2 DEF Complete, Goto, To
      <4>2. /\ To(r, "flag").pc = "flag" /\ To(r, "flag").code = req[r].code
            /\ To(r, "flag").kind = req[r].kind /\ To(r, "flag").user = req[r].user
        BY <1>1 DEF To, RequestRecord
      <4> QED BY <4>1, <4>2
    <3> QED BY <1>9, <3>1, <3>2
  <2>3. CASE req[r].user = u
    BY <2>1, <2>2, <2>3, SetupCommit
  <2>4. CASE req[r].user # u
    <3> DEFINE f == Recorded(r)
    <3>1. f[u] = mfa[u] /\ mfa' = [f EXCEPT ![req[r].user].status = "ENABLED"]
          /\ f \in [Users -> [status : {"none", "PENDING", "ENABLED"}, secret : Secrets, last : Steps]]
      BY <2>1, <2>4, RecordedTyped
    <3> HIDE DEF f
    <3>2. mfa'[u] = mfa[u]
      BY <2>1, <2>4, <3>1
    <3>3. x.kind = "none" \/ x.user # u
      BY <2>2, <2>4 DEF Idle
    <3> QED BY <2>1, <2>2, <3>2, <3>3, OnceFrame
  <2> QED BY <2>3, <2>4
<1>10. ASSUME NEW r \in Requests, SetFlag(r) PROVE OnceInv(u)'
  <2>1. /\ req[r].pc = "flag" /\ req[r].kind # "none" /\ req[r].user \in Users
        /\ req' = [req EXCEPT ![r] = Idle] /\ UNCHANGED <<mfa, uses>>
        /\ enabled' = [enabled EXCEPT ![req[r].user] = TRUE]
    BY <1>1, <1>10 DEF SetFlag, Shaped, CodeKinds, Done, history
  <2>2. CASE req[r].user # u
    <3>1. enabled'[u] = enabled[u]
      BY <1>1, <2>1, <2>2
    <3> QED BY <1>2, <2>1, <3>1 DEF Done
  <2>3. CASE req[r].user = u
    <3>1. Accepted(req[r], mfa[u], uses[u])
      BY <2>1, <2>3 DEF OnceInv, CodeRequests
    <3>2. mfa[u].status = "ENABLED"
      BY <2>1, <3>1 DEF Accepted
    <3>3. \A s \in CodeRequests(u)' : s \in CodeRequests(u) /\ req'[s] = req[s]
      <4>1. \A s \in Requests : req'[s] = IF s = r THEN Idle ELSE req[s]
        BY <1>1, <2>1
      <4> QED BY <4>1 DEF CodeRequests, Idle
    <3> QED BY <2>1, <3>2, <3>3 DEF OnceInv
  <2> QED BY <2>2, <2>3
<1>11. ASSUME NEW r \in Requests, CreateMfa(r) PROVE OnceInv(u)'
  <2> DEFINE v == req[r].user
  <2>1. /\ req[r].pc = "mfa_create" /\ v \in Users /\ req[r].kind = "none"
        /\ Done(r) /\ UNCHANGED <<enabled, uses>>
    BY <1>1, <1>11 DEF CreateMfa, Shaped, history
  <2>2. CASE mfa[v].status # "none"
    BY <1>2, <1>11, <2>1, <2>2 DEF CreateMfa
  <2>3. CASE mfa[v].status = "none"
    <3>1. mfa' = [mfa EXCEPT ![v] = [status |-> "PENDING", secret |-> mfa[v].secret + 1, last |-> 0]]
      BY <1>11, <2>3 DEF CreateMfa
    <3> HIDE DEF v
    <3>2. CASE v # u
      <4>1. mfa'[u] = mfa[u]
        BY <1>1, <3>1, <3>2
      <4> QED BY <1>2, <2>1, <4>1
    <3>3. CASE v = u
      <4>1. /\ mfa'[u] = [status |-> "PENDING", secret |-> mfa[u].secret + 1, last |-> 0]
            /\ mfa[u].status = "none" /\ ~enabled'[u]
        BY <1>1, <2>1, <2>3, <3>1, <3>3 DEF OnceInv
      <4>2. \A s \in CodeRequests(u)' : s \in CodeRequests(u) /\ req'[s] = req[s]
        <5>1. \A s \in Requests : req'[s] = IF s = r THEN Idle ELSE req[s]
          BY <1>1, <2>1 DEF Done
        <5> QED BY <5>1 DEF CodeRequests, Idle
      <4>3. \A s \in CodeRequests(u) :
              req[s].pc = "flag" \/ (req[s].pc = "commit" /\ req[s].kind \notin Checked) => FALSE
        BY <4>1 DEF OnceInv, Accepted
      <4> QED BY <2>1, <4>1, <4>2, <4>3, RowReplaced
    <3> QED BY <3>2, <3>3
  <2> QED BY <2>2, <2>3
<1>12. ASSUME NEW v \in Users, DisableUserMfa(v) PROVE OnceInv(u)'
  <2>1. /\ enabled' = [enabled EXCEPT ![v] = FALSE]
        /\ mfa' = [mfa EXCEPT ![v].status = "none", ![v].last = 0]
        /\ UNCHANGED <<req, uses>>
    BY <1>12 DEF DisableUserMfa
  <2>2. CASE v # u
    <3>1. enabled'[u] = enabled[u] /\ mfa'[u] = mfa[u]
      BY <1>1, <2>1, <2>2
    <3> QED BY <1>3, <2>1, <3>1
  <2>3. CASE v = u
    <3>1. /\ mfa'[u].status = "none" /\ mfa'[u].secret = mfa[u].secret /\ mfa'[u].last = 0
          /\ ~enabled'[u]
      BY <1>1, <2>1, <2>3
    <3>2. \A s \in CodeRequests(u)' : s \in CodeRequests(u) /\ req'[s] = req[s]
      BY <2>1 DEF CodeRequests
    <3>3. \A s \in CodeRequests(u) :
            req[s].pc = "flag" \/ (req[s].pc = "commit" /\ req[s].kind \notin Checked) => FALSE
      <4> SUFFICES ASSUME NEW s \in CodeRequests(u),
                          \/ req[s].pc = "flag"
                          \/ req[s].pc = "commit" /\ req[s].kind \notin Checked
                   PROVE  FALSE
        OBVIOUS
      <4>1. Shaped(req[s])
        BY <1>1 DEF CodeRequests
      <4>2. req[s].kind \in {"setup", "complete"} /\ req[s].pc \in {"commit", "flag"}
        BY <4>1 DEF Shaped, CodeKinds, Checked
      <4>3. u \in crossed'
        BY <1>12, <2>3, <4>2 DEF DisableUserMfa
      <4> QED BY <4>3
    <3> QED BY <2>1, <3>1, <3>2, <3>3, RowReplaced
  <2> QED BY <2>2, <2>3
<1>13. ASSUME Environment PROVE OnceInv(u)'
  <2>1. ASSUME NEW v \in Users, NEW k \in Keys, CreateApiKey(v, k) PROVE OnceInv(u)'
    BY <1>3, <2>1 DEF CreateApiKey, accounts, history
  <2>2. CASE DeleteDestination \/ Tick
    BY <1>3, <2>2 DEF DeleteDestination, Tick, accounts, history
  <2> QED BY <1>12, <1>13, <2>1, <2>2 DEF Environment
<1>14. ASSUME NEW r \in Requests, Aborts(r) \/ Dies(r) \/ CreateDestination(r) PROVE OnceInv(u)'
  BY <1>2, <1>14 DEF Aborts, Dies, CreateDestination, accounts, history
<1>15. ASSUME NEW r \in Requests, CountDestinations(r) PROVE OnceInv(u)'
  <2>1. UNCHANGED <<enabled, mfa, uses>> /\ req[r].kind = "none"
    BY <1>1, <1>15 DEF CountDestinations, Shaped, accounts, history
  <2> QED BY <1>2, <1>4, <1>15, <2>1 DEF CountDestinations
<1>16. CASE UNCHANGED vars
  BY <1>3, <1>16 DEF vars
<1>17. ASSUME NEW r \in Requests, Step(r) PROVE OnceInv(u)'
  BY <1>6, <1>7, <1>8, <1>9, <1>10, <1>11, <1>14, <1>15, <1>17 DEF Step
<1>18. ASSUME NEW r \in Requests, CanStart(r), Start(r) PROVE OnceInv(u)'
  <2>1. crossed' = crossed
    <3>1. PICK v \in Users :
            \/ \E kind \in CodeKinds, k \in Keys \cup {None}, step \in Steps :
                 StartWithCode(r, v, kind, k, step)
            \/ StartEnable(r, v) \/ StartDestination(r, v)
      BY <1>18 DEF Start
    <3> QED BY <3>1 DEF StartWithCode, StartEnable, StartDestination, history
  <2> QED BY <1>5, <1>18, <2>1
<1> QED BY <1>13, <1>16, <1>17, <1>18 DEF Next

(* Users once left out stay out. *)
LEMMA LaxGrows ==
  TypeInv /\ [Next]_vars => lax \subseteq lax' /\ crossed \subseteq crossed'
<1> SUFFICES ASSUME [Next]_vars PROVE lax \subseteq lax' /\ crossed \subseteq crossed'
  OBVIOUS
<1>1. ASSUME NEW r \in Requests, Start(r) PROVE lax \subseteq lax' /\ crossed \subseteq crossed'
  <2>1. PICK v \in Users :
          \/ \E kind \in CodeKinds, k \in Keys \cup {None}, step \in Steps :
               StartWithCode(r, v, kind, k, step)
          \/ StartEnable(r, v) \/ StartDestination(r, v)
    BY <1>1 DEF Start
  <2> QED BY <2>1 DEF StartWithCode, StartEnable, StartDestination, history
<1>2. ASSUME NEW r \in Requests, FindKey(r) \/ VerifyCode(r) \/ Aborts(r) \/ Login(r) \/ Setup(r)
      PROVE  UNCHANGED <<lax, crossed>>
  BY <1>2 DEF FindKey, VerifyCode, Aborts, Login, Setup, history
<1>3. ASSUME NEW r \in Requests, Complete(r) \/ SetFlag(r) \/ RotateApiKey(r) \/ RevokeApiKey(r)
      PROVE  UNCHANGED <<lax, crossed>>
  BY <1>3 DEF Complete, SetFlag, RotateApiKey, RevokeApiKey, history
<1>4. ASSUME NEW r \in Requests,
             CreateMfa(r) \/ CountDestinations(r) \/ CreateDestination(r) \/ Dies(r)
      PROVE  UNCHANGED <<lax, crossed>>
  BY <1>4 DEF CreateMfa, CountDestinations, CreateDestination, Dies, history
<1>5. ASSUME NEW r \in Requests, Step(r) PROVE UNCHANGED <<lax, crossed>>
  BY <1>2, <1>3, <1>4, <1>5 DEF Step
<1>6. ASSUME NEW v \in Users, DisableUserMfa(v) PROVE lax' = lax /\ crossed \subseteq crossed'
  BY <1>6 DEF DisableUserMfa
<1>7. ASSUME NEW v \in Users, NEW k \in Keys, CreateApiKey(v, k) PROVE UNCHANGED <<lax, crossed>>
  BY <1>7 DEF CreateApiKey, history
<1>8. CASE DeleteDestination \/ Tick
  BY <1>8 DEF DeleteDestination, Tick, history
<1>9. CASE UNCHANGED vars
  BY <1>9 DEF vars
<1> QED BY <1>1, <1>5, <1>6, <1>7, <1>8, <1>9 DEF Next, Environment

CodesInv == \A u \in Users \ (lax \cup crossed) : OnceInv(u)

LEMMA CodesKeep == TypeInv /\ CodesInv /\ [Next]_vars => CodesInv'
<1> SUFFICES ASSUME TypeInv, CodesInv, [Next]_vars,
                    NEW u \in Users, u \notin lax' \cup crossed'
             PROVE  OnceInv(u)'
  BY DEF CodesInv
<1>1. OnceInv(u)
  BY LaxGrows DEF CodesInv
<1> QED BY <1>1, OnceKeeps

(* A code of a user is accepted at most once by sign-ins, rotations and       *)
(* revocations together, as long as the user's requests with codes do not     *)
(* overlap, the setup is not repeated and no disable crosses it.              *)
THEOREM CodesAcceptedOnce == Spec => []CodeOnce
<1>1. Init => CodesInv
  <2> SUFFICES ASSUME Init, NEW u \in Users PROVE OnceInv(u)
    BY DEF CodesInv
  <2>1. CodeRequests(u) = {}
    BY DEF CodeRequests, Init, Idle
  <2>2. enabled[u] => mfa[u].status = "ENABLED"
    BY DEF Init
  <2>3. \A s \in Secrets, t \in Steps : uses[u][<<s, t>>] = 0
    BY DEF Init
  <2> QED BY <2>1, <2>2, <2>3 DEF OnceInv, UsedOnce
<1>2. CodesInv => CodeOnce
  <2> SUFFICES ASSUME CodesInv, NEW u \in Users \ (lax \cup crossed), NEW c \in Secrets \X Steps
               PROVE  uses[u][c] <= 1
    BY DEF CodeOnce
  <2>1. PICK s \in Secrets, t \in Steps : c = <<s, t>>
    OBVIOUS
  <2>2. uses[u][<<s, t>>] <= 1
    BY DEF CodesInv, OnceInv, UsedOnce
  <2> QED BY <2>1, <2>2
<1> QED BY <1>1, <1>2, TypeInit, NextTyped, CodesKeep, PTL DEF Spec
=============================================================================
