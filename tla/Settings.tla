------------------------------- MODULE Settings -------------------------------
(***************************************************************************)
(* What the members of one organization set up for themselves and for it:  *)
(* authenticator codes (auth.service.ts, adminAuth.service.ts, otp.util.ts *)
(* and the MFA part of apiKey.service.ts), API keys (apiKey.service.ts) and *)
(* the number of destinations of the FREE plan (destination.service.ts).   *)
(*                                                                         *)
(* A request is a sequence of reads, one verification of a code and one or *)
(* two commits; the steps of different requests interleave.                *)
(***************************************************************************)
EXTENDS Integers, FiniteSets

CONSTANTS
  Users,
  Enrolled,       \* users with a confirmed authenticator at the start
  Keys,           \* identities of API keys
  Requests,       \* requests in progress at the same time
  LIMIT,          \* FREE_PLAN_DESTINATION_LIMIT
  MaxStep,        \* bound on the clock, in steps of 30 seconds
  MaxRequests,    \* bound on the requests ever begun
  MaxFaults,      \* bound on the requests that die half-way
  None

ASSUME SettingsAssumption ==
  /\ Enrolled \subseteq Users
  /\ LIMIT \in Nat \ {0} /\ MaxStep \in Nat \ {0}
  /\ MaxRequests \in Nat /\ MaxFaults \in Nat
  /\ IsFiniteSet(Requests)
  /\ None \notin Users \cup Keys

VARIABLES
  enabled,        \* users.mfa_enabled
  mfa,            \* user_mfa rows; `secret' counts the secrets a user was given
  key,            \* api_keys rows; `hash' counts the secrets of a key
  destinations,   \* destinations of the organization
  req,            \* requests in progress
  now,            \* the time step of the server's clock
  begun, faults,
  uses,           \* history: what each code of a user's secret was accepted for
  proved,         \* history: secrets of which the user has shown a code
  lax,            \* history: users whose codes may be accepted again, see CodeOnce
  crossed,        \* history: users whose MFA was disabled during a setup
  settled         \* history: keys revoked while no rotation of them was under way

vars == <<enabled, mfa, key, destinations, req, now, begun, faults,
          uses, proved, lax, crossed, settled>>
accounts == <<enabled, mfa>>
history == <<uses, proved, lax, crossed, settled>>

NoRow == [status |-> "none", secret |-> 0, last |-> 0]
NoCode == [secret |-> 0, step |-> 0]
Idle == [pc |-> "idle", kind |-> "none", user |-> None, key |-> None, code |-> NoCode]

CodeKinds == {"login", "setup", "complete", "rotate", "revoke"}
Secrets == 0 .. MaxRequests + 1
Steps == 0 .. MaxStep + 1

TypeOK ==
  /\ enabled \in [Users -> BOOLEAN]
  /\ mfa \in [Users -> [status : {"none", "PENDING", "ENABLED"}, secret : Secrets, last : Steps]]
  /\ key \in [Keys -> [status : {"none", "live", "revoked"}, hash : Nat]]
  /\ destinations \in Nat
  /\ req \in [Requests -> [pc : {"idle", "find_key", "code", "commit", "flag", "mfa_create",
                                 "dest_count", "dest_create"},
                           kind : CodeKinds \cup {"none"}, user : Users \cup {None},
                           key : Keys \cup {None}, code : [secret : Secrets, step : Steps]]]
  /\ now \in Steps /\ begun \in Nat /\ faults \in Nat
  /\ uses \in [Users -> [Secrets \X Steps -> Nat]]
  /\ proved \in [Users -> SUBSET Secrets]
  /\ lax \subseteq Users /\ crossed \subseteq Users /\ settled \subseteq Keys

Init ==
  /\ enabled = [u \in Users |-> u \in Enrolled]
  /\ mfa = [u \in Users |-> IF u \in Enrolled
                            THEN [status |-> "ENABLED", secret |-> 1, last |-> 0] ELSE NoRow]
  /\ key = [k \in Keys |-> [status |-> "none", hash |-> 0]]
  /\ destinations = 0
  /\ req = [r \in Requests |-> Idle]
  /\ now = 1 /\ begun = 0 /\ faults = 0
  /\ uses = [u \in Users |-> [c \in Secrets \X Steps |-> 0]]
  /\ proved = [u \in Users |-> IF u \in Enrolled THEN {1} ELSE {}]
  /\ lax = {} /\ crossed = {} /\ settled = {}

-----------------------------------------------------------------------------
CanStart(r) == req[r].pc = "idle" /\ begun < MaxRequests

Begin(r, fields) ==
  /\ begun' = begun + 1
  /\ req' = [req EXCEPT ![r] = fields]

Goto(r, pc) == req' = [req EXCEPT ![r].pc = pc]
Done(r) == req' = [req EXCEPT ![r] = Idle]

(* The process dies, or PostgreSQL stops answering, between two steps. *)
Dies(r) ==
  /\ req[r].pc # "idle" /\ faults < MaxFaults
  /\ faults' = faults + 1
  /\ Done(r)
  /\ UNCHANGED <<accounts, key, destinations, now, begun, history>>

-----------------------------------------------------------------------------
(* Requests with a code: verifyMfaToken of both services ("login"), setupMfa, *)
(* completeMfaSetup, rotateApiKey, revokeApiKey.                              *)
CodeRequests(u) == {r \in Requests : req[r].kind # "none" /\ req[r].user = u}

Checked == {"login", "rotate", "revoke"}   \* verified against lastMfaTimeStep

(* The authenticator of a user shows a code of the secret the user was given  *)
(* last; its clock may be one step off.                                       *)
StartWithCode(r, u, kind, k, step) ==
  /\ enabled[u] \/ kind = "complete"
  /\ mfa[u].secret > 0 /\ step \in {now - 1, now, now + 1} \ {0}
  /\ (k = None) = (kind \notin {"rotate", "revoke"})
  /\ Begin(r, [pc |-> IF k = None THEN "code" ELSE "find_key", kind |-> kind, user |-> u,
               key |-> k, code |-> [secret |-> mfa[u].secret, step |-> step]])
  /\ lax' = IF CodeRequests(u) # {} \/ (kind \notin Checked /\ mfa[u].status = "ENABLED")
            THEN lax \cup {u} ELSE lax
  /\ UNCHANGED <<accounts, key, destinations, now, faults, uses, proved, crossed, settled>>

(* Variant: revoked keys are found too. *)
FindKeyAny(r) ==
  /\ req[r].pc = "find_key"
  /\ \/ key[req[r].key].status # "none" /\ Goto(r, "code")
     \/ key[req[r].key].status = "none" /\ Done(r)
  /\ UNCHANGED <<accounts, key, destinations, now, begun, faults, history>>

FindKey(r) ==
  /\ req[r].pc = "find_key"
  /\ \/ key[req[r].key].status = "live" /\ Goto(r, "code")
     \/ key[req[r].key].status # "live" /\ Done(r)
  /\ UNCHANGED <<accounts, key, destinations, now, begun, faults, history>>

(* verifyMfaOtp: one step either side, later than the last one if it is given. *)
Valid(row, code, checked) ==
  /\ row.status # "none" /\ code.secret = row.secret
  /\ code.step \in {now - 1, now, now + 1}
  /\ checked /\ row.last > 0 => code.step > row.last

VerifyCode(r) ==
  LET u == req[r].user
      ok == Valid(mfa[u], req[r].code, req[r].kind \in Checked)
  IN
  /\ req[r].pc = "code"
  /\ \/ ok /\ Goto(r, "commit")
     \/ ~ok /\ Done(r)
  /\ proved' = IF ok THEN [proved EXCEPT ![u] = @ \cup {req[r].code.secret}] ELSE proved
  /\ UNCHANGED <<accounts, key, destinations, now, begun, faults, uses, lax, crossed, settled>>

(* userMfa.update by user: it fails if the row is gone, and does not notice a new one. *)
HasRow(r) == mfa[req[r].user].status # "none"
AtCommit(r, kind) == req[r].pc = "commit" /\ req[r].kind = kind

(* Variant: the accepted step is not recorded. *)
RecordedForgotten(r) == mfa

Recorded(r) == [mfa EXCEPT ![req[r].user].last = req[r].code.step]

Used(r) ==
  [uses EXCEPT ![req[r].user][<<req[r].code.secret, req[r].code.step>>] = @ + 1]

Aborts(r) ==
  /\ req[r].pc = "commit" /\ ~HasRow(r)
  /\ Done(r)
  /\ UNCHANGED <<accounts, key, destinations, now, begun, faults, history>>

Login(r) ==
  /\ AtCommit(r, "login") /\ HasRow(r)
  /\ mfa' = Recorded(r)
  /\ uses' = Used(r)
  /\ Done(r)
  /\ UNCHANGED <<enabled, key, destinations, now, begun, faults, proved, lax, crossed, settled>>

Setup(r) ==
  /\ AtCommit(r, "setup") /\ HasRow(r)
  /\ mfa' = [Recorded(r) EXCEPT ![req[r].user].status = "ENABLED"]
  /\ Done(r)
  /\ UNCHANGED <<enabled, key, destinations, now, begun, faults, history>>

(* completeMfaSetup updates the two rows one after the other. *)
Complete(r) ==
  /\ AtCommit(r, "complete") /\ HasRow(r)
  /\ mfa' = [Recorded(r) EXCEPT ![req[r].user].status = "ENABLED"]
  /\ Goto(r, "flag")
  /\ UNCHANGED <<enabled, key, destinations, now, begun, faults, history>>

SetFlag(r) ==
  /\ req[r].pc = "flag"
  /\ enabled' = [enabled EXCEPT ![req[r].user] = TRUE]
  /\ Done(r)
  /\ UNCHANGED <<mfa, key, destinations, now, begun, faults, history>>

(* Step and key in one transaction; the key is live again whatever it is now. *)
RotateApiKey(r) ==
  /\ AtCommit(r, "rotate") /\ HasRow(r)
  /\ mfa' = Recorded(r)
  /\ key' = [key EXCEPT ![req[r].key] = [status |-> "live", hash |-> @.hash + 1]]
  /\ uses' = Used(r)
  /\ Done(r)
  /\ UNCHANGED <<enabled, destinations, now, begun, faults, proved, lax, crossed, settled>>

Rotating(k) == {r \in Requests : req[r].key = k /\ req[r].kind = "rotate"
                                 /\ req[r].pc \in {"code", "commit"}}

RevokeApiKey(r) ==
  LET k == req[r].key
  IN
  /\ AtCommit(r, "revoke") /\ HasRow(r)
  /\ mfa' = Recorded(r)
  /\ key' = [key EXCEPT ![k].status = "revoked"]
  /\ uses' = Used(r)
  /\ settled' = IF Rotating(k) = {} THEN settled \cup {k} ELSE settled
  /\ Done(r)
  /\ UNCHANGED <<enabled, destinations, now, begun, faults, proved, lax, crossed>>

CreateApiKey(u, k) ==
  /\ enabled[u] /\ key[k].status = "none" /\ begun < MaxRequests
  /\ key' = [key EXCEPT ![k] = [status |-> "live", hash |-> 1]]
  /\ begun' = begun + 1
  /\ UNCHANGED <<accounts, destinations, req, now, faults, history>>

-----------------------------------------------------------------------------
(* enableMfaForUser: a PENDING row is shown again, and ENABLED is refused.    *)
(* A user is told of the secret of the row, so the model keeps it in the row. *)
StartEnable(r, u) ==
  /\ mfa[u].status = "none"
  /\ Begin(r, [Idle EXCEPT !.pc = "mfa_create", !.user = u])
  /\ UNCHANGED <<accounts, key, destinations, now, faults, history>>

(* The user id is unique. *)
CreateMfa(r) ==
  LET u == req[r].user
  IN
  /\ req[r].pc = "mfa_create"
  /\ mfa' = IF mfa[u].status = "none"
            THEN [mfa EXCEPT ![u] = [status |-> "PENDING", secret |-> @.secret + 1, last |-> 0]]
            ELSE mfa
  /\ Done(r)
  /\ UNCHANGED <<enabled, key, destinations, now, begun, faults, history>>

(* Variant: the row is deleted and the flag forgotten. *)
DisableRowOnly(u) ==
  /\ begun < MaxRequests
  /\ mfa' = [mfa EXCEPT ![u].status = "none", ![u].last = 0]
  /\ crossed' = crossed
  /\ begun' = begun + 1
  /\ UNCHANGED <<enabled, key, destinations, req, now, faults, uses, proved, lax, settled>>

(* disableUserMfa: flag and row in one transaction.  `secret' stays as the     *)
(* number of secrets given so far.                                             *)
DisableUserMfa(u) ==
  /\ begun < MaxRequests
  /\ enabled' = [enabled EXCEPT ![u] = FALSE]
  /\ mfa' = [mfa EXCEPT ![u].status = "none", ![u].last = 0]
  /\ crossed' = IF \E r \in CodeRequests(u) : /\ req[r].kind \in {"setup", "complete"}
                                              /\ req[r].pc \in {"commit", "flag"}
                THEN crossed \cup {u} ELSE crossed
  /\ begun' = begun + 1
  /\ UNCHANGED <<key, destinations, req, now, faults, uses, proved, lax, settled>>

-----------------------------------------------------------------------------
(* createDestination on the FREE plan: count, then create.                    *)
StartDestination(r, u) ==
  /\ Begin(r, [Idle EXCEPT !.pc = "dest_count", !.user = u])
  /\ UNCHANGED <<accounts, key, destinations, now, faults, history>>

(* Variant: one too many. *)
CountDestinationsAtMost(r) ==
  /\ req[r].pc = "dest_count"
  /\ \/ destinations <= LIMIT /\ Goto(r, "dest_create")
     \/ destinations > LIMIT /\ Done(r)
  /\ UNCHANGED <<accounts, key, destinations, now, begun, faults, history>>

CountDestinations(r) ==
  /\ req[r].pc = "dest_count"
  /\ \/ destinations < LIMIT /\ Goto(r, "dest_create")
     \/ destinations >= LIMIT /\ Done(r)
  /\ UNCHANGED <<accounts, key, destinations, now, begun, faults, history>>

CreateDestination(r) ==
  /\ req[r].pc = "dest_create"
  /\ destinations' = destinations + 1
  /\ Done(r)
  /\ UNCHANGED <<accounts, key, now, begun, faults, history>>

DeleteDestination ==
  /\ destinations > 0 /\ begun < MaxRequests
  /\ destinations' = destinations - 1
  /\ begun' = begun + 1
  /\ UNCHANGED <<accounts, key, req, now, faults, history>>

Tick ==
  /\ now < MaxStep
  /\ now' = now + 1
  /\ UNCHANGED <<accounts, key, destinations, req, begun, faults, history>>

-----------------------------------------------------------------------------
Start(r) ==
  \E u \in Users :
    \/ \E kind \in CodeKinds, k \in Keys \cup {None}, step \in Steps :
         StartWithCode(r, u, kind, k, step)
    \/ StartEnable(r, u) \/ StartDestination(r, u)

Step(r) ==
  \/ FindKey(r) \/ VerifyCode(r) \/ Aborts(r)
  \/ Login(r) \/ Setup(r) \/ Complete(r) \/ SetFlag(r) \/ RotateApiKey(r) \/ RevokeApiKey(r)
  \/ CreateMfa(r) \/ CountDestinations(r) \/ CreateDestination(r)
  \/ Dies(r)

Environment ==
  \/ \E u \in Users : DisableUserMfa(u) \/ \E k \in Keys : CreateApiKey(u, k)
  \/ DeleteDestination
  \/ Tick

Next == Environment \/ \E r \in Requests : (CanStart(r) /\ Start(r)) \/ Step(r)

Spec == Init /\ [][Next]_vars

-----------------------------------------------------------------------------
(* Properties.                                                               *)

(* An account marked as using MFA has an authenticator row, so that its       *)
(* requests can succeed: setups, repetitions and deaths never leave the mark  *)
(* alone.  Only a disable that crosses a setup does (completeMfaSetup writes  *)
(* the two rows one after the other).                                         *)
MarkHasRow == \A u \in Users : enabled[u] /\ mfa[u].status = "none" => u \in crossed

(* An ENABLED secret is one of which the user has shown a code, although the  *)
(* row is updated by its user and not by the secret that was verified.        *)
EnabledIsProved ==
  \A u \in Users :
    mfa[u].status = "ENABLED" => mfa[u].secret \in proved[u] \/ u \in crossed

(* The two tables of a user's MFA agree, with each other and with what the    *)
(* user has shown (auth.service.ts, adminAuth.service.ts, apiKey.service.ts). *)
Inv == TypeOK /\ MarkHasRow /\ EnabledIsProved

(* A code is accepted at most once, by sign-ins and key operations together,  *)
(* as long as the user's requests with codes do not overlap, the setup, which *)
(* does not look at lastMfaTimeStep, is not repeated, and no administrator    *)
(* disables MFA in the middle of it.                                          *)
CodeOnce ==
  \A u \in Users \ (lax \cup crossed) : \A c \in Secrets \X Steps : uses[u][c] <= 1

(* A key that was revoked while no rotation of it was under way stays revoked, *)
(* although rotateApiKey writes revokedAt: null (rotateApiKey, revokeApiKey). *)
RevocationIsFinal == \A k \in settled : key[k].status = "revoked"

(* createDestination counts before it creates: the FREE plan has at most as   *)
(* many destinations beyond its limit as other requests overlap.              *)
DestinationsBounded == destinations <= LIMIT + Cardinality(Requests) - 1
=============================================================================
