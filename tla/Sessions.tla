------------------------------- MODULE Sessions -------------------------------
(***************************************************************************)
(* Who a browser is signed in as: the storage its tabs share               *)
(* (lib/storage.ts), the session and the organization each tab remembers   *)
(* (AuthContext.tsx, AdminContext.tsx, TenantContext.tsx), the guards of   *)
(* the routes, and the requests that change them.                          *)
(*                                                                         *)
(* A request carries the token that is stored when it is sent              *)
(* (api/axios.ts), not the token of the tab.  An account has at most one   *)
(* organization, named here by its account.                                *)
(***************************************************************************)
EXTENDS Integers, FiniteSets

CONSTANTS
  Accounts, Tabs,
  Slots,          \* requests in progress at the same time
  MaxBegun,       \* bound on the requests, sign-outs and reloads ever begun
  None

VARIABLES
  area,           \* "app" or "admin": whose sign-in is looked at; it never changes
  stored,         \* browser storage: token, user; and whether the token is unexpired
  tab,            \* what each tab remembers, and the request of its effect
  task,           \* the other requests in progress
  owns,           \* PostgreSQL: accounts that have an organization
  begun,
  crossed,        \* history: tabs under which another answer or tab changed the account
  foreign,        \* history: tabs whose organization was not set for their account
  torn            \* history: a name was saved in a tab whose account is not the stored one

vars == <<area, stored, tab, task, owns, begun, crossed, foreign, torn>>

Signed == Accounts \cup {None}
NoStore == [token |-> None, user |-> None, live |-> FALSE]
NoTask == [kind |-> "none", tab |-> None, account |-> None, stage |-> "idle", got |-> None,
           ours |-> FALSE]
SignedOut == [token |-> None, user |-> None, tenant |-> None, load |-> "none",
              sent |-> None, got |-> None]

(* The requests whose answer sets the tenant of a tab. *)
Settings == {"refresh", "create", "resume", "submit"}

TypeOK ==
  /\ area \in {"app", "admin"}
  /\ stored \in [token : Signed, user : Signed, live : BOOLEAN]
  /\ tab \in [Tabs -> [token : Signed, user : Signed, tenant : Signed,
                       load : {"none", "sent", "read", "refused"}, sent : Signed,
                       got : Signed]]
  /\ task \in [Slots ->
       [kind : {"none", "signin", "save"} \cup Settings, tab : Tabs \cup {None},
        account : Signed, stage : {"idle", "sent", "code", "answered"}, got : Signed,
        ours : BOOLEAN]]
  /\ owns \subseteq Accounts /\ begun \in 0 .. MaxBegun
  /\ crossed \subseteq Tabs /\ foreign \subseteq Tabs /\ torn \in BOOLEAN

(* isAuthenticated *)
Authenticated(s) == s.token # None /\ s.user # None

(* jwtDecode(storedToken).exp: only the dashboard looks at it. *)
Expired == area = "app" /\ ~stored.live

(* A tab as it is opened, with the effect of TenantProvider: it asks for the *)
(* organizations of whoever is stored by then.                               *)
Asking(s) ==
  IF area = "app" /\ Authenticated(s) THEN [s EXCEPT !.load = "sent", !.sent = stored.token]
                                      ELSE s

ReadStored == Authenticated(stored) /\ ~Expired
Opened ==
  IF ReadStored THEN Asking([SignedOut EXCEPT !.token = stored.token, !.user = stored.user])
                ELSE SignedOut

Init ==
  /\ area \in {"app", "admin"}
  /\ stored = NoStore
  /\ tab = [t \in Tabs |-> SignedOut]
  /\ task = [c \in Slots |-> NoTask]
  /\ owns \in SUBSET Accounts
  /\ begun = 0 /\ crossed = {} /\ foreign = {} /\ torn = FALSE

Begins == begun < MaxBegun /\ begun' = begun + 1
Others(t) == {u \in Tabs \ {t} : Authenticated(tab[u])}

-----------------------------------------------------------------------------
(* Tabs *)

(* The page is loaded again; what was stored for longer than the token lives *)
(* is removed, and the requests of the page are forgotten.                   *)
Reload(t) ==
  /\ Begins
  /\ tab' = [tab EXCEPT ![t] = Opened]
  /\ task' = [c \in Slots |-> IF task[c].tab = t THEN NoTask ELSE task[c]]
  /\ IF Authenticated(stored) /\ Expired
     THEN stored' = NoStore /\ crossed' = (crossed \cup Others(t)) \ {t}
     ELSE /\ crossed' = IF stored.user = stored.token THEN crossed \ {t}
                                                       ELSE crossed \cup {t}
          /\ UNCHANGED stored
  /\ foreign' = foreign \ {t}
  /\ UNCHANGED <<area, owns, torn>>

(* Variant: the effect of the provider has no cleanup. *)
LogoutUncancelled(t) ==
  /\ Begins /\ Authenticated(tab[t])
  /\ tab' = [tab EXCEPT ![t].token = None, ![t].user = None, ![t].tenant = None]
  /\ stored' = NoStore
  /\ crossed' = (crossed \cup Others(t)) \ {t} /\ foreign' = foreign \ {t}
  /\ UNCHANGED <<area, task, owns, torn>>

(* logout, with setTenant(null); the cleanup of the effect runs. *)
Logout(t) ==
  /\ Begins /\ Authenticated(tab[t])
  /\ tab' = [tab EXCEPT ![t] = SignedOut]
  /\ stored' = NoStore
  /\ crossed' = (crossed \cup Others(t)) \ {t} /\ foreign' = foreign \ {t}
  /\ UNCHANGED <<area, task, owns, torn>>

(* An hour passes. *)
TokenExpires ==
  /\ stored.live
  /\ stored' = [stored EXCEPT !.live = FALSE]
  /\ UNCHANGED <<area, tab, task, owns, begun, crossed, foreign, torn>>

(* getMyOrganizations on the server, behind authenticate. *)
OrganizationOf(account) == IF account \in owns THEN account ELSE None
LoadReads(t) ==
  /\ tab[t].load = "sent"
  /\ \/ /\ tab[t].sent # None
        /\ tab' = [tab EXCEPT ![t].load = "read", ![t].got = OrganizationOf(tab[t].sent)]
     \/ tab' = [tab EXCEPT ![t].load = "refused"]
  /\ UNCHANGED <<area, stored, task, owns, begun, crossed, foreign, torn>>

LoadAnswers(t) ==
  /\ tab[t].load \in {"read", "refused"}
  /\ tab' = [tab EXCEPT ![t].load = "none", ![t].sent = None, ![t].got = None,
                        ![t].tenant = IF tab[t].load = "read" THEN tab[t].got ELSE None]
  /\ foreign' = foreign \ {t}
  /\ UNCHANGED <<area, stored, task, owns, begun, crossed, torn>>

-----------------------------------------------------------------------------
(* Requests *)

(* A request of tab t for an account, about the organization got; ours says    *)
(* that its answer can only be the organization of that account, or none.      *)
BeganWith(c, kind, t, account, got, ours) ==
  task' = [task EXCEPT ![c] = [kind |-> kind, tab |-> t, account |-> account, stage |-> "sent",
                               got |-> got, ours |-> ours]]
Began(c, kind, t, account) ==
  BeganWith(c, kind, t, account, None, kind \in {"refresh", "create"})
Ended(c) == task' = [task EXCEPT ![c] = NoTask]

(* PublicOnlyRoute shows the form only to a tab that is signed out; a form    *)
(* that is left keeps its request.                                            *)
StartSignIn(c, t, account) ==
  /\ Begins /\ task[c].kind = "none" /\ ~Authenticated(tab[t])
  /\ Began(c, "signin", t, account)
  /\ UNCHANGED <<area, stored, tab, owns, crossed, foreign, torn>>

(* The password; an administrator is asked for a code, and a user with a      *)
(* second factor.                                                             *)
PasswordChecked(c) ==
  /\ task[c].kind = "signin" /\ task[c].stage = "sent"
  /\ \E next \in {"code", "answered"} :
       /\ area = "admin" => next = "code"
       /\ task' = [task EXCEPT ![c].stage = next]
  /\ UNCHANGED <<area, stored, tab, owns, begun, crossed, foreign, torn>>

CodeChecked(c) ==
  /\ task[c].stage = "code"
  /\ task' = [task EXCEPT ![c].stage = "answered"]
  /\ UNCHANGED <<area, stored, tab, owns, begun, crossed, foreign, torn>>

(* Any refusal, or a lost answer: the form says so, nothing else changes. *)
RequestRefused(c) ==
  /\ task[c].stage \in {"sent", "code"}
  /\ Ended(c)
  /\ UNCHANGED <<area, stored, tab, owns, begun, crossed, foreign, torn>>

(* finishSignIn: the session and the storage.  The effect of the provider    *)
(* runs when isAuthenticated changes, not when the account does.             *)
SignedIn(c) ==
  LET t == task[c].tab
      a == task[c].account
      fresh == [SignedOut EXCEPT !.token = a, !.user = a]
  IN /\ task[c].kind = "signin" /\ task[c].stage = "answered"
     /\ Ended(c)
     /\ stored' = [token |-> a, user |-> a, live |-> TRUE]
     /\ IF Authenticated(tab[t])
        THEN /\ tab' = [tab EXCEPT ![t].token = a, ![t].user = a]
             /\ crossed' = crossed \cup Others(t) \cup {t}
        ELSE /\ tab' = [tab EXCEPT ![t] =
                  IF area = "app"
                  THEN [@ EXCEPT !.token = a, !.user = a, !.load = "sent", !.sent = a]
                  ELSE fresh]
             /\ crossed' = crossed \cup Others(t)
     /\ UNCHANGED <<area, owns, begun, foreign, torn>>

(* refresh of the provider. *)
StartRefresh(c, t) ==
  /\ Begins /\ task[c].kind = "none" /\ Authenticated(tab[t]) /\ area = "app"
  /\ Began(c, "refresh", t, stored.token)
  /\ UNCHANGED <<area, stored, tab, owns, crossed, foreign, torn>>

RefreshReads(c) ==
  /\ task[c].kind = "refresh" /\ task[c].stage = "sent" /\ task[c].account # None
  /\ task' = [task EXCEPT ![c].stage = "answered", ![c].got = OrganizationOf(task[c].account)]
  /\ UNCHANGED <<area, stored, tab, owns, begun, crossed, foreign, torn>>

(* The page of a tab without an organization, or still loading: handleCreate,   *)
(* and handleResumeFetch, which asks for any identifier the user types.        *)
StartOnboarding(c, t, kind) ==
  /\ Begins /\ task[c].kind = "none" /\ Authenticated(tab[t]) /\ area = "app"
  /\ tab[t].tenant = None \/ tab[t].load # "none"
  /\ Began(c, kind, t, stored.token)
  /\ UNCHANGED <<area, stored, tab, owns, crossed, foreign, torn>>

(* createOrganization, idempotent for its owner. *)
CreateWrites(c) ==
  /\ task[c].kind = "create" /\ task[c].stage = "sent" /\ task[c].account # None
  /\ owns' = owns \cup {task[c].account}
  /\ task' = [task EXCEPT ![c].stage = "answered", ![c].got = task[c].account]
  /\ UNCHANGED <<area, stored, tab, begun, crossed, foreign, torn>>

(* getOrganizationDetails: whoever is authenticated is answered with whatever  *)
(* organization there is; membership is not looked at.                         *)
ResumeReads(c) ==
  /\ task[c].kind = "resume" /\ task[c].stage = "sent" /\ task[c].account # None
  /\ \E organization \in owns :
       task' = [task EXCEPT ![c].stage = "answered", ![c].got = organization]
  /\ UNCHANGED <<area, stored, tab, owns, begun, crossed, foreign, torn>>

(* The forms of the organization a tab shows: the payment, the details, the    *)
(* settings.  Their handlers set the tenant of their closure.  Without a stored *)
(* token the request is refused, and nothing comes of it.                      *)
StartSubmit(c, t) ==
  /\ Begins /\ task[c].kind = "none" /\ Authenticated(tab[t]) /\ area = "app"
  /\ tab[t].tenant # None /\ stored.token # None
  /\ BeganWith(c, "submit", t, tab[t].user, tab[t].tenant, t \notin crossed \cup foreign)
  /\ UNCHANGED <<area, stored, tab, owns, crossed, foreign, torn>>

(* Accepted: what it writes is the subject of Onboarding. *)
SubmitWrites(c) ==
  /\ task[c].kind = "submit" /\ task[c].stage = "sent"
  /\ task' = [task EXCEPT ![c].stage = "answered"]
  /\ UNCHANGED <<area, stored, tab, owns, begun, crossed, foreign, torn>>

(* setTenant.  Nothing cancels it: it may answer a tab signed out, or in as    *)
(* another.                                                                    *)
TenantSet(c) ==
  LET t == task[c].tab
  IN /\ task[c].kind \in Settings /\ task[c].stage = "answered"
     /\ Ended(c)
     /\ tab' = [tab EXCEPT ![t].tenant = task[c].got]
     /\ foreign' = IF task[c].ours /\ tab[t].user = task[c].account
                   THEN foreign \ {t} ELSE foreign \cup {t}
     /\ UNCHANGED <<area, stored, owns, begun, crossed, torn>>

(* A name saved on the profile page, or the settings of an administrator. *)
StartSave(c, t) ==
  /\ Begins /\ task[c].kind = "none" /\ Authenticated(tab[t])
  /\ Began(c, "save", t, stored.token)
  /\ UNCHANGED <<area, stored, tab, owns, crossed, foreign, torn>>

SaveWrites(c) ==
  /\ task[c].kind = "save" /\ task[c].stage = "sent" /\ task[c].account # None
  /\ task' = [task EXCEPT ![c].stage = "answered"]
  /\ UNCHANGED <<area, stored, tab, owns, begun, crossed, foreign, torn>>

(* updateUser, on the session of the tab as it is now. *)
Saved(c) ==
  LET t == task[c].tab
  IN /\ task[c].kind = "save" /\ task[c].stage = "answered"
     /\ Ended(c)
     /\ stored' = IF tab[t].user = None THEN stored ELSE [stored EXCEPT !.user = tab[t].user]
     /\ torn' = (torn \/ (tab[t].user # None /\ stored.user # tab[t].user))
     /\ UNCHANGED <<area, tab, owns, begun, crossed, foreign>>

Next ==
  \/ \E t \in Tabs : Reload(t) \/ Logout(t) \/ LoadReads(t) \/ LoadAnswers(t)
  \/ TokenExpires
  \/ \E c \in Slots, t \in Tabs :
       \/ StartRefresh(c, t) \/ StartSubmit(c, t) \/ StartSave(c, t)
       \/ \E kind \in {"create", "resume"} : StartOnboarding(c, t, kind)
  \/ \E c \in Slots, t \in Tabs, a \in Accounts : StartSignIn(c, t, a)
  \/ \E c \in Slots :
       PasswordChecked(c) \/ CodeChecked(c) \/ RequestRefused(c) \/ SignedIn(c)
         \/ RefreshReads(c) \/ CreateWrites(c) \/ ResumeReads(c) \/ SubmitWrites(c)
         \/ TenantSet(c) \/ SaveWrites(c) \/ Saved(c)

Spec == Init /\ [][Next]_vars

-----------------------------------------------------------------------------
(* Properties *)

(* Under an account a tab shows that account's organization or none, and none *)
(* when it is signed out, whatever was asked for before a sign-out and        *)
(* answered after the next sign-in; except the tabs that another tab crossed, *)
(* and those that show an organization nobody looked up for their account:    *)
(* handleResumeFetch, or an answer that came for an earlier account.          *)
TenantIsOwn ==
  \A t \in Tabs \ (crossed \cup foreign) : tab[t].tenant \in {None, tab[t].user}

(* A tab that nothing crossed speaks for the account it shows: the stored     *)
(* token, which its requests carry, is its own.                               *)
TokenIsOwn ==
  \A t \in Tabs \ crossed : Authenticated(tab[t]) => stored.token = tab[t].token

(* The stored user and the stored token are of one account, so that a tab     *)
(* opened next shows the account it speaks for.                               *)
StoredIsOne == ~torn => stored.user = stored.token

ShownIsSession == TypeOK /\ TenantIsOwn /\ TokenIsOwn /\ StoredIsOne
=============================================================================
