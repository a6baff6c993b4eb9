------------------------------ MODULE Onboarding ------------------------------
(***************************************************************************)
(* The browser of an owner and the server during onboarding and payment:   *)
(* the tenant a tab remembers (TenantContext.tsx), the guards of its pages, *)
(* the checkout (useRazorpayCheckout.ts) and the requests of               *)
(* org.service.ts they send.                                               *)
(*                                                                         *)
(* One account and one organization; nothing relates two.  What a captured *)
(* payment does to its rows is the subject of Billing; here it is one step.*)
(***************************************************************************)
EXTENDS Integers, FiniteSets

CONSTANTS
  Tabs,
  Slots,          \* requests and checkouts in progress at the same time: 1 .. n
  Orders,         \* orders at Razorpay: 1 .. n
  Plans,          \* the plans that are paid for
  MaxTasks,       \* bound on the requests, checkouts and reloads ever begun
  MaxFaults,
  None

ASSUME OnboardingAssumption ==
  /\ IsFiniteSet(Slots) /\ Slots \subseteq Nat /\ Orders \subseteq Nat \ {0}
  /\ MaxTasks \in Nat /\ MaxFaults \in Nat
  /\ None \notin Tabs

VARIABLES
  steps,          \* Organization.completedSteps, 0 when there is none
  order,          \* status of the payment row of an order, "none" without one
  orderPlan,      \* Payment.planType, None without a row
  paid,           \* orders paid at Razorpay
  tab,            \* what each tab remembers
  task,           \* requests and checkouts in progress
  begun, faults,
  free,           \* history: FREE was chosen
  applied,        \* history: orders whose period was granted
  crossed,        \* history: two requests were creating an order of a plan at the same time
  told            \* history: orders for which a page reported "Payment received"

vars == <<steps, order, orderPlan, paid, tab, task, begun, faults, free, applied, crossed, told>>
server == <<steps, order, orderPlan, paid, free, applied, crossed>>
counters == <<begun, faults>>

Gated == {"details", "organization", "settings"}
Views == {"overview", "create", "pay"} \cup Gated
Steps == 0 .. 3
Idle == [kind |-> "none", tab |-> None, own |-> FALSE, stage |-> "idle",
         read |-> 0, seen |-> 0, plan |-> None, order |-> 0, pending |-> FALSE]

(* A page as it loads: the provider asks for the organizations. *)
Fresh == [view |-> "overview", tenant |-> 0, loading |-> TRUE, load |-> "sent",
          read |-> 0, busy |-> FALSE, submitting |-> FALSE, sdk |-> "none"]

TypeOK ==
  /\ steps \in Steps
  /\ order \in [Orders -> {"none", "CREATED", "FAILED", "CAPTURED"}]
  /\ orderPlan \in [Orders -> Plans \cup {None}]
  /\ paid \subseteq Orders /\ free \in BOOLEAN
  /\ tab \in [Tabs -> [view : Views, tenant : Steps, loading : BOOLEAN,
                       load : {"none", "sent", "read"}, read : Steps,
                       busy : BOOLEAN, submitting : BOOLEAN,
                       sdk : {"none", "loading", "loaded", "failed"}]]
  /\ task \in [Slots ->
       [kind : {"none", "resume", "refresh", "create", "details", "save", "free",
                "pay", "renew"},
        tab : Tabs \cup {None}, own : BOOLEAN,
        stage : {"idle", "sent", "writing", "answered", "creating", "ordered",
                 "sdk", "modal", "verify", "verified", "refused"},
        read : Steps, seen : Steps, plan : Plans \cup {None}, order : Orders \cup {0},
        pending : BOOLEAN]]
  /\ begun \in 0 .. MaxTasks /\ faults \in 0 .. MaxFaults
  /\ crossed \in BOOLEAN /\ applied \subseteq Orders /\ told \subseteq Orders

Init ==
  /\ steps = 0 /\ order = [o \in Orders |-> "none"]
  /\ orderPlan = [o \in Orders |-> None] /\ paid = {}
  /\ tab = [t \in Tabs |-> Fresh]
  /\ task = [c \in Slots |-> Idle]
  /\ begun = 0 /\ faults = 0
  /\ free = FALSE /\ crossed = FALSE /\ applied = {} /\ told = {}

-----------------------------------------------------------------------------
(* Pages. *)

AtLeast(a, b) == IF a >= b THEN a ELSE b

(* Variant: the page of the details is open before a plan is chosen. *)
RouteUnpaid(r) ==
  CASE r.loading -> r.view
    [] ~r.loading /\ r.view = "create" /\ r.tenant > 0 -> "overview"
    [] ~r.loading /\ r.view \in Gated \cup {"pay"} /\ r.tenant = 0 -> "create"
    [] ~r.loading /\ r.view \in Gated \ {"details"} /\ r.tenant = 1 -> "pay"
    [] OTHER -> r.view

(* Where the guards of the pages send a tab that wants to show r.view. *)
Route(r) ==
  CASE r.loading -> r.view
    [] ~r.loading /\ r.view = "create" /\ r.tenant > 0 -> "overview"
    [] ~r.loading /\ r.view \in Gated \cup {"pay"} /\ r.tenant = 0 -> "create"
    [] ~r.loading /\ r.view \in Gated /\ r.tenant = 1 -> "pay"
    [] OTHER -> r.view

(* Tab t becomes r, the tasks ts.  A page that is left takes its hooks along: *)
(* what they started goes on, unnoticed by the next page.                      *)
Show(t, r, ts) ==
  LET moved == Route(r) # tab[t].view
  IN /\ tab' = [tab EXCEPT ![t] =
                  [r EXCEPT !.view = Route(r),
                            !.busy = IF moved THEN FALSE ELSE r.busy,
                            !.submitting = IF moved THEN FALSE ELSE r.submitting]]
     /\ task' = [c \in Slots |->
                   IF moved /\ ts[c].tab = t THEN [ts[c] EXCEPT !.own = FALSE] ELSE ts[c]]

Navigate(t, v) ==
  /\ v # tab[t].view
  /\ Show(t, [tab[t] EXCEPT !.view = v], task)
  /\ UNCHANGED <<server, counters, told>>

(* A reload forgets everything; the server goes on with what it was sent. *)
Reload(t) ==
  /\ begun < MaxTasks
  /\ begun' = begun + 1
  /\ tab' = [tab EXCEPT ![t] = Fresh]
  /\ task' = [c \in Slots |->
                IF task[c].tab # t THEN task[c]
                ELSE IF task[c].stage \in {"sent", "writing", "creating", "verify"}
                THEN [task[c] EXCEPT !.tab = None, !.own = FALSE, !.pending = FALSE]
                ELSE Idle]
  /\ UNCHANGED <<server, faults, told>>

(* The effect of TenantProviderInner. *)
LoadReads(t) ==
  /\ tab[t].load = "sent"
  /\ tab' = [tab EXCEPT ![t].load = "read", ![t].read = steps]
  /\ UNCHANGED <<server, task, counters, told>>

LoadAnswers(t) ==
  /\ tab[t].load = "read"
  /\ Show(t, [tab[t] EXCEPT !.tenant = tab[t].read, !.loading = FALSE, !.load = "none",
                            !.read = 0], task)
  /\ UNCHANGED <<server, counters, told>>

LoadFails(t) ==
  /\ tab[t].load # "none" /\ faults < MaxFaults
  /\ faults' = faults + 1
  /\ Show(t, [tab[t] EXCEPT !.tenant = 0, !.loading = FALSE, !.load = "none",
                            !.read = 0], task)
  /\ UNCHANGED <<server, begun, told>>

-----------------------------------------------------------------------------
(* Requests of forms. *)

FreeSlot(c) == task[c] = Idle /\ \A d \in Slots : d < c => task[d] # Idle

Began(c, t, k, plan) ==
  [task EXCEPT ![c] = [Idle EXCEPT !.kind = k, !.tab = t, !.own = k # "refresh", !.stage = "sent",
                                   !.seen = tab[t].tenant, !.plan = plan, !.pending = TRUE]]

(* useApiCall: the buttons of a form are disabled while its request runs. *)
Submitting(t) == \E c \in Slots : task[c].tab = t /\ task[c].own

StartForm(c, t, k) ==
  /\ begun < MaxTasks /\ FreeSlot(c) /\ ~Submitting(t)
  /\ \/ k = "create" /\ tab[t].view = "create" /\ ~tab[t].loading
     \/ k = "resume" /\ tab[t].view = "create"
     \/ k = "details" /\ tab[t].view = "details" /\ ~tab[t].loading
     \/ k \in {"save", "refresh"} /\ tab[t].view = "settings" /\ ~tab[t].loading
  /\ task' = Began(c, t, k, None)
  /\ begun' = begun + 1
  /\ UNCHANGED <<server, tab, faults, told>>

Served(c, stage) == task' = [task EXCEPT ![c].stage = stage]
ServedWith(c, stage, n) ==
  task' = [task EXCEPT ![c].stage = stage, ![c].read = n]

(* getMyOrganizations of refresh and getOrganization of handleResumeFetch.     *)
ReadOrganization(c) ==
  /\ task[c].kind \in {"resume", "refresh"} /\ task[c].stage = "sent"
  /\ ServedWith(c, "answered", steps)
  /\ UNCHANGED <<server, tab, counters, told>>

(* Variant: what exists is replaced. *)
CreateAgain(c) ==
  /\ task[c].kind = "create" /\ task[c].stage = "sent"
  /\ steps' = 1
  /\ Served(c, "answered")
  /\ UNCHANGED <<order, orderPlan, paid, free, applied, crossed, tab, counters, told>>

(* createOrganization, idempotent for its owner.  Two of them crossing are the *)
(* subject of Membership (OwnedBounded).                                       *)
CreateOrganization(c) ==
  /\ task[c].kind = "create" /\ task[c].stage = "sent"
  /\ steps' = IF steps = 0 THEN 1 ELSE steps
  /\ Served(c, "answered")
  /\ UNCHANGED <<order, orderPlan, paid, free, applied, crossed, tab, counters, told>>

(* submitOrganizationDetails reads the organization, later writes the greater  *)
(* of what it read and 2.                                                      *)
ReadForDetails(c) ==
  /\ task[c].kind \in {"details", "save"} /\ task[c].stage = "sent"
  /\ ServedWith(c, "writing", steps)
  /\ UNCHANGED <<server, tab, counters, told>>

WriteDetails(c) ==
  /\ task[c].stage = "writing"
  /\ steps' = AtLeast(task[c].read, 2)
  /\ Served(c, "answered")
  /\ UNCHANGED <<order, orderPlan, paid, free, applied, crossed, tab, counters, told>>

(* The answer arrives at a tab that still waits for it: the closure of the     *)
(* handler sets the tenant, from the tenant it started with.                   *)
Answered(c) ==
  LET t == task[c].tab
      k == task[c].kind
      n == task[c].read
      ts == [task EXCEPT ![c] = Idle]
      r == tab[t]
  IN /\ task[c].stage = "answered" /\ t # None
     /\ \/ k = "create" /\ Show(t, [r EXCEPT !.tenant = 1], ts)
        \/ k = "refresh" /\ Show(t, [r EXCEPT !.tenant = n], ts)
        \/ k = "resume" /\ n > 0 /\ Show(t, [r EXCEPT !.tenant = n], ts)
        \/ k = "resume" /\ n = 0 /\ Show(t, r, ts)
        \/ k = "details" /\ Show(t, [r EXCEPT !.tenant = AtLeast(task[c].seen, 2),
                                              !.view = "overview"], ts)
        \/ k = "save" /\ Show(t, IF task[c].seen < 2 THEN [r EXCEPT !.tenant = 2] ELSE r, ts)
     /\ UNCHANGED <<server, counters, told>>

(* The connection breaks, or the server answers with an error. *)
RequestFails(c) ==
  /\ task[c].kind \in {"resume", "refresh", "create", "details", "save"}
  /\ faults < MaxFaults
  /\ faults' = faults + 1
  /\ task' = [task EXCEPT ![c] = Idle]
  /\ UNCHANGED <<server, tab, begun, told>>

(* The server has finished for a tab that is gone. *)
Forgotten(c) ==
  /\ task[c].stage \in {"answered", "ordered", "verified", "refused"}
  /\ task[c].tab = None
  /\ task' = [task EXCEPT ![c] = Idle]
  /\ UNCHANGED <<server, tab, counters, told>>

-----------------------------------------------------------------------------
(* The checkout: both pages let the owner choose the plan that is paid for. *)

Checkouts == {"free", "pay", "renew"}

StartCheckout(c, t, k) ==
  /\ begun < MaxTasks /\ FreeSlot(c)
  /\ ~tab[t].loading /\ ~tab[t].busy /\ ~tab[t].submitting
  /\ \/ k \in {"free", "pay"} /\ tab[t].view = "pay"
     \/ k = "renew" /\ tab[t].view = "settings"
  /\ tab' = [tab EXCEPT ![t].busy = TRUE, ![t].submitting = TRUE]
  /\ \E plan \in IF k = "free" THEN {None} ELSE Plans : task' = Began(c, t, k, plan)
  /\ begun' = begun + 1
  /\ UNCHANGED <<server, faults, told>>

(* submitPaymentDetails, FREE: the greatest number of steps there is. *)
ChooseFree(c) ==
  /\ task[c].kind = "free" /\ task[c].stage = "sent"
  /\ steps' = 3 /\ free' = TRUE
  /\ ServedWith(c, "answered", 3)
  /\ UNCHANGED <<order, orderPlan, paid, applied, crossed, tab, counters, told>>

(* Another request is between finding no open order of the plan and adding one. *)
Crossing(c) ==
  \E d \in Slots \ {c} : task[d].stage = "creating" /\ task[d].plan = task[c].plan

(* Variant: open orders are not looked for. *)
FindNoOrder(c) ==
  /\ task[c].kind \in {"pay", "renew"} /\ task[c].stage = "sent"
  /\ Served(c, "creating")
  /\ crossed' = (crossed \/ Crossing(c))
  /\ UNCHANGED <<steps, order, orderPlan, paid, free, applied, tab, counters, told>>

(* The payment rows of a plan that wait for their payment. *)
Waiting(plan) == {o \in Orders : order[o] = "CREATED" /\ orderPlan[o] = plan}

(* createRazorpayOrder: an open order of the same plan is used again.  One of  *)
(* another plan is left open.                                                  *)
FindOrder(c) ==
  /\ task[c].kind \in {"pay", "renew"} /\ task[c].stage = "sent"
  /\ \/ \E o \in Waiting(task[c].plan) :
          /\ task' = [task EXCEPT ![c].stage = "ordered", ![c].order = o]
          /\ UNCHANGED crossed
     \/ /\ Waiting(task[c].plan) = {}
        /\ Served(c, "creating")
        /\ crossed' = (crossed \/ Crossing(c))
  /\ UNCHANGED <<steps, order, orderPlan, paid, free, applied, tab, counters, told>>

NextOrder(o) == order[o] = "none" /\ \A p \in Orders : p < o => order[p] # "none"

CreateOrder(c) ==
  /\ task[c].stage = "creating"
  /\ \E o \in Orders :
       /\ NextOrder(o)
       /\ order' = [order EXCEPT ![o] = "CREATED"]
       /\ orderPlan' = [orderPlan EXCEPT ![o] = task[c].plan]
       /\ task' = [task EXCEPT ![c].stage = "ordered", ![c].order = o]
  /\ UNCHANGED <<steps, paid, free, applied, crossed, tab, counters, told>>

(* createCheckout goes on; loadRazorpaySdk is called once for a tab, and its   *)
(* promise kept, a rejected one too.                                           *)
AwaitSdk(c) ==
  LET t == task[c].tab
  IN /\ task[c].stage = "ordered" /\ t # None
     /\ tab' = [tab EXCEPT ![t].sdk = IF @ = "none" THEN "loading" ELSE @]
     /\ Served(c, "sdk")
     /\ UNCHANGED <<server, counters, told>>

SdkLoads(t) ==
  /\ tab[t].sdk = "loading"
  /\ tab' = [tab EXCEPT ![t].sdk = "loaded"]
  /\ UNCHANGED <<server, task, counters, told>>

SdkFails(t) ==
  /\ tab[t].sdk = "loading" /\ faults < MaxFaults
  /\ faults' = faults + 1
  /\ tab' = [tab EXCEPT ![t].sdk = "failed"]
  /\ UNCHANGED <<server, task, begun, told>>

OpenModal(c) ==
  LET t == task[c].tab
  IN /\ task[c].stage = "sdk" /\ tab[t].sdk = "loaded"
     /\ Served(c, "modal")
     /\ UNCHANGED <<server, tab, counters, told>>

(* The promise is rejected: finally releases the hook that made it.  A slot    *)
(* whose modal is still open, or whose handler still runs, is kept.            *)
Released(c) ==
  LET t == task[c].tab
  IN IF task[c].own THEN [tab EXCEPT ![t].busy = FALSE, ![t].submitting = FALSE] ELSE tab

Rejected(c, kept) ==
  /\ tab' = IF task[c].pending THEN Released(c) ELSE tab
  /\ task' = [task EXCEPT ![c] = IF kept THEN [@ EXCEPT !.pending = FALSE] ELSE Idle]

(* No SDK, no order, no answer, or a payment the server does not confirm.      *)
CheckoutFails(c) ==
  /\ task[c].kind \in Checkouts
  /\ \/ task[c].stage = "sdk" /\ tab[task[c].tab].sdk = "failed" /\ UNCHANGED faults
     \/ task[c].stage = "refused" /\ task[c].tab # None /\ UNCHANGED faults
     \/ /\ task[c].stage \in {"sent", "creating", "ordered", "verify", "answered", "verified"}
        /\ faults < MaxFaults /\ faults' = faults + 1
  /\ Rejected(c, FALSE)
  /\ UNCHANGED <<server, begun, told>>

(* Razorpay's modal, external: closed, a payment that fails, one that succeeds.*)
Dismiss(c) ==
  /\ task[c].stage = "modal"
  /\ Rejected(c, FALSE)
  /\ UNCHANGED <<server, counters, told>>

(* The modal stays and lets the customer try again. *)
PaymentFails(c) ==
  /\ task[c].stage = "modal" /\ task[c].pending
  /\ Rejected(c, TRUE)
  /\ UNCHANGED <<server, counters, told>>

(* The handler asks for the verification, and says so, although the promise    *)
(* may be settled and the page released.                                       *)
Pay(c) ==
  /\ task[c].stage = "modal" /\ task[c].order \notin paid
  /\ paid' = paid \cup {task[c].order}
  /\ tab' = IF task[c].own THEN [tab EXCEPT ![task[c].tab].submitting = TRUE] ELSE tab
  /\ Served(c, "verify")
  /\ UNCHANGED <<steps, order, orderPlan, free, applied, crossed, counters, told>>

(* applyCaptured, of a verification or a webhook. *)
Apply(o) ==
  /\ steps' = 3
  /\ order' = [order EXCEPT ![o] = "CAPTURED"]
  /\ applied' = applied \cup {o}

(* Variant: a payment that is not captured yet passes. *)
VerifyUnapplied(c) ==
  /\ task[c].stage = "verify"
  /\ \/ task[c].order \notin applied /\ Apply(task[c].order) /\ ServedWith(c, "verified", 3)
     \/ /\ ServedWith(c, "verified", steps)
        /\ UNCHANGED <<steps, order, applied>>
     \/ Served(c, "refused") /\ UNCHANGED <<steps, order, applied>>
  /\ UNCHANGED <<orderPlan, paid, free, crossed, tab, counters, told>>

(* verifyRazorpayPayment: applied, found applied, or not confirmed (still in   *)
(* progress, or crossing a webhook that applies it).                           *)
Verify(c) ==
  /\ task[c].stage = "verify"
  /\ \/ task[c].order \notin applied /\ Apply(task[c].order) /\ ServedWith(c, "verified", 3)
     \/ /\ task[c].order \in applied
        /\ ServedWith(c, "verified", steps)
        /\ UNCHANGED <<steps, order, applied>>
     \/ Served(c, "refused") /\ UNCHANGED <<steps, order, applied>>
  /\ UNCHANGED <<orderPlan, paid, free, crossed, tab, counters, told>>

(* The promise is resolved, if nothing has settled it before: the page sets    *)
(* the tenant and goes on to the details, or reports the renewal.              *)
Resolved(c) ==
  LET t == task[c].tab
      k == task[c].kind
      r == [tab[t] EXCEPT !.busy = IF task[c].own THEN FALSE ELSE @,
                          !.submitting = IF task[c].own THEN FALSE ELSE @]
      ts == [task EXCEPT ![c] = Idle]
      admitted == [r EXCEPT !.tenant = AtLeast(task[c].seen, task[c].read),
                            !.view = "details"]
  IN /\ task[c].kind \in Checkouts /\ task[c].stage \in {"answered", "verified"} /\ t # None
     /\ \/ task[c].pending /\ k \in {"free", "pay"} /\ Show(t, admitted, ts)
        \/ task[c].pending /\ k = "renew" /\ Show(t, r, ts)
        \/ ~task[c].pending /\ tab' = tab /\ task' = ts
     /\ told' = IF k = "free" \/ ~task[c].pending THEN told ELSE told \cup {task[c].order}
     /\ UNCHANGED <<server, counters>>

(* handleRazorpayWebhook. *)
Webhook(o) ==
  /\ o \in paid \ applied
  /\ Apply(o)
  /\ UNCHANGED <<orderPlan, paid, free, crossed, tab, task, counters, told>>

(* An earlier payment of the order failed. *)
WebhookFailed(o) ==
  /\ order[o] = "CREATED"
  /\ order' = [order EXCEPT ![o] = "FAILED"]
  /\ UNCHANGED <<steps, orderPlan, paid, free, applied, crossed, tab, task, counters, told>>

-----------------------------------------------------------------------------
Browse(t) ==
  \/ \E v \in Views : Navigate(t, v)
  \/ Reload(t) \/ LoadReads(t) \/ LoadAnswers(t) \/ LoadFails(t)
  \/ SdkLoads(t) \/ SdkFails(t)
  \/ \E c \in Slots :
       \/ \E k \in {"create", "resume", "details", "save", "refresh"} : StartForm(c, t, k)
       \/ \E k \in Checkouts : StartCheckout(c, t, k)

Serve(c) ==
  \/ ReadOrganization(c) \/ CreateOrganization(c)
  \/ ReadForDetails(c) \/ WriteDetails(c)
  \/ ChooseFree(c) \/ FindOrder(c) \/ CreateOrder(c) \/ Verify(c)

Respond(c) ==
  \/ Answered(c) \/ Forgotten(c) \/ AwaitSdk(c) \/ OpenModal(c) \/ Resolved(c)

Next ==
  \/ \E t \in Tabs : Browse(t)
  \/ \E c \in Slots :
       \/ Serve(c) \/ Respond(c) \/ RequestFails(c) \/ CheckoutFails(c)
       \/ Dismiss(c) \/ PaymentFails(c) \/ Pay(c)
  \/ \E o \in Orders : Webhook(o) \/ WebhookFailed(o)

Spec == Init /\ [][Next]_vars

-----------------------------------------------------------------------------
(* Properties.                                                               *)

(* What a tab takes for finished onboarding is finished on the server: late   *)
(* answers, old closures and a stale write of the details never let a tab pass *)
(* the guard of the dashboard (RequireTenant) ahead of the server.             *)
GateIsBacked == \A t \in Tabs : tab[t].tenant >= 2 => steps >= 2

(* Tabs, tasks and rows are well formed, and no tab is ahead of the server    *)
(* (TenantContext.tsx, RequireTenant).                                        *)
Inv == TypeOK /\ GateIsBacked

(* Nobody passes onboarding in the browser without FREE chosen or a payment   *)
(* captured.  The server does not check it (submitOrganizationDetails); the    *)
(* guards of the pages must, for every stale tenant they may hold.             *)
ActivationIsChosen == steps >= 2 => free \/ applied # {}

(* A page reports "Payment received" only for an order whose period the server *)
(* granted (useRazorpayCheckout: resolves only after verification).            *)
ToldIsGranted == told \subseteq applied

(* Two orders of one plan wait for payment only after two requests for it that *)
(* crossed each other: a customer who comes back to a plan pays the order      *)
(* there is (createRazorpayOrder).  Orders of different plans may wait next to *)
(* each other.                                                                 *)
OneOpenOrder == ~crossed => \A plan \in Plans : \A o, p \in Waiting(plan) : o = p
=============================================================================
