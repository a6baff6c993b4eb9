------------------------------- MODULE Billing -------------------------------
(***************************************************************************)
(* Billing of one organization: Razorpay orders, the verification request  *)
(* the browser sends after the checkout, the webhooks Razorpay sends, the  *)
(* thirty-day period a captured payment grants, its lapse, and the billing *)
(* operations of administrators.  Nothing relates two organizations.       *)
(*                                                                         *)
(* The verification requests and the webhook handlers are tasks of the API *)
(* process, one action per await.  applyCaptured's transaction is two      *)
(* steps, because it writes currentPeriodEnd from a plain read it made     *)
(* earlier (READ COMMITTED); in between it holds the lock of its payment   *)
(* row.  Razorpay is external.                                             *)
(***************************************************************************)
EXTENDS Integers, Sequences, FiniteSets

CONSTANTS
  Orders,         \* Razorpay orders, one payment row each
  Pays,           \* payments customers make at Razorpay
  Requests,       \* verification requests, each sent once
  Hooks,          \* webhook handlers that may run at the same time
  Subscribed,     \* payment events Razorpay is told to send
  Plans,          \* paid plans on sale
  PERIOD,         \* thirty days
  FaultKinds, MaxFaults,        \* injected faults and their bound
  AdminOps, MaxExtensions,      \* administrator operations, bound on extensions
  MaxNow,                       \* bound on the clock
  NoPay, NoOrder

AllPlans == {"PRO", "SCALE", "ENTERPRISE"}

ASSUME BillingAssumption ==
  /\ Plans \subseteq AllPlans /\ Plans # {}
  /\ Subscribed \subseteq {"authorized", "captured", "failed"}
  /\ PERIOD \in Nat \ {0}
  /\ FaultKinds \subseteq {"abort", "capture"}
  /\ MaxFaults \in Nat /\ MaxNow \in Nat /\ MaxExtensions \in Nat
  /\ AdminOps \subseteq {"refund", "retry", "extend", "plan", "suspend"}
  /\ NoPay \notin Pays /\ NoOrder \notin Orders
  /\ Requests \cap Hooks = {}

Tasks == Requests \cup Hooks

VARIABLES
  now,        \* the clock, in units of which PERIOD make thirty days
  org,        \* plan, paymentStatus, status and currentPeriodEnd of the organization
  payment,    \* payment rows
  attempts,   \* paymentAttempt rows of each payment row, in order of attemptNumber
  events,     \* razorpayEventId of the paymentEvent rows
  offered,    \* orders whose id a customer has been given
  provider,   \* Razorpay's own record of each payment
  sent,       \* webhook events Razorpay has to deliver
  acked,      \* those some handler has answered with 200
  task,       \* what each request and handler is doing, and what it has read
  admin,      \* an administrator's request that has read its row
  extensions, faults,
  grants      \* history: periods granted for each payment

rows == <<org, payment, attempts, events>>
razorpay == <<provider, sent>>
vars == <<now, org, payment, attempts, events, offered, provider, sent, acked, task,
          admin, extensions, faults, grants>>

(* currentPeriodEnd is null until the first grant. *)
Null == 0

OrgRow == [plan : {"FREE"} \cup AllPlans, paid : {"PENDING", "ACTIVE", "INACTIVE"},
           status : {"PENDING", "ACTIVE", "SUSPENDED"}, end : Nat]

(* "ABSENT": no row yet; "ORDERED": Razorpay has the order, the row is to be *)
(* written.                                                                 *)
PaymentStatus == {"ABSENT", "ORDERED", "CREATED", "FAILED", "CAPTURED", "REFUNDED"}

PaymentRow == [status : PaymentStatus, pay : Pays \cup {NoPay}, plan : AllPlans]

ProviderRecord == [status : {"none", "authorized", "captured", "failed", "refunded"},
                   order : Orders \cup {NoOrder}]

TaskPc == {"new", "idle", "done", "count", "create", "reject", "fetch", "capture",
           "captureFailed", "apply", "commit", "failAttempt", "failPayment", "pending",
           "find", "log", "fail"}

TaskRecord == [pc : TaskPc, o : Orders \cup {NoOrder}, p : Pays \cup {NoPay}, n : Nat,
               valid : BOOLEAN, auto : BOOLEAN, kind : Subscribed \cup {"none"},
               seen : PaymentStatus \cup {"none"}, end : Nat]

AttemptStatus == {"INITIATED", "AUTHORIZED", "CAPTURED", "FAILED"}

HookEvent == [p : Pays, kind : Subscribed]
Verified(p) == [p |-> p, kind |-> "verified"]

IdleTask == [pc |-> "idle", o |-> NoOrder, p |-> NoPay, n |-> 0, valid |-> FALSE,
             auto |-> FALSE, kind |-> "none", seen |-> "none", end |-> Null]
IdleAdmin == [op |-> "idle", o |-> NoOrder, end |-> Null]

TypeOK ==
  /\ now \in Nat \ {0}
  /\ org \in OrgRow
  /\ payment \in [Orders -> PaymentRow]
  /\ attempts \in [Orders -> Seq(AttemptStatus)]
  /\ events \subseteq HookEvent \cup {Verified(p) : p \in Pays}
  /\ offered \subseteq Orders
  /\ provider \in [Pays -> ProviderRecord]
  /\ sent \subseteq HookEvent /\ acked \subseteq sent
  /\ task \in [Tasks -> TaskRecord]
  /\ admin \in [op : {"idle", "refund", "extend"}, o : Orders \cup {NoOrder}, end : Nat]
  /\ extensions \in Nat /\ faults \in Nat
  /\ grants \in [Pays -> Nat]

Init ==
  /\ now = 1
  /\ org = [plan |-> "FREE", paid |-> "PENDING", status |-> "PENDING", end |-> Null]
  /\ payment \in [Orders -> {[status |-> "ABSENT", pay |-> NoPay, plan |-> c] : c \in Plans}]
  /\ attempts = [o \in Orders |-> <<>>]
  /\ events = {} /\ offered = {}
  /\ provider = [p \in Pays |-> [status |-> "none", order |-> NoOrder]]
  /\ sent = {} /\ acked = {}
  /\ task = [t \in Tasks |-> IF t \in Requests THEN [IdleTask EXCEPT !.pc = "new"] ELSE IdleTask]
  /\ admin = IdleAdmin
  /\ extensions = 0 /\ faults = 0
  /\ grants = [p \in Pays |-> 0]

Fault(kind) ==
  /\ kind \in FaultKinds
  /\ faults < MaxFaults
  /\ faults' = faults + 1

(* A transaction of applyCaptured holds its payment row until it ends. *)
Locked(o) == \E t \in Tasks : task[t].pc = "commit" /\ task[t].o = o

-----------------------------------------------------------------------------
(* Choosing a plan. *)

(* Variant: the free plan is marked as paid. *)
ChooseFreeActive ==
  /\ org' = [org EXCEPT !.plan = "FREE", !.paid = "ACTIVE", !.status = "ACTIVE"]
  /\ UNCHANGED <<now, payment, attempts, events, offered, razorpay, acked, task, admin,
                 extensions, faults, grants>>

(* submitPaymentDetails, "FREE". *)
ChooseFree ==
  /\ org' = [org EXCEPT !.plan = "FREE", !.paid = "PENDING", !.status = "ACTIVE"]
  /\ UNCHANGED <<now, payment, attempts, events, offered, razorpay, acked, task, admin,
                 extensions, faults, grants>>

(* createRazorpayOrder: an open order of the plan is offered again; if none  *)
(* is found a new one is asked for, and two requests may both find none.    *)
OrderPlan(o) ==
  /\ payment[o].status = "ABSENT"
  /\ \A q \in Orders : payment[q].status = "CREATED" => payment[q].plan # payment[o].plan
  /\ payment' = [payment EXCEPT ![o].status = "ORDERED"]
  /\ UNCHANGED <<now, org, attempts, events, offered, razorpay, acked, task, admin,
                 extensions, faults, grants>>

SaveOrder(o) ==
  /\ payment[o].status = "ORDERED"
  /\ payment' = [payment EXCEPT ![o].status = "CREATED"]
  /\ offered' = offered \cup {o}
  /\ UNCHANGED <<now, org, attempts, events, razorpay, acked, task, admin, extensions,
                 faults, grants>>

(* Razorpay or the insert fails: a FAILED row is kept, and the customer gets *)
(* no order to pay.                                                         *)
OrderFails(o) ==
  /\ payment[o].status = "ORDERED"
  /\ payment' = [payment EXCEPT ![o].status = "FAILED"]
  /\ UNCHANGED <<now, org, attempts, events, offered, razorpay, acked, task, admin,
                 extensions, faults, grants>>

-----------------------------------------------------------------------------
(* Razorpay.  An order takes any number of failed payments and one that     *)
(* succeeds; each change of a payment is announced by a webhook event.      *)

Announce(p, st) ==
  /\ provider' = [provider EXCEPT ![p].status = st]
  /\ sent' = sent \cup ({[p |-> p, kind |-> st]} \cap HookEvent)

Pay(p, o, st) ==
  /\ o \in offered
  /\ provider[p].status = "none"
  /\ \A q \in Pays : provider[q].order = o => provider[q].status \notin {"authorized", "captured"}
  /\ provider' = [provider EXCEPT ![p] = [status |-> st, order |-> o]]
  /\ sent' = sent \cup ({[p |-> p, kind |-> st]} \cap HookEvent)
  /\ UNCHANGED <<now, rows, offered, acked, task, admin, extensions, faults, grants>>

(* Razorpay captures an authorized payment by itself, or gives it up. *)
Conclude(p, st) ==
  /\ provider[p].status = "authorized"
  /\ Announce(p, st)
  /\ UNCHANGED <<now, rows, offered, acked, task, admin, extensions, faults, grants>>

-----------------------------------------------------------------------------
(* applyCaptured, shared by requests and webhook handlers. *)

Step(t, pc) == task' = [task EXCEPT ![t].pc = pc]

Finish(t) == task' = [task EXCEPT ![t] =
               IF t \in Requests THEN [IdleTask EXCEPT !.pc = "done"] ELSE IdleTask]

Finished(t) == task[t].pc \in {"new", "idle", "done"}

(* A handler that returns answers 200; one that throws is called again.     *)
Answer(t) == acked' = IF t \in Hooks THEN acked \cup {[p |-> task[t].p, kind |-> task[t].kind]}
                                     ELSE acked

(* What an exception of applyCaptured does: in the branch that has captured  *)
(* the payment itself it is caught as a failed capture.                     *)
Throw(t) == IF task[t].auto THEN Step(t, "captureFailed") ELSE Finish(t)

(* Variant: no unique key on razorpayEventId. *)
AlreadyAppliedUnchecked(p) == FALSE

(* The unique key on "verified_<payment id>". *)
AlreadyApplied(p) == Verified(p) \in events

ApplyRead(t) ==
  /\ task[t].pc = "apply"
  /\ ~Locked(task[t].o)
  /\ IF AlreadyApplied(task[t].p)
       THEN Throw(t)
       ELSE task' = [task EXCEPT ![t].pc = "commit", ![t].end = org.end]
  /\ UNCHANGED <<now, rows, offered, razorpay, acked, admin, extensions, faults, grants>>

Later(a, b) == IF a > b THEN a ELSE b

(* Variant: a period is counted from the end of the last one plus today.    *)
ExtendPeriodTwice(from) == Later(from, now) + 2 * PERIOD

ExtendPeriod(from) == Later(from, now) + PERIOD

CaptureAttempts(o) ==
  attempts' = [attempts EXCEPT ![o] =
                 [n \in 1..Len(@) |-> IF @[n] = "INITIATED" THEN "CAPTURED" ELSE @[n]]]

(* The read of the answer after the commit may still fail, and the branch    *)
(* that captured the payment takes that too for a failed capture.           *)
ApplyCommit(t) ==
  LET o == task[t].o
      p == task[t].p
  IN
  /\ task[t].pc = "commit"
  /\ payment' = [payment EXCEPT ![o] = [@ EXCEPT !.status = "CAPTURED", !.pay = p]]
  /\ CaptureAttempts(o)
  /\ events' = events \cup {Verified(p)}
  /\ org' = [plan |-> payment[o].plan, paid |-> "ACTIVE", status |-> "ACTIVE",
             end |-> ExtendPeriod(task[t].end)]
  /\ grants' = [grants EXCEPT ![p] = @ + 1]
  /\ Answer(t)
  /\ \/ Finish(t) /\ UNCHANGED faults
     \/ task[t].auto /\ Fault("abort") /\ Step(t, "captureFailed")
  /\ UNCHANGED <<now, offered, razorpay, admin, extensions>>

(* An await rejects or the process dies: a transaction rolls back, and      *)
(* whatever was written before it stays.                                    *)
Abort(t) ==
  /\ ~Finished(t)
  /\ Fault("abort")
  /\ \/ Finish(t)
     \/ task[t].pc \in {"apply", "commit"} /\ task[t].auto /\ Step(t, "captureFailed")
  /\ UNCHANGED <<now, rows, offered, razorpay, acked, admin, extensions, grants>>

-----------------------------------------------------------------------------
(* verifyRazorpayPayment. *)

(* The checkout hands the browser a signature once a payment is authorized. *)
Signed(p) == provider[p].status \notin {"none"} /\ provider[p].order # NoOrder

VerifyStart(t, o, p, valid) ==
  /\ task[t].pc = "new"
  /\ o \in offered
  /\ valid => Signed(p) /\ provider[p].order = o
  /\ IF payment[o].status = "CAPTURED" /\ payment[o].pay = p
       THEN Finish(t)
       ELSE task' = [task EXCEPT ![t] =
                       [@ EXCEPT !.pc = "count", !.o = o, !.p = p, !.valid = valid]]
  /\ UNCHANGED <<now, rows, offered, razorpay, acked, admin, extensions, faults, grants>>

CountAttempts(t) ==
  /\ task[t].pc = "count"
  /\ task' = [task EXCEPT ![t].pc = "create", ![t].n = Len(attempts[task[t].o]) + 1]
  /\ UNCHANGED <<now, rows, offered, razorpay, acked, admin, extensions, faults, grants>>

(* @@unique([paymentId, attemptNumber]): of two requests that counted the    *)
(* same rows the second one throws.                                         *)
CreateAttempt(t) ==
  LET o == task[t].o
  IN
  /\ task[t].pc = "create"
  /\ IF task[t].n = Len(attempts[o]) + 1
       THEN /\ attempts' = [attempts EXCEPT ![o] = Append(@, "INITIATED")]
            /\ Step(t, IF task[t].valid THEN "fetch" ELSE "reject")
       ELSE /\ Finish(t)
            /\ UNCHANGED attempts
  /\ UNCHANGED <<now, org, payment, events, offered, razorpay, acked, admin, extensions,
                 faults, grants>>

RecordAttempt(t, st) == attempts' = [attempts EXCEPT ![task[t].o][task[t].n] = st]

(* recordAttemptFailure after a bad signature or a failed capture. *)
RejectVerification(t) ==
  /\ task[t].pc \in {"reject", "captureFailed"}
  /\ RecordAttempt(t, "FAILED")
  /\ Finish(t)
  /\ UNCHANGED <<now, org, payment, events, offered, razorpay, acked, admin, extensions,
                 faults, grants>>

(* Variant: an authorization counts as a payment. *)
TakenOrHeld(st) == st \in {"authorized", "captured"}

Taken(st) == st = "captured"

FetchPayment(t) ==
  LET st == provider[task[t].p].status
  IN
  /\ task[t].pc = "fetch"
  /\ \/ Taken(st) /\ Step(t, "apply")
     \/ ~Taken(st) /\ st = "authorized" /\ Step(t, "capture")
     \/ st = "failed" /\ Step(t, "failAttempt")
     \/ st = "refunded" /\ Step(t, "pending")
  /\ UNCHANGED <<now, rows, offered, razorpay, acked, admin, extensions, faults, grants>>

(* payments.capture.  Razorpay refuses unless the payment is still only      *)
(* authorized; an answer that is lost looks like a refusal.                 *)
CapturePayment(t) ==
  LET p == task[t].p
  IN
  /\ task[t].pc = "capture"
  /\ \/ /\ provider[p].status = "authorized"
        /\ Announce(p, "captured")
        /\ \/ /\ task' = [task EXCEPT ![t].pc = "apply", ![t].auto = TRUE]
              /\ UNCHANGED faults
           \/ /\ Fault("capture")
              /\ Step(t, "captureFailed")
     \/ /\ provider[p].status # "authorized"
        /\ Step(t, "captureFailed")
        /\ UNCHANGED <<razorpay, faults>>
  /\ UNCHANGED <<now, rows, offered, acked, admin, extensions, grants>>

FailAttempt(t) ==
  /\ task[t].pc = "failAttempt"
  /\ RecordAttempt(t, "FAILED")
  /\ Step(t, "failPayment")
  /\ UNCHANGED <<now, org, payment, events, offered, razorpay, acked, admin, extensions,
                 faults, grants>>

MarkFailed(t) == payment' = [payment EXCEPT ![task[t].o] =
                               [@ EXCEPT !.status = "FAILED", !.pay = task[t].p]]

(* The row is updated by id, whatever it says by now. *)
FailPayment(t) ==
  /\ task[t].pc = "failPayment"
  /\ ~Locked(task[t].o)
  /\ MarkFailed(t)
  /\ Finish(t)
  /\ UNCHANGED <<now, org, attempts, events, offered, razorpay, acked, admin, extensions,
                 faults, grants>>

StillPending(t) ==
  /\ task[t].pc = "pending"
  /\ RecordAttempt(t, "AUTHORIZED")
  /\ Finish(t)
  /\ UNCHANGED <<now, org, payment, events, offered, razorpay, acked, admin, extensions,
                 faults, grants>>

-----------------------------------------------------------------------------
(* handleRazorpayWebhook. *)

HookStart(t, ev) ==
  /\ task[t].pc = "idle"
  /\ ev \in sent
  /\ IF ev \in events
       THEN acked' = acked \cup {ev} /\ UNCHANGED task
       ELSE /\ task' = [task EXCEPT ![t] =
                          [@ EXCEPT !.pc = "find", !.p = ev.p, !.kind = ev.kind]]
            /\ UNCHANGED acked
  /\ UNCHANGED <<now, rows, offered, razorpay, admin, extensions, faults, grants>>

HookFind(t) ==
  LET o == provider[task[t].p].order
  IN
  /\ task[t].pc = "find"
  /\ task' = [task EXCEPT ![t] = [@ EXCEPT !.pc = "log", !.o = o, !.seen = payment[o].status]]
  /\ UNCHANGED <<now, rows, offered, razorpay, acked, admin, extensions, faults, grants>>

(* Variant: only a payment that is still CREATED is applied. *)
AppliesIfCreated(kind, seen) == kind = "captured" /\ seen = "CREATED"

Applies(kind, seen) == kind = "captured" /\ seen # "CAPTURED"
Fails(kind, seen) == kind = "failed" /\ seen = "CREATED"

(* The event is logged, by its own commit, before it is acted upon. *)
HookLog(t) ==
  LET kind == task[t].kind
      seen == task[t].seen
      ev == [p |-> task[t].p, kind |-> kind]
  IN
  /\ task[t].pc = "log"
  /\ \/ ev \in events /\ Finish(t) /\ UNCHANGED <<events, acked>>
     \/ /\ ev \notin events
        /\ events' = events \cup {ev}
        /\ \/ Applies(kind, seen) /\ Step(t, "apply") /\ UNCHANGED acked
           \/ Fails(kind, seen) /\ Step(t, "fail") /\ UNCHANGED acked
           \/ ~Applies(kind, seen) /\ ~Fails(kind, seen) /\ Answer(t) /\ Finish(t)
  /\ UNCHANGED <<now, org, payment, attempts, offered, razorpay, admin, extensions, faults,
                 grants>>

HookFail(t) ==
  LET o == task[t].o
  IN
  /\ task[t].pc = "fail"
  /\ ~Locked(o)
  /\ MarkFailed(t)
  /\ attempts' = [attempts EXCEPT ![o] =
                    [n \in 1..Len(@) |-> IF @[n] = "INITIATED" THEN "FAILED" ELSE @[n]]]
  /\ Answer(t)
  /\ Finish(t)
  /\ UNCHANGED <<now, org, events, offered, razorpay, admin, extensions, faults, grants>>

-----------------------------------------------------------------------------
(* The billing worker and the clock. *)

Tick ==
  /\ now < MaxNow
  /\ now' = now + 1
  /\ UNCHANGED <<rows, offered, razorpay, acked, task, admin, extensions, faults, grants>>

(* Variant: only PRO lapses. *)
LapsesPro(row) == row.plan = "PRO" /\ row.end # Null /\ row.end < now

Lapses(row) == row.plan \in {"PRO", "SCALE"} /\ row.end # Null /\ row.end < now

RunPlanDowngrades ==
  /\ Lapses(org)
  /\ org' = [org EXCEPT !.plan = "FREE", !.paid = "INACTIVE"]
  /\ UNCHANGED <<now, payment, attempts, events, offered, razorpay, acked, task, admin,
                 extensions, faults, grants>>

-----------------------------------------------------------------------------
(* Administrators. *)

RequestRefund(o) ==
  /\ "refund" \in AdminOps
  /\ admin.op = "idle" /\ payment[o].status = "CAPTURED"
  /\ admin' = [IdleAdmin EXCEPT !.op = "refund", !.o = o]
  /\ UNCHANGED <<now, rows, offered, razorpay, acked, task, extensions, faults, grants>>

RefundPayment ==
  /\ admin.op = "refund" /\ ~Locked(admin.o)
  /\ payment' = [payment EXCEPT ![admin.o].status = "REFUNDED"]
  /\ admin' = IdleAdmin
  /\ UNCHANGED <<now, org, attempts, events, offered, razorpay, acked, task, extensions,
                 faults, grants>>

(* Any row becomes CAPTURED; the organization is left alone. *)
RetryPayment(o) ==
  /\ "retry" \in AdminOps
  /\ payment[o].status \notin {"ABSENT", "ORDERED"} /\ ~Locked(o)
  /\ payment' = [payment EXCEPT ![o].status = "CAPTURED"]
  /\ UNCHANGED <<now, org, attempts, events, offered, razorpay, acked, task, admin,
                 extensions, faults, grants>>

RequestExtension ==
  /\ "extend" \in AdminOps
  /\ admin.op = "idle" /\ extensions < MaxExtensions
  /\ admin' = [IdleAdmin EXCEPT !.op = "extend", !.end = org.end]
  /\ UNCHANGED <<now, rows, offered, razorpay, acked, task, extensions, faults, grants>>

ExtendOrganizationPeriod ==
  /\ admin.op = "extend"
  /\ org' = [org EXCEPT !.end = Later(admin.end, now) + PERIOD]
  /\ extensions' = extensions + 1
  /\ admin' = IdleAdmin
  /\ UNCHANGED <<now, payment, attempts, events, offered, razorpay, acked, task, faults, grants>>

ChangeOrganizationPlan(c) ==
  /\ "plan" \in AdminOps
  /\ org.plan # c
  /\ org' = [org EXCEPT !.plan = c]
  /\ UNCHANGED <<now, payment, attempts, events, offered, razorpay, acked, task, admin,
                 extensions, faults, grants>>

UpdateOrganizationStatus(st) ==
  /\ "suspend" \in AdminOps
  /\ org' = [org EXCEPT !.status = st]
  /\ UNCHANGED <<now, payment, attempts, events, offered, razorpay, acked, task, admin,
                 extensions, faults, grants>>

-----------------------------------------------------------------------------

TaskStep(t) ==
  \/ CountAttempts(t) \/ CreateAttempt(t) \/ RejectVerification(t) \/ FetchPayment(t)
  \/ CapturePayment(t) \/ FailAttempt(t) \/ FailPayment(t) \/ StillPending(t)
  \/ HookFind(t) \/ HookLog(t) \/ HookFail(t)
  \/ ApplyRead(t) \/ ApplyCommit(t)

AdminStep ==
  \/ RefundPayment \/ RequestExtension \/ ExtendOrganizationPeriod
  \/ \E o \in Orders : RequestRefund(o) \/ RetryPayment(o)
  \/ \E c \in {"FREE"} \cup Plans : ChangeOrganizationPlan(c)
  \/ \E st \in {"ACTIVE", "SUSPENDED"} : UpdateOrganizationStatus(st)

Next ==
  \/ Tick \/ RunPlanDowngrades \/ ChooseFree \/ AdminStep
  \/ \E o \in Orders : OrderPlan(o) \/ SaveOrder(o) \/ OrderFails(o)
  \/ \E p \in Pays, o \in Orders, st \in {"authorized", "failed"} : Pay(p, o, st)
  \/ \E p \in Pays, st \in {"captured", "failed", "refunded"} : Conclude(p, st)
  \/ \E t \in Requests, o \in Orders, p \in Pays, valid \in BOOLEAN : VerifyStart(t, o, p, valid)
  \/ \E t \in Hooks, ev \in sent : HookStart(t, ev)
  \/ \E t \in Tasks : TaskStep(t) \/ Abort(t)

Spec == Init /\ [][Next]_vars

(* The API process and the billing worker run, and Razorpay calls again      *)
(* until it is answered; that it is let in however many handlers are busy   *)
(* is strong fairness, Hooks being a bound of the model and not of the code.*)
Fairness ==
  /\ WF_vars(RunPlanDowngrades)
  /\ \A t \in Tasks : WF_vars(TaskStep(t))
  /\ \A ev \in HookEvent : SF_vars(ev \notin acked /\ \E t \in Hooks : HookStart(t, ev))

FairSpec == Spec /\ Fairness

-----------------------------------------------------------------------------
(* Properties. *)

Granted == {p \in Pays : grants[p] > 0}

(* However many requests, webhooks, retries and aborted tasks deal with a    *)
(* payment, it grants at most one period.                                   *)
GrantedOnce == \A p \in Pays : grants[p] <= 1

(* Only money Razorpay has captured grants a period, for the plan ordered.  *)
GrantIsCaptured ==
  \A p \in Granted : provider[p].status = "captured"

(* A row that says CAPTURED names a payment that was applied: half of        *)
(* applyCaptured is never visible.                                          *)
CapturedIsGranted ==
  \A o \in Orders : payment[o].status = "CAPTURED" => payment[o].pay \in Granted

(* requireActivePaidPlan. *)
Entitled ==
  /\ org.plan \in {"PRO", "SCALE"} /\ org.paid = "ACTIVE"
  /\ org.end = Null \/ org.end > now

(* The plan guard lets an organization through only after some payment was   *)
(* captured and while its period runs, although an empty currentPeriodEnd    *)
(* also passes the guard and administrators change plans without a period.  *)
EntitledHasPaid == Entitled => Granted # {} /\ now < org.end

(* The period never runs further than the payments captured and the          *)
(* extensions given: no race hands out a period for nothing.                *)
PeriodIsPaidFor ==
  org.end <= now + PERIOD * (Cardinality(Granted) + extensions)

(* A captured payment is applied in the end, whoever gets to it first: the   *)
(* browser's request, Razorpay's webhook, or both at once.                  *)
PaidIsGranted == \A p \in Pays : provider[p].status = "captured" ~> grants[p] > 0

(* A lapsed plan returns to FREE, unless it is paid for or changed first.    *)
LapsedReturnsToFree ==
  [](org.plan # "FREE" /\ org.end # Null /\ org.end < now
       => <>(org.plan = "FREE" \/ org.end >= now))
=============================================================================
