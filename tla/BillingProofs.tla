---------------------------- MODULE BillingProofs ----------------------------
(***************************************************************************)
(* Machine-checked proofs about Billing, for any number of orders,         *)
(* payments, requests and webhook handlers, and any bounds.                *)
(***************************************************************************)
EXTENDS Billing, FiniteSetTheorems, TLAPS

-----------------------------------------------------------------------------
(* The inductive invariant, in the four parts the actions disturb.           *)

(* The end of the period that the payments captured and the extensions given *)
(* pay for.                                                                  *)
Worth == PERIOD * (Cardinality(Granted) + extensions)
PaidUntil == now + Worth

AtRest == {"new", "idle", "done"}

(* What a task knows when it is about to take its next step. *)
TaskOK(t, x) ==
  /\ t \in Hooks /\ x.pc \notin AtRest => [p |-> x.p, kind |-> x.kind] \in sent
  /\ x.pc \notin AtRest => x.p \in Pays
  /\ x.pc \notin AtRest \cup {"find"} => x.o \in Orders
  /\ x.pc \in {"find", "log"} => /\ x.kind # "none"
                                 /\ provider[x.p].status # "none"
                                 /\ x.kind = "captured" => provider[x.p].status = "captured"
  /\ x.pc \in {"fetch", "capture", "apply", "commit", "log"} => provider[x.p].order = x.o
  /\ x.pc \in {"count", "create"} /\ x.valid => provider[x.p].order = x.o
  /\ x.pc \in {"apply", "commit"} => provider[x.p].status = "captured"
  /\ x.pc = "commit" => Verified(x.p) \notin events /\ x.end <= PaidUntil

(* The lock of the payment row admits one transaction. *)
OneCommit ==
  \A t, u \in Tasks :
    task[t].pc = "commit" /\ task[u].pc = "commit" /\ task[t].o = task[u].o => t = u

TasksOK ==
  /\ task \in [Tasks -> TaskRecord]
  /\ \A t \in Tasks : TaskOK(t, task[t])
  /\ OneCommit

ProviderOK ==
  /\ provider \in [Pays -> ProviderRecord]
  /\ sent \subseteq HookEvent /\ acked \subseteq sent
  /\ \A p \in Pays : provider[p].status = "none" <=> provider[p].order = NoOrder
  /\ \A ev \in sent : /\ provider[ev.p].status # "none"
                      /\ ev.kind = "captured" => provider[ev.p].status = "captured"

RowsOK ==
  /\ payment \in [Orders -> PaymentRow]
  /\ attempts \in [Orders -> Seq(AttemptStatus)]
  /\ events \subseteq HookEvent \cup {Verified(p) : p \in Pays}
  /\ offered \subseteq Orders
  /\ "retry" \notin AdminOps => CapturedIsGranted

MoneyOK ==
  /\ now \in Nat \ {0} /\ org \in OrgRow
  /\ admin \in [op : {"idle", "refund", "extend"}, o : Orders \cup {NoOrder}, end : Nat]
  /\ extensions \in Nat /\ faults \in Nat
  /\ grants \in [Pays -> Nat] /\ IsFiniteSet(Granted)
  /\ org.end <= PaidUntil
  /\ admin.op = "extend" => admin.end <= PaidUntil
  /\ org.paid = "ACTIVE" => Granted # {} /\ org.end > 0

(* A grant is recorded by the event with the unique key, and backed by money. *)
LedgerOK ==
  \A p \in Pays :
    /\ grants[p] = IF Verified(p) \in events THEN 1 ELSE 0
    /\ Verified(p) \in events => provider[p].status = "captured"

Inv == TasksOK /\ ProviderOK /\ RowsOK /\ MoneyOK /\ LedgerOK

-----------------------------------------------------------------------------
(* Updating a task with values of their types gives one again. *)

LEMMA Moved ==
  ASSUME NEW r \in TaskRecord, NEW pc \in TaskPc
  PROVE  /\ [r EXCEPT !.pc = pc] \in TaskRecord
         /\ [r EXCEPT !.pc = pc].pc = pc
         /\ [r EXCEPT !.pc = pc].o = r.o /\ [r EXCEPT !.pc = pc].p = r.p
         /\ [r EXCEPT !.pc = pc].valid = r.valid /\ [r EXCEPT !.pc = pc].kind = r.kind
         /\ [r EXCEPT !.pc = pc].end = r.end
BY Zenon DEF TaskRecord

-----------------------------------------------------------------------------
(* What the other tasks know stays true. *)
Steady == \A t \in Tasks, y \in TaskRecord : TaskOK(t, y) => TaskOK(t, y)'

SameVerified == \A p \in Pays : Verified(p) \in events' <=> Verified(p) \in events

LEMMA TaskChanges ==
  ASSUME TasksOK, NEW t \in Tasks, NEW x \in TaskRecord,
         task' = [task EXCEPT ![t] = x], TaskOK(t, x)',
         x.pc = "commit" => ~Locked(x.o),
         \A u \in Tasks \ {t}, y \in TaskRecord : y = task[u] => TaskOK(u, y)'
  PROVE  TasksOK'
<1>1. task' \in [Tasks -> TaskRecord]
  BY DEF TasksOK
<1>2. \A u \in Tasks : task'[u] = IF u = t THEN x ELSE task[u]
  BY DEF TasksOK
<1>3. ASSUME NEW u \in Tasks PROVE TaskOK(u, task[u])'
  <2>1. PICK y \in TaskRecord : y = task'[u]
    BY <1>1
  <2>2. TaskOK(u, y)'
    BY <1>2, <2>1
  <2> QED BY <2>1, <2>2 DEF TaskOK
<1>4. OneCommit'
  BY <1>2 DEF TasksOK, OneCommit, Locked
<1> QED BY <1>1, <1>3, <1>4 DEF TasksOK

LEMMA TaskMoves ==
  ASSUME TasksOK, Steady, NEW t \in Tasks, NEW x \in TaskRecord,
         task' = [task EXCEPT ![t] = x], TaskOK(t, x)',
         x.pc = "commit" => ~Locked(x.o)
  PROVE  TasksOK'
<1>1. \A u \in Tasks \ {t}, y \in TaskRecord : y = task[u] => TaskOK(u, y)'
  BY DEF TasksOK, Steady
<1> QED BY <1>1, TaskChanges

LEMMA FinishTo ==
  ASSUME NEW t \in Tasks, Finish(t)
  PROVE  \E x \in TaskRecord : task' = [task EXCEPT ![t] = x] /\ x.pc \in {"idle", "done"}
<1>1. IdleTask \in TaskRecord /\ IdleTask.pc = "idle"
  <2>1. "idle" \in TaskPc /\ 0 \in Nat
    BY DEF TaskPc
  <2> QED BY <2>1, Zenon DEF IdleTask, TaskRecord, Null
<1>2. /\ [IdleTask EXCEPT !.pc = "done"] \in TaskRecord
      /\ [IdleTask EXCEPT !.pc = "done"].pc = "done"
  <2>1. "done" \in TaskPc
    BY DEF TaskPc
  <2> QED BY <1>1, <2>1, Moved
<1>3. CASE t \in Requests
  BY <1>2, <1>3 DEF Finish
<1>4. CASE t \notin Requests
  BY <1>1, <1>4 DEF Finish
<1> QED BY <1>3, <1>4

LEMMA TaskFinishes ==
  ASSUME TasksOK, Steady, NEW t \in Tasks, Finish(t)
  PROVE  TasksOK'
<1>1. PICK x \in TaskRecord : task' = [task EXCEPT ![t] = x] /\ x.pc \in {"idle", "done"}
  BY FinishTo
<1>2. TaskOK(t, x)'
  BY <1>1 DEF TaskOK, AtRest
<1> QED BY <1>1, <1>2, TaskMoves

(* A step of a task that keeps what it has read. *)
LEMMA StepTo ==
  ASSUME TasksOK, NEW t \in Tasks, NEW pc \in TaskPc, Step(t, pc)
  PROVE  \E x \in TaskRecord :
           /\ task' = [task EXCEPT ![t] = x] /\ x.pc = pc
           /\ x.o = task[t].o /\ x.p = task[t].p /\ x.valid = task[t].valid
           /\ x.kind = task[t].kind /\ x.end = task[t].end
<1>1. task[t] \in TaskRecord
  BY DEF TasksOK
<1> DEFINE x == [task[t] EXCEPT !.pc = pc]
<1>2. /\ x \in TaskRecord /\ x.pc = pc
      /\ x.o = task[t].o /\ x.p = task[t].p /\ x.valid = task[t].valid
      /\ x.kind = task[t].kind /\ x.end = task[t].end
  BY <1>1, Moved
<1>3. task' = [task EXCEPT ![t] = x]
  BY DEF Step
<1> HIDE DEF x
<1> QED BY <1>2, <1>3

LEMMA TaskSteps ==
  ASSUME TasksOK, Steady, NEW t \in Tasks, task[t].pc \notin AtRest \cup {"find"},
         NEW pc \in {"reject", "captureFailed", "failAttempt", "failPayment", "pending", "fail"},
         Step(t, pc)
  PROVE  TasksOK'
<1>1. pc \in TaskPc
  BY DEF TaskPc
<1>2. PICK x \in TaskRecord :
        /\ task' = [task EXCEPT ![t] = x] /\ x.pc = pc
        /\ x.o = task[t].o /\ x.p = task[t].p /\ x.valid = task[t].valid
        /\ x.kind = task[t].kind /\ x.end = task[t].end
  BY <1>1, StepTo
<1>3. PICK y \in TaskRecord : y = task[t]
  BY DEF TasksOK
<1>4. TaskOK(t, y) /\ TaskOK(t, y)'
  BY <1>3 DEF TasksOK, Steady
<1>5. TaskOK(t, x)'
  BY <1>2, <1>3, <1>4 DEF TaskOK, AtRest
<1> QED BY <1>2, <1>5, TaskMoves

(* A step of a request or handler that changes rows and tasks only. *)
LEMMA QuietStep ==
  ASSUME Inv, UNCHANGED <<now, org, provider, sent, admin, extensions, grants>>,
         SameVerified, acked' \subseteq sent, faults' \in Nat
  PROVE  Steady /\ ProviderOK' /\ MoneyOK' /\ LedgerOK'
<1>1. Granted' = Granted /\ PaidUntil' = PaidUntil
  BY DEF Granted, PaidUntil, Worth
<1>2. Steady
  BY <1>1 DEF Steady, TaskOK, SameVerified, AtRest
<1>3. ProviderOK'
  BY DEF Inv, ProviderOK
<1>4. MoneyOK'
  BY <1>1 DEF Inv, MoneyOK
<1>5. LedgerOK'
  BY DEF Inv, LedgerOK, SameVerified
<1> QED BY <1>2, <1>3, <1>4, <1>5

LEMMA AnswerSent ==
  ASSUME Inv, NEW t \in Tasks, task[t].pc \notin AtRest, Answer(t)
  PROVE  acked' \subseteq sent
BY DEF Inv, TasksOK, TaskOK, ProviderOK, Answer

LEMMA EventsSame ==
  ASSUME events' = events \/ \E ev \in HookEvent : events' = events \cup {ev}
  PROVE  SameVerified
<1>1. ASSUME NEW ev \in HookEvent, NEW p \in Pays PROVE ev # Verified(p)
  BY BillingAssumption DEF HookEvent, Verified
<1> QED BY <1>1 DEF SameVerified

LEMMA RowsSame ==
  ASSUME Inv, UNCHANGED <<payment, attempts, events, offered, grants>>
  PROVE  RowsOK'
BY DEF Inv, RowsOK, CapturedIsGranted, Granted

LEMMA PaymentUpdates ==
  ASSUME NEW r \in PaymentRow, NEW st \in PaymentStatus, NEW p \in Pays \cup {NoPay}
  PROVE  /\ [r EXCEPT !.status = st] \in PaymentRow
         /\ [r EXCEPT !.status = st, !.pay = p] \in PaymentRow
BY Zenon DEF PaymentRow

LEMMA PaymentStatusSet ==
  ASSUME NEW r \in PaymentRow, NEW st \in PaymentStatus, NEW p
  PROVE  [r EXCEPT !.status = st, !.pay = p].status = st
BY Zenon DEF PaymentRow

LEMMA AttemptUpdates ==
  ASSUME NEW s \in Seq(AttemptStatus), NEW st \in AttemptStatus, NEW n
  PROVE  /\ [s EXCEPT ![n] = st] \in Seq(AttemptStatus)
         /\ Append(s, st) \in Seq(AttemptStatus)
         /\ [i \in 1..Len(s) |-> IF s[i] = "INITIATED" THEN st ELSE s[i]] \in Seq(AttemptStatus)
<1>1. Len(s) \in Nat /\ s \in [1..Len(s) -> AttemptStatus]
  OBVIOUS
<1>2. \A f : f \in [1..Len(s) -> AttemptStatus] => f \in Seq(AttemptStatus)
  BY <1>1
<1>3. [s EXCEPT ![n] = st] \in [1..Len(s) -> AttemptStatus]
  BY <1>1, Zenon
<1>4. [i \in 1..Len(s) |-> IF s[i] = "INITIATED" THEN st ELSE s[i]]
        \in [1..Len(s) -> AttemptStatus]
  BY <1>1
<1> QED BY <1>2, <1>3, <1>4

(* The row of one order, or its attempts, change; nothing becomes CAPTURED. *)
LEMMA PaymentChanges ==
  ASSUME Inv, NEW o, NEW st \in PaymentStatus \ {"CAPTURED"}, NEW p \in Pays \cup {NoPay},
         \/ payment' = [payment EXCEPT ![o].status = st]
         \/ payment' = [payment EXCEPT ![o] = [@ EXCEPT !.status = st, !.pay = p]],
         attempts' \in [Orders -> Seq(AttemptStatus)], offered' \subseteq Orders,
         UNCHANGED <<events, grants>>
  PROVE  RowsOK'
<1>1. payment \in [Orders -> PaymentRow]
  BY DEF Inv, RowsOK
<1>2. PICK x : /\ payment' = [payment EXCEPT ![o] = x]
               /\ o \in Orders => x \in PaymentRow /\ x.status = st
  <2>1. CASE payment' = [payment EXCEPT ![o].status = st]
    <3> DEFINE x == [payment[o] EXCEPT !.status = st]
    <3>1. payment' = [payment EXCEPT ![o] = x]
      BY <2>1
    <3>2. ASSUME o \in Orders PROVE x \in PaymentRow /\ x.status = st
      <4>1. payment[o] \in PaymentRow /\ st \in PaymentStatus
        BY <1>1, <3>2
      <4>2. x \in PaymentRow
        BY <4>1, PaymentUpdates, Zenon
      <4>3. x.status = st
        BY <4>1, PaymentStatusSet
      <4> QED BY <4>2, <4>3
    <3> HIDE DEF x
    <3> QED BY <3>1, <3>2
  <2>2. CASE payment' = [payment EXCEPT ![o] = [@ EXCEPT !.status = st, !.pay = p]]
    <3> DEFINE x == [payment[o] EXCEPT !.status = st, !.pay = p]
    <3>1. payment' = [payment EXCEPT ![o] = x]
      BY <2>2
    <3>2. ASSUME o \in Orders PROVE x \in PaymentRow /\ x.status = st
      <4>1. payment[o] \in PaymentRow /\ st \in PaymentStatus
        BY <1>1, <3>2
      <4>2. x \in PaymentRow
        BY <4>1, PaymentUpdates, Zenon
      <4>3. x.status = st
        BY <4>1, Zenon DEF PaymentRow
      <4> QED BY <4>2, <4>3
    <3> HIDE DEF x
    <3> QED BY <3>1, <3>2
  <2> QED BY <2>1, <2>2
<1>3. /\ payment' \in [Orders -> PaymentRow]
      /\ \A q \in Orders : payment'[q].status = "CAPTURED" => payment'[q] = payment[q]
  BY <1>1, <1>2
<1>4. Granted' = Granted
  BY DEF Granted
<1>5. "retry" \notin AdminOps => CapturedIsGranted'
  BY <1>3, <1>4 DEF Inv, RowsOK, CapturedIsGranted
<1> QED BY <1>3, <1>5 DEF Inv, RowsOK

LEMMA AttemptsChange ==
  ASSUME Inv, attempts' \in [Orders -> Seq(AttemptStatus)],
         UNCHANGED <<payment, events, offered, grants>>
  PROVE  RowsOK'
BY DEF Inv, RowsOK, CapturedIsGranted, Granted

LEMMA AttemptRecorded ==
  ASSUME Inv, NEW t \in Tasks, NEW st \in AttemptStatus, RecordAttempt(t, st)
  PROVE  attempts' \in [Orders -> Seq(AttemptStatus)]
<1>1. attempts \in [Orders -> Seq(AttemptStatus)]
  BY DEF Inv, RowsOK
<1>2. PICK o, n : attempts' = [attempts EXCEPT ![o][n] = st]
  BY DEF RecordAttempt
<1>3. ASSUME NEW q \in Orders PROVE attempts'[q] \in Seq(AttemptStatus)
  BY <1>1, <1>2, AttemptUpdates
<1> QED BY <1>1, <1>2, <1>3

LEMMA AttemptsSettled ==
  ASSUME Inv, NEW o, NEW st \in AttemptStatus,
         attempts' = [attempts EXCEPT ![o] =
                        [n \in 1..Len(@) |-> IF @[n] = "INITIATED" THEN st ELSE @[n]]]
  PROVE  attempts' \in [Orders -> Seq(AttemptStatus)]
<1>1. attempts \in [Orders -> Seq(AttemptStatus)]
  BY DEF Inv, RowsOK
<1> DEFINE s == [n \in 1..Len(attempts[o]) |->
                   IF attempts[o][n] = "INITIATED" THEN st ELSE attempts[o][n]]
<1>2. attempts' = [attempts EXCEPT ![o] = s]
  OBVIOUS
<1>3. o \in Orders => s \in Seq(AttemptStatus)
  BY <1>1, AttemptUpdates
<1> HIDE DEF s
<1> QED BY <1>1, <1>2, <1>3

-----------------------------------------------------------------------------
(* The steps of requests and handlers. *)

LEMMA CountKeeps == ASSUME Inv, NEW t \in Tasks, CountAttempts(t) PROVE Inv'
<1>1. UNCHANGED <<now, rows, offered, razorpay, acked, admin, extensions, faults, grants>>
  BY DEF CountAttempts
<1>2. Steady /\ ProviderOK' /\ MoneyOK' /\ LedgerOK'
  BY <1>1, QuietStep DEF rows, razorpay, SameVerified, Inv, ProviderOK, MoneyOK
<1>3. RowsOK'
  BY <1>1, RowsSame DEF rows
<1>4. PICK r \in TaskRecord : r = task[t]
  BY DEF Inv, TasksOK
<1>5. PICK k \in Nat : task' = [task EXCEPT ![t] = [r EXCEPT !.pc = "create", !.n = k]]
  <2>1. r.o \in Orders
    BY <1>4 DEF Inv, TasksOK, TaskOK, CountAttempts, AtRest
  <2>2. Len(attempts[r.o]) + 1 \in Nat
    BY <2>1 DEF Inv, RowsOK
  <2> QED BY <1>4, <2>2 DEF CountAttempts
<1> DEFINE x == [r EXCEPT !.pc = "create", !.n = k]
<1>6. x \in TaskRecord
  <2>1. "create" \in TaskPc
    BY DEF TaskPc
  <2> QED BY <2>1, Zenon DEF TaskRecord
<1>7. x.pc = "create" /\ x.o = r.o /\ x.p = r.p /\ x.valid = r.valid /\ x.kind = r.kind
  BY Zenon DEF TaskRecord
<1>8. TaskOK(t, r)'
  BY <1>2, <1>4 DEF Steady, Inv, TasksOK
<1>9. r.pc = "count"
  BY <1>4 DEF CountAttempts
<1>10. task' = [task EXCEPT ![t] = x]
  BY <1>5
<1> HIDE DEF x
<1>11. TaskOK(t, x)'
  BY <1>7, <1>8, <1>9 DEF TaskOK, AtRest
<1>12. TasksOK'
  BY <1>2, <1>6, <1>7, <1>10, <1>11, TaskMoves DEF Inv
<1> QED BY <1>2, <1>3, <1>12 DEF Inv

LEMMA CreateKeeps == ASSUME Inv, NEW t \in Tasks, CreateAttempt(t) PROVE Inv'
<1>1. UNCHANGED <<now, org, payment, events, offered, razorpay, acked, admin, extensions,
                  faults, grants>>
  BY DEF CreateAttempt
<1>2. Steady /\ ProviderOK' /\ MoneyOK' /\ LedgerOK'
  BY <1>1, QuietStep DEF razorpay, SameVerified, Inv, ProviderOK, MoneyOK
<1>3. attempts' \in [Orders -> Seq(AttemptStatus)]
  <2>1. attempts \in [Orders -> Seq(AttemptStatus)] /\ "INITIATED" \in AttemptStatus
    BY DEF Inv, RowsOK, AttemptStatus
  <2>2. CASE attempts' = attempts
    BY <2>1, <2>2
  <2>3. ASSUME NEW o, attempts' = [attempts EXCEPT ![o] = Append(@, "INITIATED")]
        PROVE  attempts' \in [Orders -> Seq(AttemptStatus)]
    <3> DEFINE s == Append(attempts[o], "INITIATED")
    <3>1. attempts' = [attempts EXCEPT ![o] = s]
      BY <2>3
    <3>2. o \in Orders => s \in Seq(AttemptStatus)
      BY <2>1, AttemptUpdates
    <3> HIDE DEF s
    <3> QED BY <2>1, <3>1, <3>2
  <2> QED BY <2>2, <2>3 DEF CreateAttempt
<1>4. RowsOK'
  BY <1>1, <1>3, AttemptsChange
<1>5. TasksOK'
  <2>1. CASE Finish(t)
    BY <1>2, <2>1, TaskFinishes DEF Inv
  <2>2. CASE ~task[t].valid /\ Step(t, "reject")
    BY <1>2, <2>2, TaskSteps DEF Inv, CreateAttempt, AtRest
  <2>3. CASE task[t].valid /\ Step(t, "fetch")
    <3>1. PICK x \in TaskRecord :
            /\ task' = [task EXCEPT ![t] = x] /\ x.pc = "fetch"
            /\ x.o = task[t].o /\ x.p = task[t].p /\ x.valid = task[t].valid
            /\ x.kind = task[t].kind /\ x.end = task[t].end
      <4>1. "fetch" \in TaskPc /\ TasksOK
        BY DEF TaskPc, Inv
      <4> QED BY <2>3, <4>1, StepTo
    <3>2. PICK y \in TaskRecord : y = task[t]
      BY DEF Inv, TasksOK
    <3>3. TaskOK(t, y)'
      BY <1>2, <3>2 DEF Steady, Inv, TasksOK
    <3>4. TaskOK(t, x)'
      BY <2>3, <3>1, <3>2, <3>3 DEF TaskOK, AtRest, CreateAttempt
    <3> QED BY <1>2, <3>1, <3>4, TaskMoves DEF Inv
  <2> QED BY <2>1, <2>2, <2>3 DEF CreateAttempt
<1> QED BY <1>2, <1>4, <1>5 DEF Inv

LEMMA RejectKeeps ==
  ASSUME Inv, NEW t \in Tasks, RejectVerification(t) \/ StillPending(t)
  PROVE  Inv'
<1>1. /\ UNCHANGED <<now, org, payment, events, offered, razorpay, acked, admin, extensions,
                     faults, grants>>
      /\ Finish(t)
      /\ \E st \in AttemptStatus : RecordAttempt(t, st)
  BY DEF RejectVerification, StillPending, AttemptStatus
<1>2. Steady /\ ProviderOK' /\ MoneyOK' /\ LedgerOK'
  BY <1>1, QuietStep DEF razorpay, SameVerified, Inv, ProviderOK, MoneyOK
<1>3. RowsOK'
  BY <1>1, AttemptRecorded, AttemptsChange
<1>4. TasksOK'
  BY <1>1, <1>2, TaskFinishes DEF Inv
<1> QED BY <1>2, <1>3, <1>4 DEF Inv

LEMMA FailAttemptKeeps == ASSUME Inv, NEW t \in Tasks, FailAttempt(t) PROVE Inv'
<1>1. UNCHANGED <<now, org, payment, events, offered, razorpay, acked, admin, extensions,
                  faults, grants>>
  BY DEF FailAttempt
<1>2. Steady /\ ProviderOK' /\ MoneyOK' /\ LedgerOK'
  BY <1>1, QuietStep DEF razorpay, SameVerified, Inv, ProviderOK, MoneyOK
<1>3. RowsOK'
  BY <1>1, AttemptRecorded, AttemptsChange DEF FailAttempt, AttemptStatus
<1>4. TasksOK'
  BY <1>2, TaskSteps DEF Inv, FailAttempt, AtRest
<1> QED BY <1>2, <1>3, <1>4 DEF Inv

LEMMA FailPaymentKeeps ==
  ASSUME Inv, NEW t \in Tasks, FailPayment(t) \/ HookFail(t)
  PROVE  Inv'
<1>1. UNCHANGED <<now, org, events, offered, razorpay, admin, extensions, faults, grants>>
  BY DEF FailPayment, HookFail
<1>2. acked' \subseteq sent
  BY AnswerSent DEF FailPayment, HookFail, Inv, ProviderOK, AtRest
<1>3. Steady /\ ProviderOK' /\ MoneyOK' /\ LedgerOK'
  BY <1>1, <1>2, QuietStep DEF razorpay, SameVerified, Inv, MoneyOK
<1>4. attempts' \in [Orders -> Seq(AttemptStatus)]
  <2>1. CASE FailPayment(t)
    BY <2>1 DEF FailPayment, Inv, RowsOK
  <2>2. CASE HookFail(t)
    BY <2>2, AttemptsSettled DEF HookFail, AttemptStatus
  <2> QED BY <2>1, <2>2
<1>5. PICK o : payment' = [payment EXCEPT ![o] = [@ EXCEPT !.status = "FAILED", !.pay = task[t].p]]
  BY DEF FailPayment, HookFail, MarkFailed
<1>6. PICK p \in Pays \cup {NoPay} : p = task[t].p
  BY DEF Inv, TasksOK, TaskRecord
<1>7. offered' \subseteq Orders /\ UNCHANGED <<events, grants>>
  BY <1>1 DEF Inv, RowsOK
<1>8. RowsOK'
  BY <1>4, <1>5, <1>6, <1>7, PaymentChanges DEF PaymentStatus
<1>9. TasksOK'
  BY <1>3, TaskFinishes DEF Inv, FailPayment, HookFail
<1> QED BY <1>3, <1>8, <1>9 DEF Inv

(* A step along the way to a captured payment. *)
LEMMA StepsOn ==
  ASSUME TasksOK, Steady, NEW t \in Tasks, task[t].pc \in {"fetch", "log", "capture"},
         NEW pc \in {"capture", "apply"}, Step(t, pc), UNCHANGED provider,
         pc = "apply" => provider[task[t].p].status = "captured"
  PROVE  TasksOK'
<1>1. PICK x \in TaskRecord :
        /\ task' = [task EXCEPT ![t] = x] /\ x.pc = pc
        /\ x.o = task[t].o /\ x.p = task[t].p /\ x.valid = task[t].valid
        /\ x.kind = task[t].kind /\ x.end = task[t].end
  BY StepTo DEF TaskPc
<1>2. PICK y \in TaskRecord : y = task[t]
  BY DEF TasksOK
<1>3. TaskOK(t, y)'
  BY <1>2 DEF TasksOK, Steady
<1>4. TaskOK(t, x)'
  BY <1>1, <1>2, <1>3 DEF TaskOK, AtRest
<1> QED BY <1>1, <1>4, TaskMoves

LEMMA FetchKeeps == ASSUME Inv, NEW t \in Tasks, FetchPayment(t) PROVE Inv'
<1>1. UNCHANGED <<now, rows, offered, razorpay, acked, admin, extensions, faults, grants>>
  BY DEF FetchPayment
<1>2. Steady /\ ProviderOK' /\ MoneyOK' /\ LedgerOK'
  BY <1>1, QuietStep DEF rows, razorpay, SameVerified, Inv, ProviderOK, MoneyOK
<1>3. RowsOK'
  BY <1>1, RowsSame DEF rows
<1>4. task[t].pc = "fetch" /\ UNCHANGED provider
  BY <1>1 DEF FetchPayment, razorpay
<1>5. TasksOK'
  <2>1. CASE provider[task[t].p].status = "captured" /\ Step(t, "apply")
    BY <1>2, <1>4, <2>1, StepsOn DEF Inv
  <2>2. CASE Step(t, "capture")
    BY <1>2, <1>4, <2>2, StepsOn DEF Inv
  <2>3. CASE Step(t, "failAttempt") \/ Step(t, "pending")
    BY <1>2, <1>4, <2>3, TaskSteps DEF Inv, AtRest
  <2> QED BY <2>1, <2>2, <2>3 DEF FetchPayment, Taken
<1> QED BY <1>2, <1>3, <1>5 DEF Inv

(* Razorpay moves a payment on; one that is captured stays so. *)
LEMMA ProviderMoves ==
  ASSUME Inv, NEW p \in Pays, NEW r \in ProviderRecord,
         provider' = [provider EXCEPT ![p] = r],
         r.status # "none", r.order \in Orders, provider[p].status # "captured",
         provider[p].order \in {NoOrder, r.order},
         sent' = sent \cup ({[p |-> p, kind |-> r.status]} \cap HookEvent),
         UNCHANGED <<now, org, events, acked, admin, extensions, grants>>, faults' \in Nat
  PROVE  Steady /\ ProviderOK' /\ MoneyOK' /\ LedgerOK'
<1>1. Granted' = Granted /\ PaidUntil' = PaidUntil
  BY DEF Granted, PaidUntil, Worth
<1>2. /\ provider \in [Pays -> ProviderRecord]
      /\ \A q \in Pays : provider'[q] = IF q = p THEN r ELSE provider[q]
  BY DEF Inv, ProviderOK
<1>3. ASSUME NEW t \in Tasks, NEW y \in TaskRecord, TaskOK(t, y) PROVE TaskOK(t, y)'
  <2>1. sent \subseteq sent' /\ NoOrder \notin Orders
    BY BillingAssumption
  <2> QED BY <1>1, <1>2, <1>3, <2>1 DEF TaskOK, AtRest
<1>4. ProviderOK'
  <2>1. provider' \in [Pays -> ProviderRecord] /\ sent' \subseteq HookEvent /\ acked' \subseteq sent'
    BY <1>2 DEF Inv, ProviderOK
  <2>2. \A q \in Pays : provider'[q].status = "none" <=> provider'[q].order = NoOrder
    BY <1>2, BillingAssumption DEF Inv, ProviderOK
  <2>3. ASSUME NEW ev \in sent'
        PROVE  /\ provider'[ev.p].status # "none"
               /\ ev.kind = "captured" => provider'[ev.p].status = "captured"
    <3>1. CASE ev \in sent
      <4>1. ev.p \in Pays
        BY <3>1 DEF Inv, ProviderOK, HookEvent
      <4> QED BY <1>2, <3>1, <4>1 DEF Inv, ProviderOK
    <3>2. CASE ev = [p |-> p, kind |-> r.status]
      BY <1>2, <3>2
    <3> QED BY <3>1, <3>2
  <2> QED BY <2>1, <2>2, <2>3 DEF ProviderOK
<1>5. MoneyOK'
  BY <1>1 DEF Inv, MoneyOK
<1>6. LedgerOK'
  BY <1>2 DEF Inv, LedgerOK
<1> QED BY <1>3, <1>4, <1>5, <1>6 DEF Steady

LEMMA Announced ==
  ASSUME Inv, NEW p \in Pays, NEW st \in {"captured", "failed", "refunded"},
         provider[p].status = "authorized", Announce(p, st)
  PROVE  \E r \in ProviderRecord :
           /\ provider' = [provider EXCEPT ![p] = r] /\ r.status = st
           /\ r.order \in Orders /\ provider[p].order \in {NoOrder, r.order}
           /\ sent' = sent \cup ({[p |-> p, kind |-> r.status]} \cap HookEvent)
<1> DEFINE r == [provider[p] EXCEPT !.status = st]
<1>1. provider[p] \in ProviderRecord
  BY DEF Inv, ProviderOK
<1>2. r \in ProviderRecord /\ r.status = st /\ r.order = provider[p].order
  BY <1>1 DEF ProviderRecord
<1>3. provider[p].order \in Orders
  BY <1>1 DEF Inv, ProviderOK, ProviderRecord
<1>4. provider' = [provider EXCEPT ![p] = r]
  BY DEF Announce
<1> HIDE DEF r
<1> QED BY <1>2, <1>3, <1>4 DEF Announce

LEMMA CaptureKeeps == ASSUME Inv, NEW t \in Tasks, CapturePayment(t) PROVE Inv'
<1>1. UNCHANGED <<now, rows, offered, acked, admin, extensions, grants>>
  BY DEF CapturePayment
<1>2. RowsOK'
  BY <1>1, RowsSame DEF rows
<1>3. faults' \in Nat
  BY DEF CapturePayment, Fault, Inv, MoneyOK
<1>4. PICK r \in TaskRecord : r = task[t]
  BY DEF Inv, TasksOK
<1>5. r.pc = "capture" /\ r.p \in Pays /\ provider[r.p].order = r.o /\ r.o \in Orders
  BY <1>4 DEF CapturePayment, Inv, TasksOK, TaskOK, AtRest
<1>6. CASE provider[r.p].status = "authorized"
  <2>1. Announce(r.p, "captured")
    BY <1>4, <1>6 DEF CapturePayment
  <2>2. PICK q \in ProviderRecord :
           /\ provider' = [provider EXCEPT ![r.p] = q] /\ q.status = "captured"
           /\ q.order \in Orders /\ provider[r.p].order \in {NoOrder, q.order}
           /\ sent' = sent \cup ({[p |-> r.p, kind |-> q.status]} \cap HookEvent)
    BY <1>5, <1>6, <2>1, Announced
  <2>3. Steady /\ ProviderOK' /\ MoneyOK' /\ LedgerOK'
    BY <1>1, <1>3, <1>5, <1>6, <2>2, ProviderMoves DEF rows
  <2>4. CASE task' = [task EXCEPT ![t].pc = "apply", ![t].auto = TRUE]
    <3> DEFINE x == [r EXCEPT !.pc = "apply", !.auto = TRUE]
    <3>1. x \in TaskRecord
      <4>1. "apply" \in TaskPc
        BY DEF TaskPc
      <4> QED BY <4>1, Zenon DEF TaskRecord
    <3>2. x.pc = "apply" /\ x.o = r.o /\ x.p = r.p /\ x.valid = r.valid /\ x.kind = r.kind
      BY Zenon DEF TaskRecord
    <3>3. task' = [task EXCEPT ![t] = x]
      BY <1>4, <2>4
    <3>4. TaskOK(t, r)'
      BY <1>4, <2>3 DEF Steady, Inv, TasksOK
    <3>5. provider'[r.p].status = "captured" /\ provider'[r.p].order = r.o
      BY <1>5, <2>2, BillingAssumption DEF Inv, ProviderOK
    <3> HIDE DEF x
    <3>6. TaskOK(t, x)'
      BY <1>5, <3>2, <3>4, <3>5 DEF TaskOK, AtRest
    <3> QED BY <1>2, <2>3, <3>1, <3>2, <3>3, <3>6, TaskMoves DEF Inv
  <2>5. CASE Step(t, "captureFailed")
    <3>1. TasksOK'
      BY <1>4, <1>5, <2>3, <2>5, TaskSteps DEF Inv, AtRest
    <3> QED BY <1>2, <2>3, <3>1 DEF Inv
  <2> QED BY <1>4, <1>6, <2>4, <2>5 DEF CapturePayment
<1>7. CASE provider[r.p].status # "authorized"
  <2>1. UNCHANGED razorpay /\ Step(t, "captureFailed")
    BY <1>4, <1>7 DEF CapturePayment
  <2>2. Steady /\ ProviderOK' /\ MoneyOK' /\ LedgerOK'
    BY <1>1, <1>3, <2>1, QuietStep DEF rows, razorpay, SameVerified, Inv, ProviderOK
  <2>3. TasksOK'
    BY <1>4, <1>5, <2>1, <2>2, TaskSteps DEF Inv, AtRest
  <2> QED BY <1>2, <2>2, <2>3 DEF Inv
<1> QED BY <1>6, <1>7

LEMMA FindKeeps == ASSUME Inv, NEW t \in Tasks, HookFind(t) PROVE Inv'
<1>1. UNCHANGED <<now, rows, offered, razorpay, acked, admin, extensions, faults, grants>>
  BY DEF HookFind
<1>2. Steady /\ ProviderOK' /\ MoneyOK' /\ LedgerOK'
  BY <1>1, QuietStep DEF rows, razorpay, SameVerified, Inv, ProviderOK, MoneyOK
<1>3. RowsOK'
  BY <1>1, RowsSame DEF rows
<1>4. PICK r \in TaskRecord : r = task[t]
  BY DEF Inv, TasksOK
<1>5. r.pc = "find" /\ r.p \in Pays /\ TaskOK(t, r) /\ provider[r.p].status # "none"
  BY <1>4 DEF HookFind, Inv, TasksOK, TaskOK, AtRest
<1>6. PICK o \in Orders : o = provider[r.p].order
  BY <1>5 DEF Inv, ProviderOK, ProviderRecord
<1>7. PICK st \in PaymentStatus : st = payment[o].status
  BY DEF Inv, RowsOK, PaymentRow
<1> DEFINE x == [r EXCEPT !.pc = "log", !.o = o, !.seen = st]
<1>8. x \in TaskRecord
  <2>1. "log" \in TaskPc
    BY DEF TaskPc
  <2> QED BY <2>1, Zenon DEF TaskRecord
<1>9. x.pc = "log" /\ x.o = o /\ x.p = r.p /\ x.valid = r.valid /\ x.kind = r.kind
  BY Zenon DEF TaskRecord
<1>10. task' = [task EXCEPT ![t] = x]
  BY <1>4, <1>6, <1>7 DEF HookFind
<1>11. TaskOK(t, r)' /\ UNCHANGED provider
  BY <1>1, <1>2, <1>5 DEF Steady, razorpay
<1> HIDE DEF x
<1>12. TaskOK(t, x)'
  BY <1>5, <1>6, <1>9, <1>11 DEF TaskOK, AtRest
<1>13. TasksOK'
  BY <1>2, <1>8, <1>9, <1>10, <1>12, TaskMoves DEF Inv
<1> QED BY <1>2, <1>3, <1>13 DEF Inv

LEMMA LogKeeps == ASSUME Inv, NEW t \in Tasks, HookLog(t) PROVE Inv'
<1>1. UNCHANGED <<now, org, payment, attempts, offered, razorpay, admin, extensions, faults,
                  grants>>
  BY DEF HookLog
<1>2. PICK r \in TaskRecord : r = task[t]
  BY DEF Inv, TasksOK
<1>3. /\ r.pc = "log" /\ r.p \in Pays /\ r.kind # "none" /\ provider[r.p].status # "none"
      /\ r.kind = "captured" => provider[r.p].status = "captured"
  BY <1>2 DEF HookLog, Inv, TasksOK, TaskOK, AtRest
<1>4. acked' \subseteq sent
  BY <1>2, <1>3, AnswerSent DEF HookLog, Inv, ProviderOK, AtRest
<1>5. events' \subseteq HookEvent \cup {Verified(p) : p \in Pays} /\ SameVerified
  <2>1. [p |-> r.p, kind |-> r.kind] \in HookEvent
    BY <1>3 DEF TaskRecord, HookEvent
  <2>2. events' = events \/ events' = events \cup {[p |-> r.p, kind |-> r.kind]}
    BY <1>2 DEF HookLog
  <2> QED BY <2>1, <2>2, EventsSame DEF Inv, RowsOK
<1>6. Steady /\ ProviderOK' /\ MoneyOK' /\ LedgerOK'
  BY <1>1, <1>4, <1>5, QuietStep DEF razorpay, Inv, MoneyOK
<1>7. RowsOK'
  BY <1>1, <1>5 DEF Inv, RowsOK, CapturedIsGranted, Granted
<1>8. TasksOK'
  <2>1. CASE Finish(t)
    BY <1>6, <2>1, TaskFinishes DEF Inv
  <2>2. CASE r.kind = "captured" /\ Step(t, "apply")
    BY <1>1, <1>2, <1>3, <1>6, <2>2, StepsOn DEF Inv, razorpay
  <2>3. CASE Step(t, "fail")
    BY <1>2, <1>3, <1>6, <2>3, TaskSteps DEF Inv, AtRest
  <2> QED BY <1>2, <2>1, <2>2, <2>3 DEF HookLog, Applies
<1> QED BY <1>6, <1>7, <1>8 DEF Inv

LEMMA ApplyReadKeeps == ASSUME Inv, NEW t \in Tasks, ApplyRead(t) PROVE Inv'
<1>1. UNCHANGED <<now, rows, offered, razorpay, acked, admin, extensions, faults, grants>>
  BY DEF ApplyRead
<1>2. Steady /\ ProviderOK' /\ MoneyOK' /\ LedgerOK'
  BY <1>1, QuietStep DEF rows, razorpay, SameVerified, Inv, ProviderOK, MoneyOK
<1>3. RowsOK'
  BY <1>1, RowsSame DEF rows
<1>4. PICK r \in TaskRecord : r = task[t]
  BY DEF Inv, TasksOK
<1>5. TaskOK(t, r) /\ TaskOK(t, r)' /\ r.pc = "apply"
  BY <1>2, <1>4 DEF Steady, Inv, TasksOK, ApplyRead
<1>6. TasksOK'
  <2>1. CASE AlreadyApplied(r.p)
    <3>1. Finish(t) \/ Step(t, "captureFailed")
      BY <1>4, <2>1 DEF ApplyRead, Throw
    <3> QED BY <1>2, <1>4, <1>5, <3>1, TaskFinishes, TaskSteps DEF Inv, AtRest
  <2>2. CASE ~AlreadyApplied(r.p)
    <3>1. PICK e \in Nat : e = org.end
      BY DEF Inv, MoneyOK, OrgRow
    <3> DEFINE x == [r EXCEPT !.pc = "commit", !.end = e]
    <3>2. x \in TaskRecord
      <4>1. "commit" \in TaskPc
        BY DEF TaskPc
      <4> QED BY <4>1, Zenon DEF TaskRecord
    <3>3. /\ x.pc = "commit" /\ x.o = r.o /\ x.p = r.p /\ x.kind = r.kind
          /\ x.valid = r.valid /\ x.end = e
      BY Zenon DEF TaskRecord
    <3>4. task' = [task EXCEPT ![t] = x]
      BY <1>4, <2>2, <3>1 DEF ApplyRead
    <3>5. ~Locked(r.o)
      BY <1>4 DEF ApplyRead
    <3>6. Verified(r.p) \notin events' /\ e <= PaidUntil'
      BY <1>1, <2>2, <3>1 DEF AlreadyApplied, rows, Inv, MoneyOK, PaidUntil, Worth, Granted
    <3> HIDE DEF x
    <3>7. TaskOK(t, x)'
      BY <1>5, <3>3, <3>6 DEF TaskOK, AtRest
    <3> QED BY <1>2, <3>2, <3>3, <3>4, <3>5, <3>7, TaskMoves DEF Inv
  <2> QED BY <2>1, <2>2
<1> QED BY <1>2, <1>3, <1>6 DEF Inv

-----------------------------------------------------------------------------
(* The period that is paid for. *)

LEMMA PaidType ==
  ASSUME now \in Nat, extensions \in Nat, IsFiniteSet(Granted)
  PROVE  /\ Cardinality(Granted) \in Nat /\ Worth \in Nat /\ PaidUntil \in Nat
         /\ now <= PaidUntil /\ PERIOD \in Nat \ {0}
<1>1. Cardinality(Granted) \in Nat /\ PERIOD \in Nat \ {0}
  BY FS_CardinalityType, BillingAssumption
<1>2. \A k \in Nat : PERIOD * k \in Nat
  BY <1>1
<1> QED BY <1>1, <1>2 DEF Worth, PaidUntil

LEMMA OneMore == \A k \in Nat : PERIOD * (k + 1) = PERIOD * k + PERIOD
BY BillingAssumption

(* A payment, or an extension, adds a period. *)
LEMMA GrantAdds ==
  ASSUME Inv, NEW p \in Pays, grants[p] = 0, grants' = [grants EXCEPT ![p] = @ + 1],
         UNCHANGED <<now, extensions>>
  PROVE  /\ Granted' = Granted \cup {p} /\ p \notin Granted /\ IsFiniteSet(Granted')
         /\ PaidUntil' = PaidUntil + PERIOD
<1>1. grants \in [Pays -> Nat]
  BY DEF Inv, MoneyOK
<1>2. grants' = [grants EXCEPT ![p] = 1]
  BY <1>1
<1>3. Granted' = Granted \cup {p} /\ p \notin Granted
  BY <1>1, <1>2 DEF Granted
<1>4. IsFiniteSet(Granted') /\ Cardinality(Granted') = Cardinality(Granted) + 1
  BY <1>3, FS_AddElement DEF Inv, MoneyOK
<1>5. Cardinality(Granted) \in Nat /\ extensions \in Nat /\ now \in Nat /\ PERIOD \in Nat
      /\ Worth \in Nat
  BY PaidType DEF Inv, MoneyOK
<1>6. Worth' = Worth + PERIOD
  <2>1. Worth' = PERIOD * ((Cardinality(Granted) + extensions) + 1)
    BY <1>4, <1>5 DEF Worth
  <2> QED BY <1>5, <2>1, OneMore DEF Worth
<1> QED BY <1>3, <1>4, <1>5, <1>6 DEF PaidUntil

LEMMA ExtensionAdds ==
  ASSUME Inv, extensions' = extensions + 1, UNCHANGED <<now, grants>>
  PROVE  Granted' = Granted /\ PaidUntil' = PaidUntil + PERIOD
<1>1. Granted' = Granted
  BY DEF Granted
<1>2. Cardinality(Granted) \in Nat /\ extensions \in Nat /\ now \in Nat /\ PERIOD \in Nat
      /\ Worth \in Nat
  BY PaidType DEF Inv, MoneyOK
<1>3. Worth' = Worth + PERIOD
  <2>1. Worth' = PERIOD * ((Cardinality(Granted) + extensions) + 1)
    BY <1>1, <1>2 DEF Worth
  <2> QED BY <1>2, <2>1, OneMore DEF Worth
<1> QED BY <1>1, <1>2, <1>3 DEF PaidUntil

(* What the tasks know holds on when more is paid for. *)
LEMMA PaidGrows ==
  ASSUME Inv, UNCHANGED <<provider, sent, events>>, PaidUntil \in Nat, PaidUntil' \in Nat,
         PaidUntil <= PaidUntil'
  PROVE  Steady
BY DEF Steady, TaskOK, TaskRecord, AtRest

LEMMA CommitKeeps == ASSUME Inv, NEW t \in Tasks, ApplyCommit(t) PROVE Inv'
<1>1. UNCHANGED <<now, offered, razorpay, admin, extensions>>
  BY DEF ApplyCommit
<1>2. PICK r \in TaskRecord : r = task[t]
  BY DEF Inv, TasksOK
<1>3. /\ r.pc = "commit" /\ TaskOK(t, r) /\ r.p \in Pays /\ r.o \in Orders
      /\ Verified(r.p) \notin events /\ r.end <= PaidUntil /\ r.end \in Nat
      /\ provider[r.p].status = "captured" /\ provider[r.p].order = r.o
  BY <1>2 DEF Inv, TasksOK, TaskOK, AtRest, ApplyCommit, TaskRecord
<1>4. /\ payment' = [payment EXCEPT ![r.o] = [@ EXCEPT !.status = "CAPTURED", !.pay = r.p]]
      /\ CaptureAttempts(r.o)
      /\ events' = events \cup {Verified(r.p)}
      /\ org' = [plan |-> payment[r.o].plan, paid |-> "ACTIVE", status |-> "ACTIVE",
                 end |-> ExtendPeriod(r.end)]
      /\ grants' = [grants EXCEPT ![r.p] = @ + 1]
      /\ Answer(t)
      /\ faults' \in Nat
      /\ Finish(t) \/ Step(t, "captureFailed")
  BY <1>2 DEF ApplyCommit, Fault, Inv, MoneyOK
<1>5. grants[r.p] = 0
  BY <1>3 DEF Inv, LedgerOK
<1>6. /\ Granted' = Granted \cup {r.p} /\ IsFiniteSet(Granted')
      /\ PaidUntil' = PaidUntil + PERIOD
  BY <1>1, <1>3, <1>4, <1>5, GrantAdds
<1>7. now \in Nat /\ PaidUntil \in Nat /\ now <= PaidUntil /\ PERIOD \in Nat \ {0}
  BY PaidType DEF Inv, MoneyOK
<1>8. acked' \subseteq sent
  BY <1>2, <1>3, <1>4, AnswerSent DEF AtRest
<1>9. ProviderOK'
  BY <1>1, <1>8 DEF Inv, ProviderOK, razorpay
<1>10. \A p \in Pays : Verified(p) \in events' <=> Verified(p) \in events \/ p = r.p
  BY <1>4 DEF Verified
<1>11. LedgerOK'
  <2>1. grants' = [grants EXCEPT ![r.p] = 1] /\ grants \in [Pays -> Nat]
    BY <1>4, <1>5 DEF Inv, MoneyOK
  <2> QED BY <1>1, <1>3, <1>10, <2>1 DEF Inv, LedgerOK, razorpay
<1>12. RowsOK'
  <2>1. payment \in [Orders -> PaymentRow] /\ payment[r.o] \in PaymentRow
    BY <1>3 DEF Inv, RowsOK
  <2> DEFINE x == [payment[r.o] EXCEPT !.status = "CAPTURED", !.pay = r.p]
  <2>2. x \in PaymentRow /\ x.pay = r.p
    <3>1. "CAPTURED" \in PaymentStatus
      BY DEF PaymentStatus
    <3>2. x \in PaymentRow
      BY <1>3, <2>1, <3>1, Zenon DEF PaymentRow
    <3>3. x.pay = r.p
      BY <2>1, Zenon DEF PaymentRow
    <3> QED BY <3>2, <3>3
  <2>3. payment' = [payment EXCEPT ![r.o] = x]
    BY <1>4
  <2> HIDE DEF x
  <2>4. payment' \in [Orders -> PaymentRow]
    BY <2>1, <2>2, <2>3
  <2>5. attempts' \in [Orders -> Seq(AttemptStatus)]
    BY <1>4, AttemptsSettled DEF CaptureAttempts, AttemptStatus
  <2>6. events' \subseteq HookEvent \cup {Verified(p) : p \in Pays}
    BY <1>3, <1>4 DEF Inv, RowsOK
  <2>7. "retry" \notin AdminOps => CapturedIsGranted'
    BY <1>6, <2>1, <2>2, <2>3 DEF Inv, RowsOK, CapturedIsGranted
  <2> QED BY <1>1, <2>4, <2>5, <2>6, <2>7 DEF Inv, RowsOK
<1>13. MoneyOK'
  <2>1. /\ ExtendPeriod(r.end) \in Nat /\ ExtendPeriod(r.end) <= PaidUntil + PERIOD
        /\ ExtendPeriod(r.end) > 0
    BY <1>3, <1>7 DEF ExtendPeriod, Later
  <2>2. org' \in OrgRow
    <3>1. payment[r.o].plan \in AllPlans
      BY <1>3 DEF Inv, RowsOK, PaymentRow
    <3> QED BY <1>4, <2>1, <3>1 DEF OrgRow
  <2>3. admin.op = "extend" => admin.end <= PaidUntil'
    BY <1>6, <1>7 DEF Inv, MoneyOK
  <2>4. grants' \in [Pays -> Nat]
    <3>1. grants' = [grants EXCEPT ![r.p] = 1] /\ grants \in [Pays -> Nat]
      BY <1>4, <1>5 DEF Inv, MoneyOK
    <3> QED BY <3>1
  <2>5. org'.end <= PaidUntil' /\ org'.end > 0 /\ Granted' # {}
    BY <1>4, <1>6, <2>1
  <2> QED BY <1>1, <1>4, <1>6, <2>2, <2>3, <2>4, <2>5 DEF Inv, MoneyOK
<1>14. TasksOK'
  <2>1. \A u \in Tasks \ {t}, y \in TaskRecord : y = task[u] => TaskOK(u, y)'
    <3> SUFFICES ASSUME NEW u \in Tasks \ {t}, NEW y \in TaskRecord, y = task[u]
                 PROVE  TaskOK(u, y)'
      OBVIOUS
    <3>1. TaskOK(u, y)
      BY DEF Inv, TasksOK
    <3>2. y.pc = "commit" => y.o # r.o
      BY <1>2, <1>3 DEF Inv, TasksOK, OneCommit
    <3>3. y.pc = "commit" => y.end <= PaidUntil' /\ Verified(y.p) \notin events'
      <4> SUFFICES ASSUME y.pc = "commit"
                   PROVE  y.end <= PaidUntil' /\ Verified(y.p) \notin events'
        OBVIOUS
      <4>1. y.end \in Nat /\ y.p \in Pays /\ y.p # r.p
        BY <1>3, <3>1, <3>2 DEF TaskOK, AtRest, TaskRecord
      <4> QED BY <1>6, <1>7, <1>10, <3>1, <4>1 DEF TaskOK
    <3> QED BY <1>1, <3>1, <3>3 DEF TaskOK, razorpay, AtRest
  <2>2. PICK x \in TaskRecord :
          /\ task' = [task EXCEPT ![t] = x]
          /\ \/ x.pc \in {"idle", "done"}
             \/ x.pc = "captureFailed" /\ x.o = r.o /\ x.p = r.p /\ x.kind = r.kind
    <3>1. CASE Finish(t)
      BY <3>1, FinishTo
    <3>2. CASE Step(t, "captureFailed")
      BY <1>2, <3>2, StepTo DEF Inv, TaskPc
    <3> QED BY <1>4, <3>1, <3>2
  <2>3. TaskOK(t, x)'
    BY <1>1, <1>3, <2>2 DEF TaskOK, AtRest, razorpay
  <2> QED BY <2>1, <2>2, <2>3, TaskChanges DEF Inv
<1> QED BY <1>9, <1>11, <1>12, <1>13, <1>14 DEF Inv

LEMMA AbortKeeps == ASSUME Inv, NEW t \in Tasks, Abort(t) PROVE Inv'
<1>1. UNCHANGED <<now, rows, offered, razorpay, acked, admin, extensions, grants>>
  BY DEF Abort
<1>2. faults' \in Nat
  BY DEF Abort, Fault, Inv, MoneyOK
<1>3. Steady /\ ProviderOK' /\ MoneyOK' /\ LedgerOK'
  BY <1>1, <1>2, QuietStep DEF rows, razorpay, SameVerified, Inv, ProviderOK
<1>4. RowsOK'
  BY <1>1, RowsSame DEF rows
<1>5. TasksOK'
  <2>1. CASE Finish(t)
    BY <1>3, <2>1, TaskFinishes DEF Inv
  <2>2. CASE task[t].pc \in {"apply", "commit"} /\ Step(t, "captureFailed")
    BY <1>3, <2>2, TaskSteps DEF Inv, AtRest
  <2> QED BY <2>1, <2>2 DEF Abort
<1> QED BY <1>3, <1>4, <1>5 DEF Inv

LEMMA VerifyKeeps ==
  ASSUME Inv, NEW t \in Requests, NEW o \in Orders, NEW p \in Pays, NEW valid \in BOOLEAN,
         VerifyStart(t, o, p, valid)
  PROVE  Inv'
<1>1. UNCHANGED <<now, rows, offered, razorpay, acked, admin, extensions, faults, grants>>
  BY DEF VerifyStart
<1>2. Steady /\ ProviderOK' /\ MoneyOK' /\ LedgerOK'
  BY <1>1, QuietStep DEF rows, razorpay, SameVerified, Inv, ProviderOK, MoneyOK
<1>3. RowsOK'
  BY <1>1, RowsSame DEF rows
<1>4. t \in Tasks /\ t \notin Hooks
  BY BillingAssumption DEF Tasks
<1>5. TasksOK'
  <2>1. CASE Finish(t)
    BY <1>2, <1>4, <2>1, TaskFinishes DEF Inv
  <2>2. CASE task' = [task EXCEPT ![t] = [@ EXCEPT !.pc = "count", !.o = o, !.p = p, !.valid = valid]]
    <3>1. PICK r \in TaskRecord : r = task[t]
      BY <1>4 DEF Inv, TasksOK
    <3> DEFINE x == [r EXCEPT !.pc = "count", !.o = o, !.p = p, !.valid = valid]
    <3>2. x \in TaskRecord
      <4>1. "count" \in TaskPc
        BY DEF TaskPc
      <4> QED BY <4>1, Zenon DEF TaskRecord
    <3>3. x.pc = "count" /\ x.o = o /\ x.p = p /\ x.valid = valid
      BY Zenon DEF TaskRecord
    <3>4. task' = [task EXCEPT ![t] = x]
      BY <2>2, <3>1
    <3>5. valid => provider[p].order = o
      BY DEF VerifyStart
    <3> HIDE DEF x
    <3>6. TaskOK(t, x)'
      BY <1>1, <1>4, <3>3, <3>5 DEF TaskOK, AtRest, razorpay
    <3> QED BY <1>2, <1>4, <3>2, <3>3, <3>4, <3>6, TaskMoves DEF Inv
  <2> QED BY <2>1, <2>2 DEF VerifyStart
<1> QED BY <1>2, <1>3, <1>5 DEF Inv

LEMMA HookStartKeeps ==
  ASSUME Inv, NEW t \in Hooks, NEW ev \in sent, HookStart(t, ev)
  PROVE  Inv'
<1>1. UNCHANGED <<now, rows, offered, razorpay, admin, extensions, faults, grants>>
  BY DEF HookStart
<1>2. acked' \subseteq sent
  BY DEF HookStart, Inv, ProviderOK
<1>3. Steady /\ ProviderOK' /\ MoneyOK' /\ LedgerOK'
  BY <1>1, <1>2, QuietStep DEF rows, razorpay, SameVerified, Inv, MoneyOK
<1>4. RowsOK'
  BY <1>1, RowsSame DEF rows
<1>5. TasksOK'
  <2>1. CASE UNCHANGED task
    <3>1. \A u \in Tasks : task[u] \in TaskRecord /\ TaskOK(u, task[u])
      BY DEF Inv, TasksOK
    <3>2. ASSUME NEW u \in Tasks PROVE TaskOK(u, task[u])'
      <4>1. PICK y \in TaskRecord : y = task[u]
        BY <3>1
      <4>2. TaskOK(u, y)'
        BY <1>3, <3>1, <4>1 DEF Steady
      <4> QED BY <2>1, <4>1, <4>2 DEF TaskOK
    <3> QED BY <2>1, <3>2 DEF Inv, TasksOK, OneCommit
  <2>2. CASE task' = [task EXCEPT ![t] = [@ EXCEPT !.pc = "find", !.p = ev.p, !.kind = ev.kind]]
    <3>1. /\ t \in Tasks /\ ev.p \in Pays /\ ev.kind \in Subscribed
          /\ ev = [p |-> ev.p, kind |-> ev.kind] /\ ev.kind # "none"
          /\ provider[ev.p].status # "none"
          /\ ev.kind = "captured" => provider[ev.p].status = "captured"
      BY BillingAssumption DEF Inv, ProviderOK, HookEvent, Tasks
    <3>2. PICK r \in TaskRecord : r = task[t]
      BY <3>1 DEF Inv, TasksOK
    <3> DEFINE x == [r EXCEPT !.pc = "find", !.p = ev.p, !.kind = ev.kind]
    <3>3. x \in TaskRecord
      <4>1. "find" \in TaskPc
        BY DEF TaskPc
      <4> QED BY <3>1, <4>1, Zenon DEF TaskRecord
    <3>4. x.pc = "find" /\ x.p = ev.p /\ x.kind = ev.kind
      BY Zenon DEF TaskRecord
    <3>5. task' = [task EXCEPT ![t] = x]
      BY <2>2, <3>2
    <3> HIDE DEF x
    <3>6. TaskOK(t, x)'
      BY <1>1, <3>1, <3>4 DEF TaskOK, AtRest, razorpay
    <3> QED BY <1>3, <3>1, <3>3, <3>4, <3>5, <3>6, TaskMoves DEF Inv
  <2> QED BY <2>1, <2>2 DEF HookStart
<1> QED BY <1>3, <1>4, <1>5 DEF Inv

LEMMA TasksSame ==
  ASSUME TasksOK, Steady, UNCHANGED task
  PROVE  TasksOK'
<1>1. \A u \in Tasks : task[u] \in TaskRecord /\ TaskOK(u, task[u])
  BY DEF TasksOK
<1>2. ASSUME NEW u \in Tasks PROVE TaskOK(u, task[u])'
  <2>1. PICK y \in TaskRecord : y = task[u]
    BY <1>1
  <2>2. TaskOK(u, y)'
    BY <1>1, <2>1 DEF Steady
  <2> QED BY <2>1, <2>2 DEF TaskOK
<1> QED BY <1>2 DEF TasksOK, OneCommit

-----------------------------------------------------------------------------
(* Razorpay, customers, the clock and administrators. *)

LEMMA PayKeeps ==
  ASSUME Inv, NEW p \in Pays, NEW o \in Orders, NEW st \in {"authorized", "failed"}, Pay(p, o, st)
  PROVE  Inv'
<1> DEFINE r == [status |-> st, order |-> o]
<1>1. /\ r \in ProviderRecord /\ r.status = st /\ r.order = o
      /\ provider' = [provider EXCEPT ![p] = r]
      /\ sent' = sent \cup ({[p |-> p, kind |-> r.status]} \cap HookEvent)
  BY DEF ProviderRecord, Pay
<1>2. provider[p].status = "none" /\ provider[p].order = NoOrder
  BY DEF Pay, Inv, ProviderOK
<1>3. UNCHANGED <<now, rows, offered, acked, task, admin, extensions, faults, grants>>
  BY DEF Pay
<1> HIDE DEF r
<1>4. Steady /\ ProviderOK' /\ MoneyOK' /\ LedgerOK'
  BY <1>1, <1>2, <1>3, ProviderMoves DEF rows, Inv, MoneyOK
<1>5. RowsOK'
  BY <1>3, RowsSame DEF rows
<1>6. TasksOK'
  BY <1>3, <1>4, TasksSame DEF Inv
<1> QED BY <1>4, <1>5, <1>6 DEF Inv

LEMMA ConcludeKeeps ==
  ASSUME Inv, NEW p \in Pays, NEW st \in {"captured", "failed", "refunded"}, Conclude(p, st)
  PROVE  Inv'
<1>1. PICK r \in ProviderRecord :
           /\ provider' = [provider EXCEPT ![p] = r] /\ r.status = st
           /\ r.order \in Orders /\ provider[p].order \in {NoOrder, r.order}
           /\ sent' = sent \cup ({[p |-> p, kind |-> r.status]} \cap HookEvent)
  BY Announced DEF Conclude
<1>2. provider[p].status = "authorized"
  BY DEF Conclude
<1>3. UNCHANGED <<now, rows, offered, acked, task, admin, extensions, faults, grants>>
  BY DEF Conclude
<1>4. Steady /\ ProviderOK' /\ MoneyOK' /\ LedgerOK'
  BY <1>1, <1>2, <1>3, ProviderMoves DEF rows, Inv, MoneyOK
<1>5. RowsOK'
  BY <1>3, RowsSame DEF rows
<1>6. TasksOK'
  BY <1>3, <1>4, TasksSame DEF Inv
<1> QED BY <1>4, <1>5, <1>6 DEF Inv

LEMMA OrderKeeps ==
  ASSUME Inv, NEW o \in Orders, OrderPlan(o) \/ SaveOrder(o) \/ OrderFails(o)
  PROVE  Inv'
<1>1. UNCHANGED <<now, org, attempts, events, razorpay, acked, task, admin, extensions,
                  faults, grants>>
  BY DEF OrderPlan, SaveOrder, OrderFails
<1>2. Steady /\ ProviderOK' /\ MoneyOK' /\ LedgerOK'
  BY <1>1, QuietStep DEF razorpay, SameVerified, Inv, ProviderOK, MoneyOK
<1>3. PICK st \in PaymentStatus \ {"CAPTURED"} : payment' = [payment EXCEPT ![o].status = st]
  BY DEF OrderPlan, SaveOrder, OrderFails, PaymentStatus
<1>4. /\ attempts' \in [Orders -> Seq(AttemptStatus)] /\ offered' \subseteq Orders
  BY <1>1 DEF OrderPlan, SaveOrder, OrderFails, Inv, RowsOK
<1>5. RowsOK'
  BY <1>1, <1>3, <1>4, PaymentChanges
<1>6. TasksOK'
  BY <1>1, <1>2, TasksSame DEF Inv
<1> QED BY <1>2, <1>5, <1>6 DEF Inv

LEMMA RefundKeeps ==
  ASSUME Inv, RefundPayment \/ \E o \in Orders : RetryPayment(o)
  PROVE  Inv'
<1>1. UNCHANGED <<now, org, attempts, events, offered, razorpay, acked, task, extensions,
                  faults, grants>>
  BY DEF RefundPayment, RetryPayment
<1>2. MoneyOK'
  BY <1>1 DEF RefundPayment, RetryPayment, IdleAdmin, Null, Inv, MoneyOK, Granted, PaidUntil, Worth
<1>3. Granted' = Granted /\ PaidUntil' = PaidUntil
  BY <1>1 DEF Granted, PaidUntil, Worth
<1>4. Steady /\ ProviderOK' /\ LedgerOK'
  BY <1>1, <1>3 DEF razorpay, Steady, TaskOK, AtRest, Inv, ProviderOK, LedgerOK
<1>5. RowsOK'
  <2>1. CASE RefundPayment
    <3>1. PICK o : payment' = [payment EXCEPT ![o].status = "REFUNDED"]
      BY <2>1 DEF RefundPayment
    <3>2. attempts' \in [Orders -> Seq(AttemptStatus)] /\ offered' \subseteq Orders
      BY <1>1 DEF Inv, RowsOK
    <3> QED BY <1>1, <3>1, <3>2, PaymentChanges DEF PaymentStatus
  <2>2. ASSUME NEW o \in Orders, RetryPayment(o) PROVE RowsOK'
    <3>1. "retry" \in AdminOps /\ payment' = [payment EXCEPT ![o].status = "CAPTURED"]
      BY <2>2 DEF RetryPayment
    <3>2. payment \in [Orders -> PaymentRow] /\ payment[o] \in PaymentRow
      BY DEF Inv, RowsOK
    <3> DEFINE x == [payment[o] EXCEPT !.status = "CAPTURED"]
    <3>3. x \in PaymentRow
      BY <3>2, PaymentUpdates DEF PaymentStatus
    <3>4. payment' = [payment EXCEPT ![o] = x]
      BY <3>1
    <3> HIDE DEF x
    <3>5. payment' \in [Orders -> PaymentRow]
      BY <3>2, <3>3, <3>4
    <3> QED BY <1>1, <3>1, <3>5 DEF Inv, RowsOK
  <2> QED BY <2>1, <2>2
<1>6. TasksOK'
  BY <1>1, <1>4, TasksSame DEF Inv
<1> QED BY <1>2, <1>4, <1>5, <1>6 DEF Inv

LEMMA TickKeeps == ASSUME Inv, Tick PROVE Inv'
<1>1. now' = now + 1 /\ UNCHANGED <<rows, offered, razorpay, acked, task, admin, extensions,
                                   faults, grants>>
  BY DEF Tick
<1>2. Granted' = Granted /\ Worth' = Worth
  BY <1>1 DEF Granted, Worth
<1>3. PaidUntil \in Nat /\ PaidUntil' = PaidUntil + 1
  <2>1. Worth \in Nat /\ PaidUntil \in Nat /\ now \in Nat
    BY PaidType DEF Inv, MoneyOK
  <2> QED BY <1>1, <1>2, <2>1 DEF PaidUntil
<1>4. Steady
  BY <1>1, <1>3, PaidGrows DEF rows, razorpay
<1>5. ProviderOK' /\ LedgerOK'
  BY <1>1 DEF Inv, ProviderOK, LedgerOK, rows, razorpay
<1>6. MoneyOK'
  BY <1>1, <1>2, <1>3 DEF Inv, MoneyOK, rows, OrgRow
<1>7. RowsOK'
  BY <1>1, RowsSame DEF rows
<1>8. TasksOK'
  BY <1>1, <1>4, TasksSame DEF Inv
<1> QED BY <1>4, <1>5, <1>6, <1>7, <1>8 DEF Inv

(* The organization changes, but for a longer period. *)
LEMMA OrganizationChanges ==
  ASSUME Inv, org' \in OrgRow, org'.end = org.end, org'.paid = "ACTIVE" => org.paid = "ACTIVE",
         UNCHANGED <<now, payment, attempts, events, offered, razorpay, acked, task, admin,
                     extensions, faults, grants>>
  PROVE  Inv'
<1>1. Granted' = Granted /\ PaidUntil' = PaidUntil
  BY DEF Granted, PaidUntil, Worth
<1>2. Steady /\ ProviderOK' /\ LedgerOK'
  BY <1>1 DEF razorpay, Steady, TaskOK, AtRest, Inv, ProviderOK, LedgerOK
<1>3. MoneyOK'
  BY <1>1 DEF Inv, MoneyOK
<1>4. RowsOK'
  BY RowsSame
<1>5. TasksOK'
  BY <1>2, TasksSame DEF Inv
<1> QED BY <1>2, <1>3, <1>4, <1>5 DEF Inv

LEMMA OrgUpdates ==
  ASSUME NEW r \in OrgRow, NEW c \in {"FREE"} \cup AllPlans,
         NEW paid \in {"PENDING", "ACTIVE", "INACTIVE"},
         NEW st \in {"PENDING", "ACTIVE", "SUSPENDED"}, NEW e \in Nat
  PROVE  /\ [r EXCEPT !.plan = c, !.paid = paid, !.status = st] \in OrgRow
         /\ [r EXCEPT !.plan = c, !.paid = paid] \in OrgRow
         /\ [r EXCEPT !.plan = c] \in OrgRow
         /\ [r EXCEPT !.status = st] \in OrgRow
         /\ [r EXCEPT !.end = e] \in OrgRow
BY Zenon DEF OrgRow

LEMMA PlanKeeps ==
  ASSUME Inv,
         \/ ChooseFree \/ RunPlanDowngrades
         \/ \E c \in {"FREE"} \cup Plans : ChangeOrganizationPlan(c)
         \/ \E st \in {"ACTIVE", "SUSPENDED"} : UpdateOrganizationStatus(st)
  PROVE  Inv'
<1>1. PICK r \in OrgRow : r = org
  BY DEF Inv, MoneyOK
<1>2. CASE ChooseFree
  <2>1. org' = [r EXCEPT !.plan = "FREE", !.paid = "PENDING", !.status = "ACTIVE"]
    BY <1>1, <1>2 DEF ChooseFree
  <2>2. org' \in OrgRow
    BY <2>1, OrgUpdates
  <2>3. org'.end = r.end /\ org'.paid = "PENDING"
    BY <2>1, Zenon DEF OrgRow
  <2> QED BY <1>1, <1>2, <2>2, <2>3, OrganizationChanges DEF ChooseFree
<1>3. CASE RunPlanDowngrades
  <2>1. org' = [r EXCEPT !.plan = "FREE", !.paid = "INACTIVE"]
    BY <1>1, <1>3 DEF RunPlanDowngrades
  <2>2. org' \in OrgRow
    BY <2>1, OrgUpdates
  <2>3. org'.end = r.end /\ org'.paid = "INACTIVE"
    BY <2>1, Zenon DEF OrgRow
  <2> QED BY <1>1, <1>3, <2>2, <2>3, OrganizationChanges DEF RunPlanDowngrades
<1>4. ASSUME NEW c \in {"FREE"} \cup Plans, ChangeOrganizationPlan(c) PROVE Inv'
  <2>1. org' = [r EXCEPT !.plan = c] /\ c \in {"FREE"} \cup AllPlans
    BY <1>1, <1>4, BillingAssumption DEF ChangeOrganizationPlan
  <2>2. org' \in OrgRow
    BY <2>1, OrgUpdates
  <2>3. org'.end = r.end /\ org'.paid = r.paid
    BY <2>1, Zenon DEF OrgRow
  <2> QED BY <1>1, <1>4, <2>2, <2>3, OrganizationChanges DEF ChangeOrganizationPlan
<1>5. ASSUME NEW st \in {"ACTIVE", "SUSPENDED"}, UpdateOrganizationStatus(st) PROVE Inv'
  <2>1. org' = [r EXCEPT !.status = st]
    BY <1>1, <1>5 DEF UpdateOrganizationStatus
  <2>2. org' \in OrgRow
    BY <2>1, OrgUpdates
  <2>3. org'.end = r.end /\ org'.paid = r.paid
    BY <2>1, Zenon DEF OrgRow
  <2> QED BY <1>1, <1>5, <2>2, <2>3, OrganizationChanges DEF UpdateOrganizationStatus
<1> QED BY <1>2, <1>3, <1>4, <1>5

LEMMA AdminReadKeeps ==
  ASSUME Inv, RequestExtension \/ \E o \in Orders : RequestRefund(o)
  PROVE  Inv'
<1>1. UNCHANGED <<now, rows, offered, razorpay, acked, task, extensions, faults, grants>>
  BY DEF RequestExtension, RequestRefund
<1>2. Granted' = Granted /\ PaidUntil' = PaidUntil
  BY <1>1 DEF Granted, PaidUntil, Worth
<1>3. Steady /\ ProviderOK' /\ LedgerOK'
  BY <1>1, <1>2 DEF razorpay, rows, Steady, TaskOK, AtRest, Inv, ProviderOK, LedgerOK
<1>4. /\ admin' \in [op : {"idle", "refund", "extend"}, o : Orders \cup {NoOrder}, end : Nat]
      /\ admin'.op = "extend" => admin'.end = org.end
  <2>1. org.end \in Nat
    BY DEF Inv, MoneyOK, OrgRow
  <2>2. CASE RequestExtension
    <3>1. admin' = [op |-> "extend", o |-> NoOrder, end |-> org.end]
      BY <2>2 DEF RequestExtension, IdleAdmin
    <3> QED BY <2>1, <3>1
  <2>3. ASSUME NEW o \in Orders, RequestRefund(o)
        PROVE  admin' = [op |-> "refund", o |-> o, end |-> Null]
    BY <2>3 DEF RequestRefund, IdleAdmin
  <2> QED BY <2>2, <2>3 DEF Null
<1>5. MoneyOK'
  BY <1>1, <1>2, <1>4 DEF Inv, MoneyOK, rows
<1>6. RowsOK'
  BY <1>1, RowsSame DEF rows
<1>7. TasksOK'
  BY <1>1, <1>3, TasksSame DEF Inv
<1> QED BY <1>3, <1>5, <1>6, <1>7 DEF Inv

LEMMA ExtendKeeps == ASSUME Inv, ExtendOrganizationPeriod PROVE Inv'
<1>1. /\ admin.op = "extend" /\ extensions' = extensions + 1 /\ admin' = IdleAdmin
      /\ UNCHANGED <<now, payment, attempts, events, offered, razorpay, acked, task, faults,
                     grants>>
  BY DEF ExtendOrganizationPeriod
<1>2. Granted' = Granted /\ PaidUntil' = PaidUntil + PERIOD
  BY <1>1, ExtensionAdds
<1>3. now \in Nat /\ PaidUntil \in Nat /\ now <= PaidUntil /\ PERIOD \in Nat \ {0}
  BY PaidType DEF Inv, MoneyOK
<1>4. PICK e \in Nat : e = Later(admin.end, now) + PERIOD /\ e <= PaidUntil' /\ e > 0
  BY <1>1, <1>2, <1>3 DEF Inv, MoneyOK, Later
<1>5. PICK r \in OrgRow : r = org
  BY DEF Inv, MoneyOK
<1>6. org' \in OrgRow /\ org'.end = e /\ org'.paid = org.paid
  <2>1. org' = [r EXCEPT !.end = e]
    BY <1>4, <1>5 DEF ExtendOrganizationPeriod
  <2>2. org' \in OrgRow
    BY <2>1, OrgUpdates
  <2>3. org'.end = e /\ org'.paid = r.paid
    BY <2>1, Zenon DEF OrgRow
  <2> QED BY <1>5, <2>2, <2>3
<1>7. MoneyOK'
  BY <1>1, <1>2, <1>4, <1>6 DEF Inv, MoneyOK, IdleAdmin, Null
<1>8. Steady
  BY <1>1, <1>2, <1>3, PaidGrows DEF razorpay
<1>9. ProviderOK' /\ LedgerOK'
  BY <1>1 DEF Inv, ProviderOK, LedgerOK, razorpay
<1>10. RowsOK'
  BY <1>1, RowsSame
<1>11. TasksOK'
  BY <1>1, <1>8, TasksSame DEF Inv
<1> QED BY <1>7, <1>9, <1>10, <1>11 DEF Inv

-----------------------------------------------------------------------------
LEMMA InvInit == Init => Inv
<1> SUFFICES ASSUME Init PROVE Inv
  OBVIOUS
<1>1. Granted = {} /\ IsFiniteSet(Granted)
  <2>1. Granted = {}
    BY DEF Init, Granted
  <2> QED BY <2>1, FS_EmptySet
<1>2. /\ IdleTask \in TaskRecord /\ IdleTask.pc = "idle"
      /\ [IdleTask EXCEPT !.pc = "new"] \in TaskRecord
      /\ [IdleTask EXCEPT !.pc = "new"].pc = "new"
  <2>1. "idle" \in TaskPc /\ 0 \in Nat /\ "new" \in TaskPc
    BY DEF TaskPc
  <2>2. IdleTask \in TaskRecord
    BY <2>1, Zenon DEF IdleTask, TaskRecord, Null
  <2> QED BY <2>1, <2>2, Moved DEF IdleTask
<1>3. TasksOK
  <2>1. \A t \in Tasks : task[t] \in TaskRecord /\ task[t].pc \in {"new", "idle"}
    BY <1>2 DEF Init
  <2>2. \A t \in Tasks : TaskOK(t, task[t])
    BY <2>1 DEF TaskOK, AtRest
  <2>3. task \in [Tasks -> TaskRecord]
    BY <2>1 DEF Init
  <2> QED BY <2>1, <2>2, <2>3 DEF TasksOK, OneCommit
<1>4. ProviderOK
  BY DEF Init, ProviderOK, ProviderRecord
<1>5. RowsOK
  <2>1. payment \in [Orders -> PaymentRow] /\ \A o \in Orders : payment[o].status = "ABSENT"
    BY BillingAssumption DEF Init, PaymentRow, PaymentStatus
  <2>2. attempts \in [Orders -> Seq(AttemptStatus)]
    BY DEF Init
  <2> QED BY <2>1, <2>2 DEF Init, RowsOK, CapturedIsGranted
<1>6. MoneyOK
  <2>1. now = 1 /\ extensions = 0 /\ org.end = 0
    BY DEF Init, Null
  <2>2. 0 <= PaidUntil
    BY <1>1, <2>1, PaidType
  <2> QED BY <1>1, <2>1, <2>2 DEF Init, MoneyOK, OrgRow, IdleAdmin, Null
<1>7. LedgerOK
  BY DEF Init, LedgerOK
<1> QED BY <1>3, <1>4, <1>5, <1>6, <1>7 DEF Inv

LEMMA InvNext == Inv /\ [Next]_vars => Inv'
<1> SUFFICES ASSUME Inv, [Next]_vars PROVE Inv'
  OBVIOUS
<1>1. CASE Tick
  BY <1>1, TickKeeps
<1>2. CASE RunPlanDowngrades \/ ChooseFree
  BY <1>2, PlanKeeps
<1>3. CASE AdminStep
  BY <1>3, RefundKeeps, AdminReadKeeps, ExtendKeeps, PlanKeeps DEF AdminStep
<1>4. ASSUME NEW o \in Orders, OrderPlan(o) \/ SaveOrder(o) \/ OrderFails(o) PROVE Inv'
  BY <1>4, OrderKeeps
<1>5. ASSUME NEW p \in Pays, NEW o \in Orders, NEW st \in {"authorized", "failed"}, Pay(p, o, st)
      PROVE  Inv'
  BY <1>5, PayKeeps
<1>6. ASSUME NEW p \in Pays, NEW st \in {"captured", "failed", "refunded"}, Conclude(p, st)
      PROVE  Inv'
  BY <1>6, ConcludeKeeps
<1>7. ASSUME NEW t \in Requests, NEW o \in Orders, NEW p \in Pays, NEW valid \in BOOLEAN,
             VerifyStart(t, o, p, valid)
      PROVE  Inv'
  BY <1>7, VerifyKeeps
<1>8. ASSUME NEW t \in Hooks, NEW ev \in sent, HookStart(t, ev) PROVE Inv'
  BY <1>8, HookStartKeeps
<1>9. ASSUME NEW t \in Tasks, TaskStep(t) PROVE Inv'
  BY <1>9, CountKeeps, CreateKeeps, RejectKeeps, FetchKeeps, CaptureKeeps, FailAttemptKeeps,
     FailPaymentKeeps, FindKeeps, LogKeeps, ApplyReadKeeps, CommitKeeps DEF TaskStep
<1>10. ASSUME NEW t \in Tasks, Abort(t) PROVE Inv'
  BY <1>10, AbortKeeps
<1>11. CASE UNCHANGED vars
  <2>1. UNCHANGED <<now, org, payment, attempts, events, offered, provider, sent, acked, task,
                    admin, extensions, faults, grants>>
    BY <1>11 DEF vars
  <2>2. Steady /\ ProviderOK' /\ MoneyOK' /\ LedgerOK'
    BY <2>1, QuietStep DEF SameVerified, Inv, ProviderOK, MoneyOK
  <2>3. RowsOK' /\ TasksOK'
    BY <2>1, <2>2, RowsSame, TasksSame DEF Inv
  <2> QED BY <2>2, <2>3 DEF Inv
<1> QED BY <1>1, <1>2, <1>3, <1>4, <1>5, <1>6, <1>7, <1>8, <1>9, <1>10, <1>11 DEF Next

LEMMA Invariance == Spec => []Inv
BY InvInit, InvNext, PTL DEF Spec

(* Every variable keeps its type. *)
THEOREM BillingType == Spec => []TypeOK
<1>1. Inv => TypeOK
  BY DEF Inv, TypeOK, TasksOK, ProviderOK, RowsOK, MoneyOK
<1> QED BY Invariance, <1>1, PTL

(* However many verification requests, webhook handlers, retries and aborted   *)
(* tasks meet, a payment grants one period at most.                           *)
THEOREM PaymentGrantsOnce == Spec => []GrantedOnce
<1>1. Inv => GrantedOnce
  BY DEF Inv, LedgerOK, GrantedOnce
<1> QED BY Invariance, <1>1, PTL

(* Only money that Razorpay has captured grants a period. *)
THEOREM OnlyCapturedGrants == Spec => []GrantIsCaptured
<1>1. Inv => GrantIsCaptured
  BY DEF Inv, LedgerOK, GrantIsCaptured, Granted
<1> QED BY Invariance, <1>1, PTL

(* Without the retry of administrators, a payment row that says CAPTURED names *)
(* a payment whose period was granted.                                         *)
THEOREM CapturedRowIsGranted == "retry" \notin AdminOps => (Spec => []CapturedIsGranted)
<1> SUFFICES ASSUME "retry" \notin AdminOps PROVE Spec => []CapturedIsGranted
  OBVIOUS
<1>1. Inv => CapturedIsGranted
  BY DEF Inv, RowsOK
<1> QED BY Invariance, <1>1, PTL

(* No race of captures, extensions and administrators hands out more time than *)
(* was paid for and given.                                                     *)
THEOREM PeriodIsBounded == Spec => []PeriodIsPaidFor
<1>1. Inv => PeriodIsPaidFor
  BY DEF Inv, MoneyOK, PeriodIsPaidFor, PaidUntil, Worth
<1> QED BY Invariance, <1>1, PTL

(* The plan guard lets nobody through who has never paid, or whose period has  *)
(* run out.                                                                    *)
THEOREM EntitlementIsPaid == Spec => []EntitledHasPaid
<1>1. Inv => EntitledHasPaid
  BY DEF Inv, MoneyOK, OrgRow, EntitledHasPaid, Entitled, Null
<1> QED BY Invariance, <1>1, PTL
=============================================================================
