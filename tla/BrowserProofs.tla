----------------------------- MODULE BrowserProofs -----------------------------
(***************************************************************************)
(* Machine-checked proofs about the browser, for any number of tabs,       *)
(* requests, checkouts, orders, accounts and faults: Onboarding, then the  *)
(* two parts of Browser, Sessions and Pages.                               *)
(***************************************************************************)
EXTENDS Onboarding, Browser, FiniteSetTheorems, TLAPS

-----------------------------------------------------------------------------
(* The invariant.                                                              *)

TabRecord ==
  [view : Views, tenant : Steps, loading : BOOLEAN, load : {"none", "sent", "read"},
   read : Steps, busy : BOOLEAN, submitting : BOOLEAN,
   sdk : {"none", "loading", "loaded", "failed"}]

TaskKinds == {"none", "resume", "refresh", "create", "details", "save", "free", "pay", "renew"}
Stages == {"idle", "sent", "writing", "answered", "creating", "ordered", "sdk", "modal",
           "verify", "verified", "refused"}

TaskRecord ==
  [kind : TaskKinds, tab : Tabs \cup {None}, own : BOOLEAN, stage : Stages,
   read : Steps, seen : Steps, plan : Plans \cup {None}, order : Orders \cup {0},
   pending : BOOLEAN]

(* A number of steps that a tab or a task took from the server is never ahead  *)
(* of the n steps that are there now, as far as the guards of the pages can    *)
(* tell.                                                                       *)
Behind(k, n) == k >= 2 => n >= 2

(* What a tab remembers when the server has n steps.  The second part is what  *)
(* the guards achieve: a page that is not loading shows a gated view only to   *)
(* an owner it takes for paid.                                                 *)
SoundTab(r, n) ==
  /\ Behind(r.tenant, n) /\ Behind(r.read, n)
  /\ ~r.loading /\ r.view \in Gated => r.tenant >= 2

(* A task when the server has n steps and has granted the orders of A.         *)
SoundTask(x, n, A) ==
  /\ Behind(x.read, n) /\ Behind(x.seen, n)
  /\ x.kind \in {"details", "save"} => n >= 2
  /\ x.stage = "writing" => x.kind \in {"details", "save"}
  /\ x.stage = "answered" => x.kind \notin {"pay", "renew"}
  /\ x.stage \in {"ordered", "sdk", "modal", "verify"} => x.order \in Orders
  /\ x.stage = "verified" => x.order \in A

TabsSound == \A t \in Tabs : SoundTab(tab[t], steps)
TasksSound == \A c \in Slots : SoundTask(task[c], steps, applied)

(* Until two requests have crossed, one request at most is between finding no  *)
(* open order of its plan and adding one, and none while such an order is open. *)
Creates(x, plan) == x.stage = "creating" /\ x.plan = plan
Waits(os, plans, o, plan) == os[o] = "CREATED" /\ plans[o] = plan

OneCheckout(ts, os, plans) ==
  \A plan \in Plans :
    /\ \A c, d \in Slots : Creates(ts[c], plan) /\ Creates(ts[d], plan) => c = d
    /\ \A o, p \in Orders : Waits(os, plans, o, plan) /\ Waits(os, plans, p, plan) => o = p
    /\ \A c \in Slots : \A o \in Orders :
         ~(Creates(ts[c], plan) /\ Waits(os, plans, o, plan))

(* Nothing is added to what creates an order, or to what waits.                *)
CreatesLess(us, ts) ==
  \A c \in Slots : us[c].stage = "creating" =>
                     ts[c].stage = "creating" /\ ts[c].plan = us[c].plan
WaitsLess(qs, os) == \A o \in Orders : qs[o] = "CREATED" => os[o] = "CREATED"

OneAtATime == ~crossed => OneCheckout(task, order, orderPlan)

Safe ==
  /\ TypeOK /\ TabsSound /\ TasksSound /\ OneAtATime
  /\ ActivationIsChosen /\ ToldIsGranted

-----------------------------------------------------------------------------
(* Records.                                                                    *)

Typed ==
  /\ steps \in Steps
  /\ order \in [Orders -> {"none", "CREATED", "FAILED", "CAPTURED"}]
  /\ orderPlan \in [Orders -> Plans \cup {None}]
  /\ tab \in [Tabs -> TabRecord] /\ task \in [Slots -> TaskRecord]

LEMMA TypedFromTypeOK == TypeOK => Typed
BY DEF TypeOK, Typed, TabRecord, TaskRecord, TaskKinds, Stages

LEMMA StepsTyped == 0 \in Steps /\ 1 \in Steps /\ 2 \in Steps /\ 3 \in Steps
BY DEF Steps

LEMMA AtLeastTyped ==
  ASSUME NEW a \in Steps, NEW b \in Steps, NEW n
  PROVE  /\ AtLeast(a, b) \in Steps
         /\ Behind(a, n) /\ Behind(b, n) => Behind(AtLeast(a, b), n)
BY DEF Steps, AtLeast, Behind

LEMMA IdleSound ==
  ASSUME NEW n, NEW A PROVE Idle \in TaskRecord /\ SoundTask(Idle, n, A)
BY OnboardingAssumption DEF Idle, TaskRecord, TaskKinds, Stages, Steps, SoundTask, Behind

LEMMA RouteTyped ==
  ASSUME NEW r \in TabRecord PROVE Route(r) \in Views
BY DEF Route, TabRecord, Views, Gated, Steps

(* The guards of the pages: a gated view is shown to an owner taken for paid.  *)
LEMMA RouteGuards ==
  ASSUME NEW r \in TabRecord, ~r.loading, Route(r) \in Gated PROVE r.tenant >= 2
BY DEF Route, TabRecord, Views, Gated, Steps

(* More steps and more granted orders leave what is remembered sound.          *)
LEMMA LaterTab ==
  ASSUME NEW r, NEW n, NEW m, SoundTab(r, n), Behind(n, m) PROVE SoundTab(r, m)
BY DEF SoundTab, Behind

LEMMA LaterTask ==
  ASSUME NEW x, NEW n, NEW m, NEW A, NEW B, SoundTask(x, n, A), Behind(n, m), A \subseteq B
  PROVE  SoundTask(x, m, B)
BY DEF SoundTask, Behind

LEMMA SingleLess ==
  ASSUME NEW ts, NEW os, NEW plans, NEW us, NEW qs, OneCheckout(ts, os, plans),
         CreatesLess(us, ts), WaitsLess(qs, os)
  PROVE  OneCheckout(us, qs, plans)
BY DEF OneCheckout, Creates, Waits, CreatesLess, WaitsLess

LEMMA LessOfLess ==
  ASSUME NEW ts, NEW us, NEW vs, CreatesLess(vs, us), CreatesLess(us, ts)
  PROVE  CreatesLess(vs, ts)
BY DEF CreatesLess

LEMMA SameIsLess ==
  ASSUME NEW ts, NEW os PROVE CreatesLess(ts, ts) /\ WaitsLess(os, os)
BY DEF CreatesLess, WaitsLess

-----------------------------------------------------------------------------
(* A task is replaced, the others stay.                                        *)

Replaced(ts, c, y, us) == us = [ts EXCEPT ![c] = y]
AllSound(ts, n, A) == \A d \in Slots : SoundTask(ts[d], n, A)

LEMMA ReplacedKept ==
  ASSUME NEW ts \in [Slots -> TaskRecord], NEW c \in Slots, NEW y, NEW us, NEW n, NEW m,
         NEW A, NEW B, Replaced(ts, c, y, us), AllSound(ts, n, A), SoundTask(y, m, B),
         Behind(n, m), A \subseteq B
  PROVE  AllSound(us, m, B)
<1> SUFFICES ASSUME NEW d \in Slots PROVE SoundTask(us[d], m, B)
  BY DEF AllSound
<1>1. us[c] = y /\ (d # c => us[d] = ts[d])
  BY DEF Replaced
<1>2. SoundTask(ts[d], m, B)
  BY LaterTask DEF AllSound
<1> QED BY <1>1, <1>2

LEMMA ReplacedSound ==
  ASSUME NEW ts \in [Slots -> TaskRecord], NEW c \in Slots, NEW y \in TaskRecord, NEW us,
         NEW n, NEW m, NEW A, NEW B, Replaced(ts, c, y, us),
         AllSound(ts, n, A),
         SoundTask(y, m, B), Behind(n, m), A \subseteq B
  PROVE  /\ us \in [Slots -> TaskRecord]
         /\ AllSound(us, m, B)
         /\ y.stage # "creating" => CreatesLess(us, ts)
<1>1. us \in [Slots -> TaskRecord]
  BY DEF Replaced
<1>2. us[c] = y /\ \A d \in Slots : d # c => us[d] = ts[d]
  BY DEF Replaced
<1>3. AllSound(us, m, B)
  BY ReplacedKept
<1>4. y.stage # "creating" => CreatesLess(us, ts)
  BY <1>2 DEF CreatesLess
<1> QED BY <1>1, <1>3, <1>4

(* A tab is shown: the guards route it, and its hooks may be left behind.      *)
Remembered(r, n) == Behind(r.tenant, n) /\ Behind(r.read, n)

LEMMA Shown ==
  ASSUME NEW t \in Tabs, NEW r \in TabRecord, NEW ts \in [Slots -> TaskRecord],
         NEW n, NEW A, tab \in [Tabs -> TabRecord], Show(t, r, ts),
         Remembered(r, n), \A u \in Tabs : SoundTab(tab[u], n),
         \A d \in Slots : SoundTask(ts[d], n, A)
  PROVE  /\ tab' \in [Tabs -> TabRecord] /\ task' \in [Slots -> TaskRecord]
         /\ \A u \in Tabs : SoundTab(tab'[u], n)
         /\ \A d \in Slots : SoundTask(task'[d], n, A)
         /\ CreatesLess(task', ts)
<1> DEFINE moved == Route(r) # tab[t].view
           q == [r EXCEPT !.view = Route(r),
                          !.busy = IF moved THEN FALSE ELSE r.busy,
                          !.submitting = IF moved THEN FALSE ELSE r.submitting]
<1>1. tab' = [tab EXCEPT ![t] = q]
  BY DEF Show
<1>2. task' = [d \in Slots |->
                 IF moved /\ ts[d].tab = t THEN [ts[d] EXCEPT !.own = FALSE] ELSE ts[d]]
  BY DEF Show
<1> HIDE DEF moved
<1>3. q \in TabRecord
  BY RouteTyped DEF TabRecord
<1>4. SoundTab(q, n)
  <2>1. q.tenant = r.tenant /\ q.read = r.read /\ q.loading = r.loading /\ q.view = Route(r)
    BY DEF TabRecord
  <2>2. ~r.loading /\ Route(r) \in Gated => r.tenant >= 2
    BY RouteGuards
  <2> QED BY <2>1, <2>2 DEF SoundTab, Remembered
<1>5. tab' \in [Tabs -> TabRecord] /\ \A u \in Tabs : SoundTab(tab'[u], n)
  BY <1>1, <1>3, <1>4
<1>6. ASSUME NEW d \in Slots
      PROVE  /\ task'[d] \in TaskRecord /\ SoundTask(task'[d], n, A)
             /\ task'[d].stage = ts[d].stage /\ task'[d].plan = ts[d].plan
  <2>1. task'[d] = ts[d] \/ task'[d] = [ts[d] EXCEPT !.own = FALSE]
    BY <1>2
  <2>2. ts[d] \in TaskRecord /\ SoundTask(ts[d], n, A)
    OBVIOUS
  <2>3. [ts[d] EXCEPT !.own = FALSE] \in TaskRecord
    BY <2>2 DEF TaskRecord
  <2>4. /\ SoundTask([ts[d] EXCEPT !.own = FALSE], n, A)
        /\ [ts[d] EXCEPT !.own = FALSE].stage = ts[d].stage
        /\ [ts[d] EXCEPT !.own = FALSE].plan = ts[d].plan
    BY <2>2 DEF TaskRecord, SoundTask
  <2> QED BY <2>1, <2>2, <2>3, <2>4
<1>7. task' \in [Slots -> TaskRecord]
  BY <1>2, <1>6
<1>8. CreatesLess(task', ts)
  BY <1>6 DEF CreatesLess
<1> QED BY <1>5, <1>6, <1>7, <1>8

(* A tab whose page stays where it is.                                         *)
Alike(q, r) ==
  q.view = r.view /\ q.tenant = r.tenant /\ q.loading = r.loading /\ q.read = r.read

LEMMA TabChanged ==
  ASSUME NEW t \in Tabs, NEW tabs \in [Tabs -> TabRecord], NEW q \in TabRecord, NEW us,
         NEW n, us = [tabs EXCEPT ![t] = q], Alike(q, tabs[t]),
         \A u \in Tabs : SoundTab(tabs[u], n)
  PROVE  us \in [Tabs -> TabRecord] /\ \A u \in Tabs : SoundTab(us[u], n)
<1>1. SoundTab(q, n)
  BY DEF Alike, SoundTab
<1> QED BY <1>1

-----------------------------------------------------------------------------
(* Steps of the browser leave the rows of the server alone, steps of the       *)
(* server what the tabs remember.                                              *)

BrowserKeeps ==
  /\ UNCHANGED <<steps, order, orderPlan, free, applied, crossed>>
  /\ paid' \subseteq Orders /\ begun' \in 0 .. MaxTasks /\ faults' \in 0 .. MaxFaults

LEMMA BrowserStep ==
  ASSUME Safe, BrowserKeeps,
         tab' \in [Tabs -> TabRecord], task' \in [Slots -> TaskRecord],
         \A u \in Tabs : SoundTab(tab'[u], steps),
         \A d \in Slots : SoundTask(task'[d], steps, applied),
         CreatesLess(task', task), told' \subseteq applied
  PROVE  Safe'
<1>1. TypeOK'
  BY DEF Safe, TypeOK, BrowserKeeps, TabRecord, TaskRecord, TaskKinds, Stages
<1>2. TabsSound' /\ TasksSound'
  BY DEF TabsSound, TasksSound, BrowserKeeps
<1>3. OneAtATime'
  <2>1. UNCHANGED <<crossed, order, orderPlan>>
    BY DEF BrowserKeeps
  <2>2. PICK ts, us, os, plans : ts = task /\ us = task' /\ os = order /\ plans = orderPlan
    OBVIOUS
  <2>3. ~crossed => OneCheckout(us, os, plans)
    BY <2>2, SingleLess, SameIsLess DEF Safe, OneAtATime
  <2> QED BY <2>1, <2>2, <2>3 DEF OneAtATime, OneCheckout, Creates, Waits
<1>4. ActivationIsChosen' /\ ToldIsGranted'
  BY DEF Safe, ActivationIsChosen, ToldIsGranted, BrowserKeeps
<1> QED BY <1>1, <1>2, <1>3, <1>4 DEF Safe

ServerKeeps ==
  /\ UNCHANGED <<tab, counters, told, paid>>
  /\ steps' \in Steps /\ Behind(steps, steps')
  /\ applied \subseteq applied' /\ applied' \subseteq Orders
  /\ order' \in [Orders -> {"none", "CREATED", "FAILED", "CAPTURED"}]
  /\ orderPlan' \in [Orders -> Plans \cup {None}]
  /\ free' \in BOOLEAN /\ crossed' \in BOOLEAN

LEMMA ServerStep ==
  ASSUME Safe, ServerKeeps, task' \in [Slots -> TaskRecord],
         \A d \in Slots : SoundTask(task'[d], steps', applied'),
         steps' >= 2 => free' \/ applied' # {},
         ~crossed' => OneCheckout(task', order', orderPlan')
  PROVE  Safe'
<1>1. TypeOK'
  BY DEF Safe, TypeOK, ServerKeeps, TaskRecord, TaskKinds, Stages, counters
<1>2. TabsSound'
  <2>1. \A t \in Tabs : SoundTab(tab[t], steps')
    BY LaterTab DEF Safe, TabsSound, ServerKeeps
  <2> QED BY <2>1 DEF TabsSound, ServerKeeps
<1>3. TasksSound' /\ ActivationIsChosen'
  BY DEF TasksSound, ActivationIsChosen
<1>4. OneAtATime'
  BY DEF OneAtATime, OneCheckout, Creates, Waits
<1>5. ToldIsGranted'
  BY DEF Safe, ToldIsGranted, ServerKeeps
<1> QED BY <1>1, <1>2, <1>3, <1>4, <1>5 DEF Safe

LEMMA SafeParts ==
  ASSUME Safe
  PROVE  /\ steps \in Steps /\ tab \in [Tabs -> TabRecord] /\ task \in [Slots -> TaskRecord]
         /\ order \in [Orders -> {"none", "CREATED", "FAILED", "CAPTURED"}]
         /\ orderPlan \in [Orders -> Plans \cup {None}]
         /\ begun \in 0 .. MaxTasks /\ faults \in 0 .. MaxFaults /\ paid \subseteq Orders
         /\ free \in BOOLEAN /\ crossed \in BOOLEAN /\ applied \subseteq Orders
         /\ told \subseteq applied
         /\ \A u \in Tabs : SoundTab(tab[u], steps)
         /\ \A d \in Slots : SoundTask(task[d], steps, applied)
BY TypedFromTypeOK DEF Safe, Typed, TypeOK, TabsSound, TasksSound, ToldIsGranted

(* The tasks of a step of the browser: one is replaced, which does not create. *)
LEMMA TaskReplaced ==
  ASSUME Safe, BrowserKeeps, NEW c \in Slots, NEW y \in TaskRecord,
         Replaced(task, c, y, task'), SoundTask(y, steps, applied), y.stage # "creating",
         tab' \in [Tabs -> TabRecord], \A u \in Tabs : SoundTab(tab'[u], steps),
         told' \subseteq applied
  PROVE  Safe'
<1>1. /\ task' \in [Slots -> TaskRecord]
      /\ \A d \in Slots : SoundTask(task'[d], steps, applied)
      /\ CreatesLess(task', task)
  <2>1. Behind(steps, steps) /\ applied \subseteq applied /\ AllSound(task, steps, applied)
    BY SafeParts DEF Behind, AllSound
  <2>2. /\ task' \in [Slots -> TaskRecord] /\ AllSound(task', steps, applied)
        /\ CreatesLess(task', task)
    BY <2>1, SafeParts, ReplacedSound
  <2> QED BY <2>2 DEF AllSound
<1> QED BY <1>1, BrowserStep

LEMMA OneMore ==
  ASSUME Safe
  PROVE  /\ begun < MaxTasks => begun + 1 \in 0 .. MaxTasks
         /\ faults < MaxFaults => faults + 1 \in 0 .. MaxFaults
<1>1. begun \in 0 .. MaxTasks /\ faults \in 0 .. MaxFaults
  BY SafeParts
<1> QED BY <1>1, OnboardingAssumption

-----------------------------------------------------------------------------
(* Pages.                                                                      *)

LEMMA ShowStep ==
  ASSUME Safe, BrowserKeeps, NEW t \in Tabs, NEW r \in TabRecord,
         NEW ts \in [Slots -> TaskRecord], Show(t, r, ts), Remembered(r, steps),
         \A d \in Slots : SoundTask(ts[d], steps, applied),
         CreatesLess(ts, task), told' \subseteq applied
  PROVE  Safe'
<1>1. tab \in [Tabs -> TabRecord] /\ \A u \in Tabs : SoundTab(tab[u], steps)
  BY SafeParts
<1>2. /\ tab' \in [Tabs -> TabRecord] /\ task' \in [Slots -> TaskRecord]
      /\ \A u \in Tabs : SoundTab(tab'[u], steps)
      /\ \A d \in Slots : SoundTask(task'[d], steps, applied)
      /\ CreatesLess(task', ts)
  BY <1>1, Shown
<1> QED BY <1>2, LessOfLess, BrowserStep

LEMMA NavigateKeeps ==
  ASSUME Safe, NEW t \in Tabs, NEW v \in Views, Navigate(t, v) PROVE Safe'
<1>1. PICK r : r = [tab[t] EXCEPT !.view = v]
  OBVIOUS
<1>2. tab[t] \in TabRecord /\ SoundTab(tab[t], steps)
  BY SafeParts
<1>3. r \in TabRecord /\ Remembered(r, steps)
  BY <1>1, <1>2 DEF TabRecord, SoundTab, Remembered
<1>4. Show(t, r, task)
  BY <1>1 DEF Navigate
<1>5. BrowserKeeps /\ told' = told
  BY SafeParts DEF BrowserKeeps, Navigate, server, counters
<1> QED BY <1>3, <1>4, <1>5, SafeParts, SameIsLess, ShowStep

LEMMA LoadAnswersKeeps ==
  ASSUME Safe, NEW t \in Tabs, LoadAnswers(t) PROVE Safe'
<1>1. PICK r : r = [tab[t] EXCEPT !.tenant = tab[t].read, !.loading = FALSE,
                                  !.load = "none", !.read = 0]
  OBVIOUS
<1>2. tab[t] \in TabRecord /\ SoundTab(tab[t], steps)
  BY SafeParts
<1>3. r \in TabRecord /\ r.tenant = tab[t].read /\ r.read = 0
  BY <1>1, <1>2, StepsTyped DEF TabRecord
<1>4. Remembered(r, steps)
  BY <1>2, <1>3 DEF SoundTab, Remembered, Behind
<1>5. Show(t, r, task)
  BY <1>1 DEF LoadAnswers
<1>6. BrowserKeeps /\ told' = told
  BY SafeParts DEF BrowserKeeps, LoadAnswers, server, counters
<1> QED BY <1>3, <1>4, <1>5, <1>6, SafeParts, SameIsLess, ShowStep

LEMMA LoadFailsKeeps ==
  ASSUME Safe, NEW t \in Tabs, LoadFails(t) PROVE Safe'
<1>1. PICK r : r = [tab[t] EXCEPT !.tenant = 0, !.loading = FALSE, !.load = "none",
                                  !.read = 0]
  OBVIOUS
<1>2. tab[t] \in TabRecord
  BY SafeParts
<1>3. r \in TabRecord /\ r.tenant = 0 /\ r.read = 0
  BY <1>1, <1>2, StepsTyped DEF TabRecord
<1>4. Remembered(r, steps)
  BY <1>3 DEF Remembered, Behind
<1>5. Show(t, r, task)
  BY <1>1 DEF LoadFails
<1>6. BrowserKeeps /\ told' = told
  BY SafeParts, OnboardingAssumption DEF BrowserKeeps, LoadFails, server, counters
<1> QED BY <1>3, <1>4, <1>5, <1>6, SafeParts, SameIsLess, ShowStep

(* The loading page reads what is there.                                       *)
LEMMA LoadReadsKeeps ==
  ASSUME Safe, NEW t \in Tabs, LoadReads(t) PROVE Safe'
<1>1. PICK r : r = [tab[t] EXCEPT !.load = "read", !.read = steps]
  OBVIOUS
<1>2. tab[t] \in TabRecord /\ SoundTab(tab[t], steps) /\ steps \in Steps
  BY SafeParts
<1>3. /\ r \in TabRecord /\ r.tenant = tab[t].tenant /\ r.read = steps
      /\ r.loading = tab[t].loading /\ r.view = tab[t].view
  BY <1>1, <1>2 DEF TabRecord
<1>4. SoundTab(r, steps)
  BY <1>2, <1>3 DEF SoundTab, Behind
<1>5. tab' = [tab EXCEPT ![t] = r]
  BY <1>1, SafeParts DEF LoadReads
<1>6. tab' \in [Tabs -> TabRecord] /\ \A u \in Tabs : SoundTab(tab'[u], steps)
  BY <1>3, <1>4, <1>5, SafeParts
<1>7. BrowserKeeps /\ told' = told /\ task' = task
  BY SafeParts DEF BrowserKeeps, LoadReads, server, counters
<1> QED BY <1>6, <1>7, SafeParts, SameIsLess, BrowserStep

LEMMA ReloadKeeps ==
  ASSUME Safe, NEW t \in Tabs, Reload(t) PROVE Safe'
<1>1. Fresh \in TabRecord /\ SoundTab(Fresh, steps)
  BY DEF Fresh, TabRecord, Views, Steps, SoundTab, Behind
<1>2. tab' \in [Tabs -> TabRecord] /\ \A u \in Tabs : SoundTab(tab'[u], steps)
  BY <1>1, SafeParts DEF Reload
<1>3. ASSUME NEW d \in Slots
      PROVE  /\ task'[d] \in TaskRecord /\ SoundTask(task'[d], steps, applied)
             /\ task'[d].stage = "creating" =>
                  task[d].stage = "creating" /\ task[d].plan = task'[d].plan
  <2>1. PICK y : y = [task[d] EXCEPT !.tab = None, !.own = FALSE, !.pending = FALSE]
    OBVIOUS
  <2>2. task'[d] \in {task[d], y, Idle}
    BY <2>1 DEF Reload
  <2>3. task[d] \in TaskRecord /\ SoundTask(task[d], steps, applied)
    BY SafeParts
  <2>4. /\ y \in TaskRecord /\ y.kind = task[d].kind /\ y.stage = task[d].stage
        /\ y.read = task[d].read /\ y.seen = task[d].seen /\ y.order = task[d].order
        /\ y.plan = task[d].plan
    BY <2>1, <2>3 DEF TaskRecord
  <2>5. SoundTask(y, steps, applied)
    BY <2>3, <2>4 DEF SoundTask
  <2>6. Idle.stage # "creating"
    BY DEF Idle
  <2> QED BY <2>2, <2>3, <2>4, <2>5, <2>6, IdleSound
<1>4. task' \in [Slots -> TaskRecord]
  BY <1>3 DEF Reload
<1>5. CreatesLess(task', task)
  BY <1>3 DEF CreatesLess
<1>6. begun' \in 0 .. MaxTasks
  BY OneMore DEF Reload
<1>7. BrowserKeeps /\ told' = told
  BY <1>6, SafeParts DEF BrowserKeeps, Reload, server
<1> QED BY <1>2, <1>3, <1>4, <1>5, <1>7, SafeParts, BrowserStep

-----------------------------------------------------------------------------
(* Requests of forms.                                                          *)

(* Where a form stands: its tab shows a gated view, or the form does not write *)
(* the details.                                                                *)
LEMMA BeganSound ==
  ASSUME Safe, NEW c \in Slots, NEW t \in Tabs, NEW k \in TaskKinds \ {"none"},
         NEW plan \in Plans \cup {None}, k \in {"details", "save"} => steps >= 2
  PROVE  \E y \in TaskRecord :
           /\ Replaced(task, c, y, Began(c, t, k, plan)) /\ SoundTask(y, steps, applied)
           /\ y.stage # "creating"
<1>1. PICK y : y = [Idle EXCEPT !.kind = k, !.tab = t, !.own = k # "refresh",
                                !.stage = "sent", !.seen = tab[t].tenant, !.plan = plan,
                                !.pending = TRUE]
  OBVIOUS
<1>2. tab[t] \in TabRecord /\ SoundTab(tab[t], steps)
  BY SafeParts
<1>3. y = [kind |-> k, tab |-> t, own |-> k # "refresh", stage |-> "sent", read |-> 0,
           seen |-> tab[t].tenant, plan |-> plan, order |-> 0, pending |-> TRUE]
  BY <1>1 DEF Idle
<1>4. y \in TaskRecord
  BY <1>2, <1>3, StepsTyped DEF TaskRecord, TaskKinds, Stages, TabRecord
<1>5. SoundTask(y, steps, applied) /\ y.stage # "creating"
  BY <1>2, <1>3 DEF SoundTask, SoundTab, Behind
<1>6. Replaced(task, c, y, Began(c, t, k, plan))
  BY <1>1 DEF Replaced, Began
<1> QED BY <1>4, <1>5, <1>6

(* The guards stand behind a form of the details: it is shown only to an owner *)
(* the tab takes for paid, and no tab is ahead of the server.                  *)
LEMMA GatedIsBacked ==
  ASSUME Safe, NEW t \in Tabs, ~tab[t].loading, tab[t].view \in Gated PROVE steps >= 2
BY SafeParts DEF SoundTab, Behind

LEMMA StartFormKeeps ==
  ASSUME Safe, NEW t \in Tabs, NEW c \in Slots,
         NEW k \in {"create", "resume", "details", "save", "refresh"}, StartForm(c, t, k)
  PROVE  Safe'
<1>1. k \in {"details", "save"} => steps >= 2
  BY GatedIsBacked DEF StartForm, Gated
<1>2. PICK y \in TaskRecord :
        /\ Replaced(task, c, y, Began(c, t, k, None)) /\ SoundTask(y, steps, applied)
        /\ y.stage # "creating"
  BY <1>1, BeganSound DEF TaskKinds
<1>3. Replaced(task, c, y, task')
  BY <1>2 DEF StartForm, Replaced
<1>4. BrowserKeeps /\ told' = told /\ tab' = tab
  BY SafeParts, OneMore DEF BrowserKeeps, StartForm, server
<1> QED BY <1>2, <1>3, <1>4, SafeParts, TaskReplaced

(* Served and ServedWith as replacements.                                      *)
At(x, stage) == [x EXCEPT !.stage = stage]
AtWith(x, stage, n) == [x EXCEPT !.stage = stage, !.read = n]

LEMMA ServedReplaces ==
  ASSUME NEW c \in Slots, task \in [Slots -> TaskRecord], NEW stage
  PROVE  /\ Served(c, stage) => Replaced(task, c, At(task[c], stage), task')
         /\ \A n : ServedWith(c, stage, n) =>
              Replaced(task, c, AtWith(task[c], stage, n), task')
BY DEF Served, ServedWith, At, AtWith, Replaced

LEMMA AtTyped ==
  ASSUME NEW x \in TaskRecord, NEW stage \in Stages, NEW y, y = At(x, stage)
  PROVE  /\ y \in TaskRecord /\ y.stage = stage /\ y.kind = x.kind
         /\ y.read = x.read /\ y.seen = x.seen /\ y.order = x.order /\ y.plan = x.plan
BY DEF At, TaskRecord

LEMMA AtWithTyped ==
  ASSUME NEW x \in TaskRecord, NEW stage \in Stages, NEW n \in Steps, NEW y,
         y = AtWith(x, stage, n)
  PROVE  /\ y \in TaskRecord /\ y.stage = stage /\ y.kind = x.kind
         /\ y.read = n /\ y.seen = x.seen /\ y.order = x.order
BY DEF AtWith, TaskRecord

LEMMA ReadOrganizationKeeps ==
  ASSUME Safe, NEW c \in Slots, ReadOrganization(c) PROVE Safe'
<1>1. PICK y : y = AtWith(task[c], "answered", steps)
  OBVIOUS
<1>2. Replaced(task, c, y, task')
  BY <1>1, SafeParts, ServedReplaces DEF ReadOrganization
<1>3. task[c] \in TaskRecord /\ SoundTask(task[c], steps, applied) /\ steps \in Steps
  BY SafeParts
<1>4. /\ y \in TaskRecord /\ y.stage = "answered" /\ y.kind = task[c].kind
      /\ y.read = steps /\ y.seen = task[c].seen
  <2>1. "answered" \in Stages
    BY DEF Stages
  <2> QED BY <1>1, <1>3, <2>1, AtWithTyped
<1>5. SoundTask(y, steps, applied)
  BY <1>3, <1>4 DEF SoundTask, ReadOrganization, Behind
<1>6. BrowserKeeps /\ told' = told /\ tab' = tab
  BY SafeParts DEF BrowserKeeps, ReadOrganization, server, counters
<1> QED BY <1>2, <1>4, <1>5, <1>6, SafeParts, TaskReplaced

LEMMA ReadForDetailsKeeps ==
  ASSUME Safe, NEW c \in Slots, ReadForDetails(c) PROVE Safe'
<1>1. PICK y : y = AtWith(task[c], "writing", steps)
  OBVIOUS
<1>2. Replaced(task, c, y, task')
  BY <1>1, SafeParts, ServedReplaces DEF ReadForDetails
<1>3. task[c] \in TaskRecord /\ SoundTask(task[c], steps, applied) /\ steps \in Steps
  BY SafeParts
<1>4. /\ y \in TaskRecord /\ y.stage = "writing" /\ y.kind = task[c].kind
      /\ y.read = steps /\ y.seen = task[c].seen
  <2>1. "writing" \in Stages
    BY DEF Stages
  <2> QED BY <1>1, <1>3, <2>1, AtWithTyped
<1>5. SoundTask(y, steps, applied)
  BY <1>3, <1>4 DEF SoundTask, ReadForDetails, Behind
<1>6. BrowserKeeps /\ told' = told /\ tab' = tab
  BY SafeParts DEF BrowserKeeps, ReadForDetails, server, counters
<1> QED BY <1>2, <1>4, <1>5, <1>6, SafeParts, TaskReplaced

(* A task that ends.                                                           *)
LEMMA Ends ==
  ASSUME Safe, BrowserKeeps, NEW c \in Slots, task' = [task EXCEPT ![c] = Idle],
         tab' \in [Tabs -> TabRecord], \A u \in Tabs : SoundTab(tab'[u], steps), told' = told
  PROVE  Safe'
<1>1. Replaced(task, c, Idle, task') /\ Idle \in TaskRecord /\ SoundTask(Idle, steps, applied)
  BY IdleSound DEF Replaced
<1>2. Idle.stage # "creating"
  BY DEF Idle
<1> QED BY <1>1, <1>2, SafeParts, TaskReplaced

LEMMA RequestFailsKeeps ==
  ASSUME Safe, NEW c \in Slots, RequestFails(c) PROVE Safe'
<1>1. BrowserKeeps /\ told' = told /\ tab' = tab
  BY SafeParts, OneMore DEF BrowserKeeps, RequestFails, server
<1> QED BY <1>1, SafeParts, Ends DEF RequestFails

LEMMA ForgottenKeeps ==
  ASSUME Safe, NEW c \in Slots, Forgotten(c) PROVE Safe'
<1>1. BrowserKeeps /\ told' = told /\ tab' = tab
  BY SafeParts DEF BrowserKeeps, Forgotten, server, counters
<1> QED BY <1>1, SafeParts, Ends DEF Forgotten

(* The tasks without the one that is answered.                                 *)
LEMMA WithoutTask ==
  ASSUME Safe, NEW c \in Slots, NEW ts, ts = [task EXCEPT ![c] = Idle]
  PROVE  /\ ts \in [Slots -> TaskRecord]
         /\ \A d \in Slots : SoundTask(ts[d], steps, applied)
         /\ CreatesLess(ts, task)
<1>1. Idle \in TaskRecord /\ SoundTask(Idle, steps, applied) /\ Idle.stage # "creating"
  BY IdleSound DEF Idle
<1>2. /\ task \in [Slots -> TaskRecord]
      /\ \A d \in Slots : SoundTask(task[d], steps, applied)
  BY SafeParts
<1>3. ts[c] = Idle /\ \A d \in Slots : d # c => ts[d] = task[d]
  BY <1>2
<1>4. ts \in [Slots -> TaskRecord]
  BY <1>1, <1>2
<1>5. \A d \in Slots : SoundTask(ts[d], steps, applied)
  BY <1>1, <1>2, <1>3
<1> QED BY <1>1, <1>3, <1>4, <1>5 DEF CreatesLess

LEMMA AnsweredKeeps ==
  ASSUME Safe, NEW c \in Slots, Answered(c) PROVE Safe'
<1>1. PICK ts : ts = [task EXCEPT ![c] = Idle]
  OBVIOUS
<1>2. PICK t \in Tabs : t = task[c].tab
  BY SafeParts DEF Answered, TaskRecord
<1>3. PICK r : r = tab[t]
  OBVIOUS
<1>4. r \in TabRecord /\ SoundTab(r, steps) /\ task[c] \in TaskRecord
      /\ SoundTask(task[c], steps, applied)
  BY <1>3, SafeParts
<1>5. PICK m : m = AtLeast(task[c].seen, 2)
  OBVIOUS
<1>6. m \in Steps
  BY <1>4, <1>5, StepsTyped, AtLeastTyped DEF TaskRecord
<1>7. \E q \in TabRecord : Remembered(q, steps) /\ Show(t, q, ts)
  <2>1. ASSUME NEW n \in Steps, Behind(n, steps), NEW v \in Views
        PROVE  /\ [r EXCEPT !.tenant = n] \in TabRecord
               /\ [r EXCEPT !.tenant = n, !.view = v] \in TabRecord
               /\ Remembered([r EXCEPT !.tenant = n], steps)
               /\ Remembered([r EXCEPT !.tenant = n, !.view = v], steps)
    BY <1>4, <2>1 DEF TabRecord, Remembered, SoundTab
  <2>2. Remembered(r, steps)
    BY <1>4 DEF Remembered, SoundTab
  <2>3. CASE task[c].kind = "create" /\ Show(t, [r EXCEPT !.tenant = 1], ts)
    <3>1. Behind(1, steps)
      BY DEF Behind
    <3> QED BY <2>1, <2>3, <3>1, StepsTyped DEF Views
  <2>4. CASE Show(t, [r EXCEPT !.tenant = task[c].read], ts)
    <3>1. Behind(task[c].read, steps) /\ task[c].read \in Steps
      BY <1>4 DEF SoundTask, TaskRecord
    <3> QED BY <2>1, <2>4, <3>1 DEF Views
  <2>5. CASE Show(t, r, ts)
    BY <1>4, <2>2, <2>5
  <2>6. CASE /\ task[c].kind = "details"
             /\ Show(t, [r EXCEPT !.tenant = m, !.view = "overview"], ts)
    <3>1. Behind(m, steps)
      BY <1>4, <2>6 DEF SoundTask, Behind
    <3> QED BY <1>6, <2>1, <2>6, <3>1 DEF Views
  <2>7. CASE task[c].kind = "save" /\ Show(t, [r EXCEPT !.tenant = 2], ts)
    <3>1. Behind(2, steps)
      BY <1>4, <2>7 DEF SoundTask, Behind
    <3> QED BY <2>1, <2>7, <3>1, StepsTyped DEF Views
  <2> QED BY <1>1, <1>2, <1>3, <1>5, <2>3, <2>4, <2>5, <2>6, <2>7 DEF Answered
<1>8. BrowserKeeps /\ told' = told
  BY SafeParts DEF BrowserKeeps, Answered, server, counters
<1>9. /\ ts \in [Slots -> TaskRecord] /\ \A d \in Slots : SoundTask(ts[d], steps, applied)
      /\ CreatesLess(ts, task)
  BY <1>1, WithoutTask
<1> QED BY <1>7, <1>8, <1>9, SafeParts, ShowStep

-----------------------------------------------------------------------------
(* The checkout, in the browser.                                               *)

(* A flag of tab t changes: its page stays where it is.                        *)
LEMMA Flagged ==
  ASSUME Safe, NEW t \in Tabs, NEW b \in BOOLEAN, NEW s \in BOOLEAN,
         NEW k \in {"none", "loading", "loaded", "failed"}, NEW us,
         us = [tab EXCEPT ![t] = [tab[t] EXCEPT !.busy = b, !.submitting = s, !.sdk = k]]
  PROVE  us \in [Tabs -> TabRecord] /\ \A u \in Tabs : SoundTab(us[u], steps)
<1>1. PICK q : q = [tab[t] EXCEPT !.busy = b, !.submitting = s, !.sdk = k]
  OBVIOUS
<1>2. /\ tab \in [Tabs -> TabRecord] /\ tab[t] \in TabRecord
      /\ \A u \in Tabs : SoundTab(tab[u], steps)
  BY SafeParts
<1>3. q \in TabRecord /\ Alike(q, tab[t])
  BY <1>1, <1>2 DEF TabRecord, Alike
<1>4. us = [tab EXCEPT ![t] = q]
  BY <1>1
<1> QED BY <1>2, <1>3, <1>4, TabChanged

LEMMA FlagsKept ==
  ASSUME Safe, NEW t \in Tabs
  PROVE  /\ tab[t].busy \in BOOLEAN /\ tab[t].submitting \in BOOLEAN
         /\ tab[t].sdk \in {"none", "loading", "loaded", "failed"}
         /\ tab \in [Tabs -> TabRecord] /\ tab[t] \in TabRecord
BY SafeParts DEF TabRecord

LEMMA StartCheckoutKeeps ==
  ASSUME Safe, NEW t \in Tabs, NEW c \in Slots, NEW k \in Checkouts, StartCheckout(c, t, k)
  PROVE  Safe'
<1>0. PICK plan \in Plans \cup {None} : task' = Began(c, t, k, plan)
  BY DEF StartCheckout
<1>1. PICK y \in TaskRecord :
        /\ Replaced(task, c, y, Began(c, t, k, plan)) /\ SoundTask(y, steps, applied)
        /\ y.stage # "creating"
  BY BeganSound DEF TaskKinds, Checkouts
<1>2. Replaced(task, c, y, task')
  BY <1>0, <1>1 DEF Replaced
<1>3. tab' = [tab EXCEPT ![t] = [tab[t] EXCEPT !.busy = TRUE, !.submitting = TRUE,
                                               !.sdk = tab[t].sdk]]
  BY FlagsKept DEF StartCheckout, TabRecord
<1>4. tab' \in [Tabs -> TabRecord] /\ \A u \in Tabs : SoundTab(tab'[u], steps)
  BY <1>3, FlagsKept, Flagged
<1>5. BrowserKeeps /\ told' = told
  BY SafeParts, OneMore DEF BrowserKeeps, StartCheckout, server
<1> QED BY <1>1, <1>2, <1>4, <1>5, SafeParts, TaskReplaced

LEMMA SdkKeeps ==
  ASSUME Safe, NEW t \in Tabs, SdkLoads(t) \/ SdkFails(t) PROVE Safe'
<1>1. PICK k \in {"loaded", "failed"} : tab' = [tab EXCEPT ![t].sdk = k]
  BY DEF SdkLoads, SdkFails
<1>2. tab' = [tab EXCEPT ![t] = [tab[t] EXCEPT !.busy = tab[t].busy,
                                               !.submitting = tab[t].submitting, !.sdk = k]]
  BY <1>1, FlagsKept DEF TabRecord
<1>3. tab' \in [Tabs -> TabRecord] /\ \A u \in Tabs : SoundTab(tab'[u], steps)
  BY <1>2, FlagsKept, Flagged
<1>4. BrowserKeeps /\ told' = told /\ task' = task
  BY SafeParts, OneMore DEF BrowserKeeps, SdkLoads, SdkFails, server, counters
<1> QED BY <1>3, <1>4, SafeParts, SameIsLess, BrowserStep

(* A checkout goes on to a stage in which it holds its order.                  *)
LEMMA HoldsOrder ==
  ASSUME Safe, NEW c \in Slots, NEW stage \in {"sdk", "modal", "verify"},
         task[c].order \in Orders, Served(c, stage), BrowserKeeps,
         tab' \in [Tabs -> TabRecord], \A u \in Tabs : SoundTab(tab'[u], steps), told' = told
  PROVE  Safe'
<1>1. PICK y : y = At(task[c], stage)
  OBVIOUS
<1>2. Replaced(task, c, y, task')
  BY <1>1, SafeParts, ServedReplaces
<1>3. task[c] \in TaskRecord /\ SoundTask(task[c], steps, applied) /\ stage \in Stages
  BY SafeParts DEF Stages
<1>4. /\ y \in TaskRecord /\ y.stage = stage /\ y.kind = task[c].kind
      /\ y.read = task[c].read /\ y.seen = task[c].seen /\ y.order = task[c].order
  BY <1>1, <1>3, AtTyped
<1>5. SoundTask(y, steps, applied) /\ y.stage # "creating"
  BY <1>3, <1>4 DEF SoundTask
<1> QED BY <1>2, <1>4, <1>5, SafeParts, TaskReplaced

LEMMA OrderHeld ==
  ASSUME Safe, NEW c \in Slots, task[c].stage \in {"ordered", "sdk", "modal", "verify"}
  PROVE  task[c].order \in Orders
BY SafeParts DEF SoundTask

LEMMA AwaitSdkKeeps ==
  ASSUME Safe, NEW c \in Slots, AwaitSdk(c) PROVE Safe'
<1>1. PICK t \in Tabs : t = task[c].tab
  BY SafeParts DEF AwaitSdk, TaskRecord
<1>2. PICK k \in {"none", "loading", "loaded", "failed"} :
        tab' = [tab EXCEPT ![t].sdk = k]
  <2>1. tab' = [tab EXCEPT ![t].sdk = IF @ = "none" THEN "loading" ELSE @]
    BY <1>1 DEF AwaitSdk
  <2> QED BY <2>1, FlagsKept
<1>3. tab' = [tab EXCEPT ![t] = [tab[t] EXCEPT !.busy = tab[t].busy,
                                               !.submitting = tab[t].submitting, !.sdk = k]]
  BY <1>2, FlagsKept DEF TabRecord
<1>4. tab' \in [Tabs -> TabRecord] /\ \A u \in Tabs : SoundTab(tab'[u], steps)
  BY <1>3, FlagsKept, Flagged
<1>5. BrowserKeeps /\ told' = told
  BY SafeParts DEF BrowserKeeps, AwaitSdk, server, counters
<1> QED BY <1>4, <1>5, OrderHeld, HoldsOrder DEF AwaitSdk

LEMMA OpenModalKeeps ==
  ASSUME Safe, NEW c \in Slots, OpenModal(c) PROVE Safe'
<1>1. BrowserKeeps /\ told' = told /\ tab' = tab
  BY SafeParts DEF BrowserKeeps, OpenModal, server, counters
<1> QED BY <1>1, SafeParts, OrderHeld, HoldsOrder DEF OpenModal

LEMMA PayKeeps ==
  ASSUME Safe, NEW c \in Slots, Pay(c) PROVE Safe'
<1>1. task[c].order \in Orders
  BY OrderHeld DEF Pay
<1>2. tab' \in [Tabs -> TabRecord] /\ \A u \in Tabs : SoundTab(tab'[u], steps)
  <2>1. CASE tab' = tab
    BY <2>1, SafeParts
  <2>2. CASE task[c].tab \in Tabs /\ tab' = [tab EXCEPT ![task[c].tab].submitting = TRUE]
    <3>1. PICK t \in Tabs : t = task[c].tab
      BY <2>2
    <3>2. tab' = [tab EXCEPT ![t] = [tab[t] EXCEPT !.busy = tab[t].busy,
                                       !.submitting = TRUE, !.sdk = tab[t].sdk]]
      BY <2>2, <3>1, FlagsKept DEF TabRecord
    <3> QED BY <3>2, FlagsKept, Flagged
  <2>3. task[c].tab \notin Tabs => [tab EXCEPT ![task[c].tab].submitting = TRUE] = tab
    BY SafeParts
  <2> QED BY <2>1, <2>2, <2>3 DEF Pay
<1>3. BrowserKeeps /\ told' = told
  BY <1>1, SafeParts DEF BrowserKeeps, Pay, counters
<1> QED BY <1>1, <1>2, <1>3, HoldsOrder DEF Pay

(* A promise that is rejected releases its page, and ends or keeps its task.   *)
LEMMA RejectedKeeps ==
  ASSUME Safe, BrowserKeeps, NEW c \in Slots, NEW kept \in BOOLEAN, Rejected(c, kept),
         told' = told, kept => task[c].stage = "modal"
  PROVE  Safe'
<1>1. tab' \in [Tabs -> TabRecord] /\ \A u \in Tabs : SoundTab(tab'[u], steps)
  <2>1. CASE tab' = tab
    BY <2>1, SafeParts
  <2>2. CASE /\ task[c].tab \in Tabs
             /\ tab' = [tab EXCEPT ![task[c].tab].busy = FALSE,
                                   ![task[c].tab].submitting = FALSE]
    <3>1. PICK t \in Tabs : t = task[c].tab
      BY <2>2
    <3>2. tab' = [tab EXCEPT ![t] = [tab[t] EXCEPT !.busy = FALSE, !.submitting = FALSE,
                                                   !.sdk = tab[t].sdk]]
      BY <2>2, <3>1, FlagsKept DEF TabRecord
    <3> QED BY <3>2, FlagsKept, Flagged
  <2>3. task[c].tab \notin Tabs =>
          [tab EXCEPT ![task[c].tab].busy = FALSE, ![task[c].tab].submitting = FALSE] = tab
    BY SafeParts
  <2> QED BY <2>1, <2>2, <2>3 DEF Rejected, Released
<1>2. PICK y : y = IF kept THEN [task[c] EXCEPT !.pending = FALSE] ELSE Idle
  OBVIOUS
<1>3. Replaced(task, c, y, task')
  BY <1>2, SafeParts DEF Rejected, Replaced
<1>4. y \in TaskRecord /\ SoundTask(y, steps, applied) /\ y.stage # "creating"
  <2>1. CASE ~kept
    BY <1>2, <2>1, IdleSound DEF Idle
  <2>2. CASE kept
    <3>1. task[c] \in TaskRecord /\ SoundTask(task[c], steps, applied)
      BY SafeParts
    <3>2. /\ y \in TaskRecord /\ y.stage = "modal" /\ y.kind = task[c].kind
          /\ y.read = task[c].read /\ y.seen = task[c].seen /\ y.order = task[c].order
      BY <1>2, <2>2, <3>1 DEF TaskRecord
    <3> QED BY <2>2, <3>1, <3>2 DEF SoundTask
  <2> QED BY <2>1, <2>2
<1> QED BY <1>1, <1>3, <1>4, SafeParts, TaskReplaced

LEMMA CheckoutFailsKeeps ==
  ASSUME Safe, NEW c \in Slots, CheckoutFails(c) PROVE Safe'
<1>1. BrowserKeeps /\ told' = told
  BY SafeParts, OneMore DEF BrowserKeeps, CheckoutFails, server
<1> QED BY <1>1, RejectedKeeps DEF CheckoutFails

LEMMA DismissKeeps ==
  ASSUME Safe, NEW c \in Slots, Dismiss(c) PROVE Safe'
<1>1. BrowserKeeps /\ told' = told
  BY SafeParts DEF BrowserKeeps, Dismiss, server, counters
<1> QED BY <1>1, RejectedKeeps DEF Dismiss

LEMMA PaymentFailsKeeps ==
  ASSUME Safe, NEW c \in Slots, PaymentFails(c) PROVE Safe'
<1>1. BrowserKeeps /\ told' = told
  BY SafeParts DEF BrowserKeeps, PaymentFails, server, counters
<1> QED BY <1>1, RejectedKeeps DEF PaymentFails

(* The page takes the steps of the answer or of the closure, whichever is      *)
(* greater: neither is ahead of the server.  A page that reports a payment     *)
(* holds an order that was granted.                                            *)
LEMMA ResolvedKeeps ==
  ASSUME Safe, NEW c \in Slots, Resolved(c) PROVE Safe'
<1>1. PICK ts : ts = [task EXCEPT ![c] = Idle]
  OBVIOUS
<1>2. PICK t \in Tabs : t = task[c].tab
  BY SafeParts DEF Resolved, TaskRecord
<1>3. /\ tab[t] \in TabRecord /\ SoundTab(tab[t], steps)
      /\ task[c] \in TaskRecord /\ SoundTask(task[c], steps, applied)
  BY SafeParts
<1>4. PICK b \in BOOLEAN, s \in BOOLEAN :
        /\ b = (IF task[c].own THEN FALSE ELSE tab[t].busy)
        /\ s = (IF task[c].own THEN FALSE ELSE tab[t].submitting)
  BY FlagsKept
<1>5. PICK r : r = [tab[t] EXCEPT !.busy = b, !.submitting = s]
  OBVIOUS
<1>6. r \in TabRecord /\ r.tenant = tab[t].tenant /\ r.read = tab[t].read
  BY <1>3, <1>5 DEF TabRecord
<1>7. PICK m : m = AtLeast(task[c].seen, task[c].read)
  OBVIOUS
<1>8. m \in Steps /\ Behind(m, steps)
  <2>1. /\ task[c].seen \in Steps /\ task[c].read \in Steps
        /\ Behind(task[c].seen, steps) /\ Behind(task[c].read, steps)
    BY <1>3 DEF TaskRecord, SoundTask
  <2> QED BY <1>7, <2>1, AtLeastTyped
<1>9. PICK q : q = [r EXCEPT !.tenant = m, !.view = "details"]
  OBVIOUS
<1>10. q \in TabRecord /\ Remembered(q, steps) /\ Remembered(r, steps)
  <2>1. "details" \in Views
    BY DEF Views, Gated
  <2>2. q \in TabRecord /\ q.tenant = m /\ q.read = tab[t].read
    BY <1>6, <1>8, <1>9, <2>1 DEF TabRecord
  <2> QED BY <1>3, <1>6, <1>8, <2>2 DEF Remembered, SoundTab
<1>11. told' \subseteq applied
  <2>1. \/ told' = told
        \/ told' = told \cup {task[c].order} /\ task[c].kind # "free"
    BY DEF Resolved
  <2>2. CASE told' = told \cup {task[c].order} /\ task[c].kind # "free"
    <3>1. task[c].stage = "verified"
      BY <1>3, <2>2 DEF Resolved, Checkouts, SoundTask
    <3> QED BY <1>3, <2>2, <3>1, SafeParts DEF SoundTask
  <2> QED BY <2>1, <2>2, SafeParts
<1>12. BrowserKeeps
  BY SafeParts DEF BrowserKeeps, Resolved, server, counters
<1>13. /\ ts \in [Slots -> TaskRecord] /\ \A d \in Slots : SoundTask(ts[d], steps, applied)
       /\ CreatesLess(ts, task)
  BY <1>1, WithoutTask
<1>14. Show(t, q, ts) \/ Show(t, r, ts) \/ (tab' = tab /\ task' = ts)
  <2>1. r = [tab[task[c].tab] EXCEPT !.busy = IF task[c].own THEN FALSE ELSE @,
                                     !.submitting = IF task[c].own THEN FALSE ELSE @]
    BY <1>2, <1>4, <1>5
  <2> QED BY <1>1, <1>2, <1>7, <1>9, <2>1 DEF Resolved
<1>15. CASE Show(t, q, ts)
  BY <1>10, <1>11, <1>12, <1>13, <1>15, ShowStep
<1>16. CASE Show(t, r, ts)
  BY <1>6, <1>10, <1>11, <1>12, <1>13, <1>16, ShowStep
<1>17. CASE tab' = tab /\ task' = ts
  BY <1>11, <1>12, <1>13, <1>17, SafeParts, BrowserStep
<1> QED BY <1>14, <1>15, <1>16, <1>17

-----------------------------------------------------------------------------
(* The server.                                                                 *)

(* Nothing is added to what creates and what is open.                          *)
LEMMA SingleKept ==
  ASSUME Safe, crossed' = crossed, orderPlan' = orderPlan, CreatesLess(task', task),
         WaitsLess(order', order)
  PROVE  ~crossed' => OneCheckout(task', order', orderPlan')
<1>1. PICK ts, us, os, qs, plans :
        ts = task /\ us = task' /\ os = order /\ qs = order' /\ plans = orderPlan
  OBVIOUS
<1>2. ~crossed => OneCheckout(us, qs, plans)
  BY <1>1, SingleLess DEF Safe, OneAtATime
<1> QED BY <1>1, <1>2

(* A task is replaced while the server goes on.                                *)
LEMMA ServedStep ==
  ASSUME Safe, ServerKeeps, NEW c \in Slots, NEW y \in TaskRecord,
         Replaced(task, c, y, task'), SoundTask(y, steps', applied'),
         steps' >= 2 => free' \/ applied' # {},
         ~crossed' => OneCheckout(task', order', orderPlan')
  PROVE  Safe'
<1>1. /\ task' \in [Slots -> TaskRecord]
      /\ \A d \in Slots : SoundTask(task'[d], steps', applied')
  <2>1. /\ Behind(steps, steps') /\ applied \subseteq applied'
        /\ task \in [Slots -> TaskRecord] /\ AllSound(task, steps, applied)
    BY SafeParts DEF ServerKeeps, AllSound
  <2>2. PICK us, m, B, n, A : /\ us = task' /\ m = steps' /\ B = applied'
                              /\ n = steps /\ A = applied
    OBVIOUS
  <2>3. PICK ts \in [Slots -> TaskRecord] : ts = task
    BY <2>1
  <2>4. us \in [Slots -> TaskRecord] /\ AllSound(us, m, B)
    <3>1. Replaced(ts, c, y, us)
      BY <2>2, <2>3
    <3>2. AllSound(ts, n, A) /\ Behind(n, m) /\ A \subseteq B
      BY <2>1, <2>2, <2>3
    <3>3. SoundTask(y, m, B)
      BY <2>2
    <3>4. us \in [Slots -> TaskRecord]
      BY <2>3, <3>1 DEF Replaced
    <3>5. AllSound(us, m, B)
      BY <2>3, <3>1, <3>2, <3>3, ReplacedKept
    <3> QED BY <3>4, <3>5
  <2> QED BY <2>2, <2>4 DEF AllSound
<1> QED BY <1>1, ServerStep

LEMMA NotCreating ==
  ASSUME Safe, NEW c \in Slots, NEW y \in TaskRecord, Replaced(task, c, y, task'),
         y.stage # "creating"
  PROVE  /\ CreatesLess(task', task) /\ task'[c].stage # "creating"
         /\ WaitsLess(order, order)
<1>1. task'[c] = y /\ \A d \in Slots : d # c => task'[d] = task[d]
  BY SafeParts DEF Replaced
<1> QED BY <1>1, SameIsLess DEF CreatesLess

LEMMA CreateOrganizationKeeps ==
  ASSUME Safe, NEW c \in Slots, CreateOrganization(c) PROVE Safe'
<1>1. PICK y : y = At(task[c], "answered")
  OBVIOUS
<1>2. Replaced(task, c, y, task')
  BY <1>1, SafeParts, ServedReplaces DEF CreateOrganization
<1>3. task[c] \in TaskRecord /\ SoundTask(task[c], steps, applied) /\ "answered" \in Stages
  BY SafeParts DEF Stages
<1>4. /\ y \in TaskRecord /\ y.stage = "answered" /\ y.kind = "create"
      /\ y.read = task[c].read /\ y.seen = task[c].seen
  BY <1>1, <1>3, AtTyped DEF CreateOrganization
<1>5. steps' \in Steps /\ Behind(steps, steps') /\ Behind(steps', steps)
  BY SafeParts DEF CreateOrganization, Steps, Behind
<1>6. ServerKeeps
  BY <1>5, SafeParts DEF ServerKeeps, CreateOrganization
<1>7. SoundTask(y, steps', applied')
  BY <1>3, <1>4, <1>5 DEF SoundTask, Behind
<1>8. steps' >= 2 => free' \/ applied' # {}
  BY <1>5 DEF Safe, ActivationIsChosen, CreateOrganization, Behind
<1>9. ~crossed' => OneCheckout(task', order', orderPlan')
  BY <1>2, <1>4, NotCreating, SingleKept DEF CreateOrganization
<1> QED BY <1>2, <1>4, <1>6, <1>7, <1>8, <1>9, ServedStep

(* The details are written by an owner who was taken for paid, and the greater *)
(* of what was read and 2 is at least 2: the steps never fall below it again.  *)
LEMMA WriteDetailsKeeps ==
  ASSUME Safe, NEW c \in Slots, WriteDetails(c) PROVE Safe'
<1>1. PICK y : y = At(task[c], "answered")
  OBVIOUS
<1>2. Replaced(task, c, y, task')
  BY <1>1, SafeParts, ServedReplaces DEF WriteDetails
<1>3. task[c] \in TaskRecord /\ SoundTask(task[c], steps, applied) /\ "answered" \in Stages
  BY SafeParts DEF Stages
<1>4. /\ y \in TaskRecord /\ y.stage = "answered" /\ y.kind = task[c].kind
      /\ y.read = task[c].read /\ y.seen = task[c].seen
  BY <1>1, <1>3, AtTyped
<1>5. task[c].kind \in {"details", "save"} /\ steps >= 2
  BY <1>3 DEF SoundTask, WriteDetails
<1>6. steps' \in Steps /\ steps' >= 2
  <2>1. task[c].read \in Steps
    BY <1>3 DEF TaskRecord
  <2> QED BY <2>1 DEF WriteDetails, AtLeast, Steps
<1>7. ServerKeeps
  BY <1>6, SafeParts DEF ServerKeeps, WriteDetails, Behind
<1>8. SoundTask(y, steps', applied')
  BY <1>4, <1>5, <1>6 DEF SoundTask, Behind
<1>9. steps' >= 2 => free' \/ applied' # {}
  BY <1>5 DEF Safe, ActivationIsChosen, WriteDetails
<1>10. ~crossed' => OneCheckout(task', order', orderPlan')
  BY <1>2, <1>4, NotCreating, SingleKept DEF WriteDetails
<1> QED BY <1>2, <1>4, <1>7, <1>8, <1>9, <1>10, ServedStep

LEMMA ChooseFreeKeeps ==
  ASSUME Safe, NEW c \in Slots, ChooseFree(c) PROVE Safe'
<1>1. PICK y : y = AtWith(task[c], "answered", 3)
  OBVIOUS
<1>2. Replaced(task, c, y, task')
  BY <1>1, SafeParts, ServedReplaces DEF ChooseFree
<1>3. task[c] \in TaskRecord /\ "answered" \in Stages /\ 3 \in Steps
  BY SafeParts DEF Stages, Steps
<1>4. y \in TaskRecord /\ y.stage = "answered" /\ y.kind = "free" /\ y.read = 3
  BY <1>1, <1>3, AtWithTyped DEF ChooseFree
<1>5. steps' = 3 /\ free' = TRUE
  BY DEF ChooseFree
<1>6. ServerKeeps
  BY <1>3, <1>5, SafeParts DEF ServerKeeps, ChooseFree, Behind
<1>7. SoundTask(y, steps', applied')
  BY <1>4, <1>5 DEF SoundTask, Behind
<1>8. ~crossed' => OneCheckout(task', order', orderPlan')
  BY <1>2, <1>4, NotCreating, SingleKept DEF ChooseFree
<1> QED BY <1>2, <1>4, <1>5, <1>6, <1>7, <1>8, ServedStep

(* A request looks for an open order and holds it, or finds none: then another *)
(* request is creating one, and the two have crossed, or it is alone.          *)
LEMMA FindOrderKeeps ==
  ASSUME Safe, NEW c \in Slots, FindOrder(c) PROVE Safe'
<1>1. task[c] \in TaskRecord /\ SoundTask(task[c], steps, applied)
  BY SafeParts
<1>2. ServerKeeps /\ steps' = steps /\ applied' = applied /\ order' = order /\ free' = free
      /\ orderPlan' = orderPlan
  BY SafeParts DEF ServerKeeps, FindOrder, Behind
<1>3. steps' >= 2 => free' \/ applied' # {}
  BY <1>2 DEF Safe, ActivationIsChosen
<1>4. ASSUME NEW o \in Waiting(task[c].plan),
             task' = [task EXCEPT ![c].stage = "ordered", ![c].order = o],
             crossed' = crossed
      PROVE  Safe'
  <2>0. o \in Orders
    BY DEF Waiting
  <2>1. PICK y : y = [task[c] EXCEPT !.stage = "ordered", !.order = o]
    OBVIOUS
  <2>2. Replaced(task, c, y, task')
    BY <1>4, <2>1, SafeParts DEF Replaced
  <2>3. /\ y \in TaskRecord /\ y.stage = "ordered" /\ y.kind = task[c].kind
        /\ y.read = task[c].read /\ y.seen = task[c].seen /\ y.order = o
    BY <1>1, <2>0, <2>1 DEF TaskRecord, Stages
  <2>4. SoundTask(y, steps', applied')
    BY <1>1, <1>2, <2>0, <2>3 DEF SoundTask
  <2>5. ~crossed' => OneCheckout(task', order', orderPlan')
    BY <1>2, <1>4, <2>2, <2>3, NotCreating, SingleKept
  <2> QED BY <1>2, <1>3, <2>2, <2>3, <2>4, <2>5, ServedStep
<1>5. ASSUME Waiting(task[c].plan) = {}, Served(c, "creating"),
             crossed' = (crossed \/ Crossing(c))
      PROVE  Safe'
  <2>1. PICK y : y = At(task[c], "creating")
    OBVIOUS
  <2>2. Replaced(task, c, y, task')
    BY <1>5, <2>1, SafeParts, ServedReplaces
  <2>3. "creating" \in Stages
    BY DEF Stages
  <2>4. /\ y \in TaskRecord /\ y.stage = "creating" /\ y.kind = task[c].kind
        /\ y.read = task[c].read /\ y.seen = task[c].seen
    BY <1>1, <2>1, <2>3, AtTyped
  <2>5. SoundTask(y, steps', applied')
    BY <1>1, <1>2, <2>4 DEF SoundTask
  <2>6. ASSUME ~crossed' PROVE OneCheckout(task', order', orderPlan')
    <3>1. task'[c] = y /\ \A d \in Slots : d # c => task'[d] = task[d]
      BY <2>2, SafeParts DEF Replaced
    <3>2. y.plan = task[c].plan
      BY <1>1, <2>1, <2>3, AtTyped
    <3>3. /\ OneCheckout(task, order, orderPlan)
          /\ \A d \in Slots \ {c} : task[d].stage = "creating" => task[d].plan # y.plan
          /\ \A o \in Orders : order[o] = "CREATED" => orderPlan[o] # y.plan
      BY <1>5, <2>6, <3>2 DEF Crossing, Waiting, Safe, OneAtATime
    <3>4. order' = order /\ orderPlan' = orderPlan
      BY <1>2
    <3>5. ASSUME NEW plan \in Plans, NEW d \in Slots, NEW e \in Slots,
                 Creates(task'[d], plan), Creates(task'[e], plan)
          PROVE  d = e
      BY <3>1, <3>3, <3>5, <2>4 DEF OneCheckout, Creates
    <3>6. ASSUME NEW plan \in Plans, NEW d \in Slots, NEW o \in Orders,
                 Creates(task'[d], plan), Waits(order, orderPlan, o, plan)
          PROVE  FALSE
      BY <3>1, <3>3, <3>6, <2>4 DEF OneCheckout, Creates, Waits
    <3>7. ASSUME NEW plan \in Plans, NEW o \in Orders, NEW p \in Orders,
                 Waits(order, orderPlan, o, plan), Waits(order, orderPlan, p, plan)
          PROVE  o = p
      BY <3>3, <3>7 DEF OneCheckout
    <3> QED BY <3>4, <3>5, <3>6, <3>7 DEF OneCheckout
  <2> QED BY <1>2, <1>3, <2>2, <2>4, <2>5, <2>6, ServedStep
<1> QED BY <1>4, <1>5 DEF FindOrder

(* The order of the one request that is creating is the one that is open then. *)
LEMMA CreateOrderKeeps ==
  ASSUME Safe, NEW c \in Slots, CreateOrder(c) PROVE Safe'
<1>1. PICK o \in Orders :
        /\ order[o] = "none" /\ order' = [order EXCEPT ![o] = "CREATED"]
        /\ orderPlan' = [orderPlan EXCEPT ![o] = task[c].plan]
        /\ task' = [task EXCEPT ![c].stage = "ordered", ![c].order = o]
  BY DEF CreateOrder, NextOrder
<1>2. task[c] \in TaskRecord /\ SoundTask(task[c], steps, applied)
  BY SafeParts
<1>3. /\ ServerKeeps /\ steps' = steps /\ applied' = applied /\ free' = free
      /\ crossed' = crossed
  <2>1. task[c].plan \in Plans \cup {None}
    BY <1>2 DEF TaskRecord
  <2> QED BY <1>1, <2>1, SafeParts DEF ServerKeeps, CreateOrder, Behind
<1>4. steps' >= 2 => free' \/ applied' # {}
  BY <1>3 DEF Safe, ActivationIsChosen
<1>5. PICK y : y = [task[c] EXCEPT !.stage = "ordered", !.order = o]
  OBVIOUS
<1>6. Replaced(task, c, y, task')
  BY <1>1, <1>5, SafeParts DEF Replaced
<1>7. /\ y \in TaskRecord /\ y.stage = "ordered" /\ y.kind = task[c].kind
      /\ y.read = task[c].read /\ y.seen = task[c].seen /\ y.order = o
  BY <1>2, <1>5 DEF TaskRecord, Stages
<1>8. SoundTask(y, steps', applied')
  BY <1>2, <1>3, <1>7 DEF SoundTask
<1>9. ASSUME ~crossed' PROVE OneCheckout(task', order', orderPlan')
  <2>1. OneCheckout(task, order, orderPlan) /\ task[c].stage = "creating"
    BY <1>3, <1>9 DEF CreateOrder, Safe, OneAtATime
  <2>2. \A d \in Slots : task'[d].stage = "creating" => d # c /\ task'[d] = task[d]
    BY <1>6, <1>7, SafeParts DEF Replaced
  <2>3. /\ order'[o] = "CREATED" /\ orderPlan'[o] = task[c].plan
        /\ \A p \in Orders \ {o} : order'[p] = order[p] /\ orderPlan'[p] = orderPlan[p]
    BY <1>1, SafeParts
  <2>4. ASSUME NEW plan \in Plans, NEW d \in Slots, NEW e \in Slots,
               Creates(task'[d], plan), Creates(task'[e], plan)
        PROVE  d = e
    BY <2>1, <2>2, <2>4 DEF OneCheckout, Creates
  <2>5. ASSUME NEW plan \in Plans, NEW d \in Slots, NEW p \in Orders,
               Creates(task'[d], plan), Waits(order', orderPlan', p, plan)
        PROVE  FALSE
    <3>1. Creates(task[d], plan) /\ d # c
      BY <2>2, <2>5 DEF Creates
    <3>2. CASE p = o
      <4>1. Creates(task[c], plan)
        BY <2>1, <2>3, <2>5, <3>2 DEF Creates, Waits
      <4> QED BY <2>1, <3>1, <4>1 DEF OneCheckout
    <3>3. CASE p # o
      <4>1. Waits(order, orderPlan, p, plan)
        BY <2>3, <2>5, <3>3 DEF Waits
      <4> QED BY <2>1, <3>1, <4>1 DEF OneCheckout
    <3> QED BY <3>2, <3>3
  <2>6. ASSUME NEW plan \in Plans, NEW p \in Orders, NEW q \in Orders,
               Waits(order', orderPlan', p, plan), Waits(order', orderPlan', q, plan)
        PROVE  p = q
    <3>1. /\ p # o => Waits(order, orderPlan, p, plan)
          /\ q # o => Waits(order, orderPlan, q, plan)
          /\ p = o \/ q = o => Creates(task[c], plan)
      BY <2>1, <2>3, <2>6 DEF Creates, Waits
    <3> QED BY <2>1, <3>1 DEF OneCheckout
  <2> QED BY <2>4, <2>5, <2>6 DEF OneCheckout
<1> QED BY <1>3, <1>4, <1>6, <1>7, <1>8, <1>9, ServedStep

(* A period is granted. *)
LEMMA Applies ==
  ASSUME Safe, NEW o \in Orders, Apply(o), UNCHANGED <<orderPlan, paid, free, crossed, tab, counters, told>>
  PROVE  /\ ServerKeeps /\ steps' = 3 /\ applied' = applied \cup {o}
         /\ WaitsLess(order', order)
BY SafeParts, StepsTyped DEF Apply, ServerKeeps, Behind, WaitsLess

LEMMA VerifyKeeps ==
  ASSUME Safe, NEW c \in Slots, Verify(c) PROVE Safe'
<1>1. task[c] \in TaskRecord /\ SoundTask(task[c], steps, applied) /\ steps \in Steps
  BY SafeParts
<1>2. "verified" \in Stages /\ "refused" \in Stages
  BY DEF Stages
<1>3. CASE Apply(task[c].order) /\ ServedWith(c, "verified", 3)
  <2>1. task[c].order \in Orders
    BY OrderHeld DEF Verify
  <2>2. /\ ServerKeeps /\ steps' = 3 /\ applied' = applied \cup {task[c].order}
        /\ WaitsLess(order', order)
    BY <1>3, <2>1, Applies DEF Verify
  <2>3. PICK y : y = AtWith(task[c], "verified", 3)
    OBVIOUS
  <2>4. Replaced(task, c, y, task')
    BY <1>3, <2>3, SafeParts, ServedReplaces
  <2>5. /\ y \in TaskRecord /\ y.stage = "verified" /\ y.kind = task[c].kind
        /\ y.read = 3 /\ y.seen = task[c].seen /\ y.order = task[c].order
    <3>1. 3 \in Steps
      BY StepsTyped
    <3> QED BY <1>1, <1>2, <2>3, <3>1, AtWithTyped
  <2>6. SoundTask(y, steps', applied')
    BY <2>2, <2>5 DEF SoundTask, Behind
  <2>7. ~crossed' => OneCheckout(task', order', orderPlan')
    BY <2>2, <2>4, <2>5, NotCreating, SingleKept DEF Verify
  <2>8. steps' >= 2 => free' \/ applied' # {}
    BY <2>2
  <2> QED BY <2>2, <2>4, <2>5, <2>6, <2>7, <2>8, ServedStep
<1>4. CASE UNCHANGED <<steps, order, applied>>
  <2>1. ServerKeeps /\ UNCHANGED <<free, crossed, orderPlan>>
    BY <1>4, SafeParts DEF ServerKeeps, Verify, Behind
  <2>2. \E y \in TaskRecord :
          /\ Replaced(task, c, y, task') /\ SoundTask(y, steps, applied)
          /\ y.stage # "creating"
    <3>1. CASE task[c].order \in applied /\ ServedWith(c, "verified", steps)
      <4>1. PICK y : y = AtWith(task[c], "verified", steps)
        OBVIOUS
      <4>2. Replaced(task, c, y, task')
        BY <3>1, <4>1, SafeParts, ServedReplaces
      <4>3. /\ y \in TaskRecord /\ y.stage = "verified" /\ y.kind = task[c].kind
            /\ y.read = steps /\ y.seen = task[c].seen /\ y.order = task[c].order
        BY <1>1, <1>2, <4>1, AtWithTyped
      <4>4. SoundTask(y, steps, applied)
        BY <1>1, <3>1, <4>3 DEF SoundTask, Behind
      <4> QED BY <4>2, <4>3, <4>4
    <3>2. CASE Served(c, "refused")
      <4>1. PICK y : y = At(task[c], "refused")
        OBVIOUS
      <4>2. Replaced(task, c, y, task')
        BY <3>2, <4>1, SafeParts, ServedReplaces
      <4>3. /\ y \in TaskRecord /\ y.stage = "refused" /\ y.kind = task[c].kind
            /\ y.read = task[c].read /\ y.seen = task[c].seen
        BY <1>1, <1>2, <4>1, AtTyped
      <4>4. SoundTask(y, steps, applied)
        BY <1>1, <4>3 DEF SoundTask
      <4> QED BY <4>2, <4>3, <4>4
    <3>3. CASE Apply(task[c].order) /\ task[c].order \notin applied
      BY <1>4, <3>3 DEF Apply
    <3> QED BY <3>1, <3>2, <3>3 DEF Verify
  <2>3. PICK y \in TaskRecord :
          /\ Replaced(task, c, y, task') /\ SoundTask(y, steps, applied)
          /\ y.stage # "creating"
    BY <2>2
  <2>4. SoundTask(y, steps', applied')
    BY <1>4, <2>3
  <2>5. steps' >= 2 => free' \/ applied' # {}
    BY <1>4, <2>1 DEF Safe, ActivationIsChosen
  <2>6. ~crossed' => OneCheckout(task', order', orderPlan')
    BY <1>4, <2>1, <2>3, NotCreating, SingleKept, SameIsLess DEF WaitsLess
  <2> QED BY <2>1, <2>3, <2>4, <2>5, <2>6, ServedStep
<1> QED BY <1>3, <1>4 DEF Verify

LEMMA WebhookKeeps ==
  ASSUME Safe, NEW o \in Orders, Webhook(o) PROVE Safe'
<1>1. /\ ServerKeeps /\ steps' = 3 /\ applied' = applied \cup {o}
      /\ WaitsLess(order', order) /\ UNCHANGED <<task, crossed, orderPlan>>
  BY Applies DEF Webhook
<1>2. task' \in [Slots -> TaskRecord] /\ \A d \in Slots : SoundTask(task'[d], steps', applied')
  <2>1. Behind(steps, 3) /\ applied \subseteq applied \cup {o}
    BY DEF Behind
  <2>2. \A d \in Slots : SoundTask(task[d], 3, applied \cup {o})
    BY <2>1, SafeParts, LaterTask
  <2> QED BY <1>1, <2>2, SafeParts
<1>3. ~crossed' => OneCheckout(task', order', orderPlan')
  BY <1>1, SingleKept, SameIsLess DEF CreatesLess
<1>4. steps' >= 2 => free' \/ applied' # {}
  BY <1>1
<1> QED BY <1>1, <1>2, <1>3, <1>4, ServerStep

LEMMA WebhookFailedKeeps ==
  ASSUME Safe, NEW o \in Orders, WebhookFailed(o) PROVE Safe'
<1>1. /\ ServerKeeps /\ WaitsLess(order', order)
      /\ UNCHANGED <<task, steps, orderPlan, applied, free, crossed>>
  BY SafeParts DEF WebhookFailed, ServerKeeps, Behind, WaitsLess
<1>2. task' \in [Slots -> TaskRecord] /\ \A d \in Slots : SoundTask(task'[d], steps', applied')
  BY <1>1, SafeParts
<1>3. ~crossed' => OneCheckout(task', order', orderPlan')
  BY <1>1, SingleKept, SameIsLess DEF CreatesLess
<1>4. steps' >= 2 => free' \/ applied' # {}
  BY <1>1 DEF Safe, ActivationIsChosen
<1> QED BY <1>1, <1>2, <1>3, <1>4, ServerStep

-----------------------------------------------------------------------------
(* The theorems.                                                               *)

LEMMA InitSafe == Init => Safe
<1> SUFFICES ASSUME Init PROVE Safe
  OBVIOUS
<1>1. Fresh \in TabRecord /\ SoundTab(Fresh, 0)
  BY DEF Fresh, TabRecord, Views, Steps, SoundTab, Behind
<1>2. Idle \in TaskRecord /\ SoundTask(Idle, 0, {}) /\ Idle.stage # "creating"
  BY IdleSound DEF Idle
<1>3. TypeOK
  <2>1. steps \in Steps
    BY StepsTyped DEF Init
  <2>2. tab \in [Tabs -> TabRecord] /\ task \in [Slots -> TaskRecord]
    BY <1>1, <1>2 DEF Init
  <2>3. begun \in 0 .. MaxTasks /\ faults \in 0 .. MaxFaults
    BY OnboardingAssumption DEF Init
  <2>4. order \in [Orders -> {"none", "CREATED", "FAILED", "CAPTURED"}]
    BY DEF Init
  <2> QED BY <2>1, <2>2, <2>3, <2>4
          DEF Init, TypeOK, TabRecord, TaskRecord, TaskKinds, Stages
<1>4. TabsSound /\ TasksSound
  BY <1>1, <1>2 DEF Init, TabsSound, TasksSound
<1>5. OneAtATime
  <2>1. /\ \A c \in Slots : task[c].stage # "creating"
        /\ \A o \in Orders : order[o] = "none"
    BY <1>2 DEF Init
  <2> QED BY <2>1 DEF OneAtATime, OneCheckout, Creates, Waits
<1>6. ActivationIsChosen /\ ToldIsGranted
  BY DEF Init, ActivationIsChosen, ToldIsGranted
<1> QED BY <1>3, <1>4, <1>5, <1>6 DEF Safe

LEMMA BrowseKeeps ==
  ASSUME Safe, NEW t \in Tabs, Browse(t) PROVE Safe'
<1>1. CASE \E v \in Views : Navigate(t, v)
  BY <1>1, NavigateKeeps
<1>2. CASE Reload(t)
  BY <1>2, ReloadKeeps
<1>3. CASE LoadReads(t) \/ LoadAnswers(t) \/ LoadFails(t)
  BY <1>3, LoadReadsKeeps, LoadAnswersKeeps, LoadFailsKeeps
<1>4. CASE SdkLoads(t) \/ SdkFails(t)
  BY <1>4, SdkKeeps
<1>5. CASE \E c \in Slots : \E k \in {"create", "resume", "details", "save", "refresh"} :
             StartForm(c, t, k)
  BY <1>5, StartFormKeeps
<1>6. CASE \E c \in Slots : \E k \in Checkouts : StartCheckout(c, t, k)
  BY <1>6, StartCheckoutKeeps
<1> QED BY <1>1, <1>2, <1>3, <1>4, <1>5, <1>6 DEF Browse

LEMMA SlotKeeps ==
  ASSUME Safe, NEW c \in Slots,
         \/ Serve(c) \/ Respond(c) \/ RequestFails(c) \/ CheckoutFails(c)
         \/ Dismiss(c) \/ PaymentFails(c) \/ Pay(c)
  PROVE  Safe'
<1>1. CASE Serve(c)
  BY <1>1, ReadOrganizationKeeps, CreateOrganizationKeeps, ReadForDetailsKeeps,
     WriteDetailsKeeps, ChooseFreeKeeps, FindOrderKeeps, CreateOrderKeeps, VerifyKeeps DEF Serve
<1>2. CASE Respond(c)
  BY <1>2, AnsweredKeeps, ForgottenKeeps, AwaitSdkKeeps, OpenModalKeeps, ResolvedKeeps
     DEF Respond
<1>3. CASE RequestFails(c) \/ CheckoutFails(c) \/ Dismiss(c) \/ PaymentFails(c) \/ Pay(c)
  BY <1>3, RequestFailsKeeps, CheckoutFailsKeeps, DismissKeeps, PaymentFailsKeeps, PayKeeps
<1> QED BY <1>1, <1>2, <1>3

LEMMA StutterKeeps ==
  ASSUME Safe, UNCHANGED vars PROVE Safe'
<1>1. BrowserKeeps /\ told' = told /\ tab' = tab /\ task' = task
  BY SafeParts DEF BrowserKeeps, vars
<1> QED BY <1>1, SafeParts, SameIsLess, BrowserStep

LEMMA NextKeepsSafe == Safe /\ [Next]_vars => Safe'
<1> SUFFICES ASSUME Safe, [Next]_vars PROVE Safe'
  OBVIOUS
<1>1. CASE \E t \in Tabs : Browse(t)
  BY <1>1, BrowseKeeps
<1>2. CASE \E c \in Slots :
             \/ Serve(c) \/ Respond(c) \/ RequestFails(c) \/ CheckoutFails(c)
             \/ Dismiss(c) \/ PaymentFails(c) \/ Pay(c)
  BY <1>2, SlotKeeps
<1>3. CASE \E o \in Orders : Webhook(o) \/ WebhookFailed(o)
  BY <1>3, WebhookKeeps, WebhookFailedKeeps
<1>4. CASE UNCHANGED vars
  BY <1>4, StutterKeeps
<1> QED BY <1>1, <1>2, <1>3, <1>4 DEF Next

LEMMA SafeAlways == Spec => []Safe
BY InitSafe, NextKeepsSafe, PTL DEF Spec

(* Tabs, requests and rows are well formed, and no tab ever takes for finished *)
(* an onboarding the server has not finished, whatever answers come late, get  *)
(* lost or are for an earlier page (TenantContext.tsx, useRazorpayCheckout.ts).*)
THEOREM GateIsBackedAlways == Spec => []Inv
<1>1. Safe => Inv
  <2>1. Safe => GateIsBacked
    BY DEF Safe, TabsSound, SoundTab, Behind, GateIsBacked
  <2> QED BY <2>1 DEF Safe, Inv
<1> QED BY <1>1, SafeAlways, PTL

(* The details are recorded only for an organization whose owner chose FREE or *)
(* whose payment was captured, although submitOrganizationDetails does not     *)
(* look: the guards of the pages suffice for every tenant a tab may remember.  *)
THEOREM ActivationIsChosenAlways == Spec => []ActivationIsChosen
<1>1. Safe => ActivationIsChosen
  BY DEF Safe
<1> QED BY <1>1, SafeAlways, PTL

(* A page reports a payment as received only for an order whose period was     *)
(* granted, by the verification or by a webhook before it (Resolved, Verify).  *)
THEOREM ToldIsGrantedAlways == Spec => []ToldIsGranted
<1>1. Safe => ToldIsGranted
  BY DEF Safe
<1> QED BY <1>1, SafeAlways, PTL

(* As long as no two requests for a plan cross between looking for an open     *)
(* order of it and adding one, at most one order of each plan waits for        *)
(* payment (createRazorpayOrder).                                              *)
THEOREM OneOpenOrderAlways == Spec => []OneOpenOrder
<1>1. Safe => OneOpenOrder
  BY DEF Safe, OneAtATime, OneCheckout, Waits, Waiting, OneOpenOrder
<1> QED BY <1>1, SafeAlways, PTL

-----------------------------------------------------------------------------
(* Sessions.                                                                   *)

(* A tab under which nothing changed the account asks for the organization of  *)
(* the account it shows; it holds it or none, unless one was set that nobody   *)
(* looked up for the account.                                                  *)
OwnTenant(w) == w.tenant \in {Nothing, w.user}
OwnWindow(w) ==
  /\ w.token = w.user
  /\ w.load = "sent" => w.sent = w.user
  /\ w.load = "read" => w.got \in {Nothing, w.user}

SoundCall(x) ==
  /\ x.kind # "none" => x.tab \in Windows
  /\ x.stage = "code" => x.kind = "signin"
  /\ x.ours => x.got \in {Nothing, x.account}
  /\ x.kind = "resume" => ~x.ours

WindowsOwn == \A t \in Windows \ strayed : OwnWindow(window[t])
TenantsOwn == \A t \in Windows \ (strayed \cup foreign) : OwnTenant(window[t])
CallsSound == \A c \in Requests : SoundCall(call[c])

SessionSafe ==
  /\ Session!TypeOK /\ CallsSound /\ WindowsOwn /\ TenantsOwn
  /\ Session!TokenIsOwn /\ Session!StoredIsOne

WindowRecord ==
  [token : Session!Signed, user : Session!Signed, tenant : Session!Signed,
   load : {"none", "sent", "read", "refused"}, sent : Session!Signed, got : Session!Signed]

CallRecord ==
  [kind : {"none", "signin", "save"} \cup Session!Settings, tab : Windows \cup {Nothing},
   account : Session!Signed, stage : {"idle", "sent", "code", "answered"},
   got : Session!Signed, ours : BOOLEAN]

StoreRecord == [token : Session!Signed, user : Session!Signed, live : BOOLEAN]

LEMMA SignedParts ==
  ASSUME SessionSafe
  PROVE  /\ area \in {"app", "admin"} /\ stored \in StoreRecord
         /\ window \in [Windows -> WindowRecord] /\ call \in [Requests -> CallRecord]
         /\ owns \subseteq Accounts /\ asked \in 0 .. MaxAsked
         /\ strayed \subseteq Windows /\ foreign \subseteq Windows /\ torn \in BOOLEAN
         /\ \A c \in Requests : SoundCall(call[c])
         /\ \A t \in Windows \ strayed : OwnWindow(window[t])
         /\ \A t \in Windows \ (strayed \cup foreign) : OwnTenant(window[t])
         /\ \A t \in Windows \ strayed :
              Session!Authenticated(window[t]) => stored.token = window[t].token
         /\ ~torn => stored.user = stored.token
BY DEF SessionSafe, Session!TypeOK, StoreRecord, WindowRecord, CallRecord, CallsSound, WindowsOwn,
       TenantsOwn,
       Session!TokenIsOwn, Session!StoredIsOne

(* The calls of a step: one is replaced by a sound one, or all stay.           *)
LEMMA CallReplaced ==
  ASSUME SessionSafe, NEW c \in Requests, NEW y \in CallRecord, SoundCall(y),
         call' = [call EXCEPT ![c] = y]
  PROVE  call' \in [Requests -> CallRecord] /\ \A d \in Requests : SoundCall(call'[d])
BY SignedParts

LEMMA NoTaskSound == Session!NoTask \in CallRecord /\ SoundCall(Session!NoTask)
BY DEF Session!NoTask, CallRecord, SoundCall, Session!Signed, Session!Settings

(* A step keeps the invariant if its parts are established. *)
LEMMA SignedAgain ==
  ASSUME SessionSafe, area' = area, owns' \subseteq Accounts, stored' \in StoreRecord,
         window' \in [Windows -> WindowRecord],
         call' \in [Requests -> CallRecord], \A d \in Requests : SoundCall(call'[d]),
         asked' \in 0 .. MaxAsked, strayed' \subseteq Windows, torn' \in BOOLEAN,
         foreign' \subseteq Windows,
         \A t \in Windows \ strayed' : OwnWindow(window'[t]),
         \A t \in Windows \ (strayed' \cup foreign') : OwnTenant(window'[t]),
         \A t \in Windows \ strayed' :
           Session!Authenticated(window'[t]) => stored'.token = window'[t].token,
         ~torn' => stored'.user = stored'.token
  PROVE  SessionSafe'
<1>1. Session!TypeOK'
  BY SignedParts DEF Session!TypeOK, StoreRecord, WindowRecord, CallRecord, Session!Signed
<1>2. CallsSound' /\ WindowsOwn' /\ TenantsOwn'
  BY DEF CallsSound, WindowsOwn, TenantsOwn
<1>3. Session!TokenIsOwn' /\ Session!StoredIsOne'
  BY DEF Session!TokenIsOwn, Session!StoredIsOne, Session!Authenticated
<1> QED BY <1>1, <1>2, <1>3 DEF SessionSafe

(* A step that leaves the storage and the tabs alone.                          *)
LEMMA CallStep ==
  ASSUME SessionSafe, NEW c \in Requests, NEW y \in CallRecord, SoundCall(y),
         call' = [call EXCEPT ![c] = y], asked' \in 0 .. MaxAsked,
         owns' \subseteq Accounts, UNCHANGED <<area, stored, window, strayed, foreign, torn>>
  PROVE  SessionSafe'
<1>1. call' \in [Requests -> CallRecord] /\ \A d \in Requests : SoundCall(call'[d])
  BY CallReplaced
<1> QED BY <1>1, SignedParts, SignedAgain

LEMMA AskedMore ==
  ASSUME SessionSafe, Session!Begins PROVE asked' \in 0 .. MaxAsked
<1>1. asked \in 0 .. MaxAsked
  BY SignedParts
<1> QED BY <1>1, BrowserAssumption DEF Session!Begins

(* A window with changed fields. *)
LEMMA SignedOutTyped ==
  /\ Session!SignedOut \in WindowRecord /\ OwnWindow(Session!SignedOut)
  /\ OwnTenant(Session!SignedOut) /\ ~Session!Authenticated(Session!SignedOut)
BY DEF Session!SignedOut, WindowRecord, Session!Signed, OwnWindow, OwnTenant,
       Session!Authenticated

-----------------------------------------------------------------------------
LEMMA OpenedSound ==
  ASSUME SessionSafe
  PROVE  /\ Session!Opened \in WindowRecord
         /\ stored.user = stored.token => OwnWindow(Session!Opened)
         /\ OwnTenant(Session!Opened)
         /\ Session!Authenticated(Session!Opened) => Session!Opened.token = stored.token
<1>1. stored \in StoreRecord
  BY SignedParts
<1>2. CASE ~Session!ReadStored
  BY <1>2, SignedOutTyped DEF Session!Opened
<1>3. CASE Session!ReadStored
  <2>1. PICK z : z = Session!SignedOut
    OBVIOUS
  <2>2. PICK s : s = [z EXCEPT !.token = stored.token, !.user = stored.user]
    OBVIOUS
  <2>3. z \in WindowRecord /\ z.tenant = Nothing /\ z.load = "none" /\ z.sent = Nothing
    BY <2>1, SignedOutTyped DEF Session!SignedOut
  <2>4. /\ s \in WindowRecord /\ s.token = stored.token /\ s.user = stored.user
        /\ s.tenant = Nothing /\ s.load = "none"
    BY <1>1, <2>2, <2>3 DEF WindowRecord, StoreRecord
  <2>5. PICK w : w = Session!Opened
    OBVIOUS
  <2>6. w = s \/ w = [s EXCEPT !.load = "sent", !.sent = stored.token]
    BY <1>3, <2>1, <2>2, <2>5 DEF Session!Opened, Session!Asking
  <2>7. /\ w \in WindowRecord /\ w.token = stored.token /\ w.user = stored.user
        /\ w.tenant = Nothing /\ w.load \in {"none", "sent"}
        /\ w.load = "sent" => w.sent = stored.token
    <3>1. CASE w = s
      BY <2>4, <3>1
    <3>2. CASE w = [s EXCEPT !.load = "sent", !.sent = stored.token]
      BY <1>1, <2>4, <3>2 DEF WindowRecord, StoreRecord
    <3> QED BY <2>6, <3>1, <3>2
  <2>8. stored.user = stored.token => OwnWindow(w)
    BY <2>7 DEF OwnWindow
  <2> QED BY <2>5, <2>7, <2>8 DEF OwnTenant
<1> QED BY <1>2, <1>3

LEMMA ReloadSigned ==
  ASSUME SessionSafe, NEW t \in Windows, Session!Reload(t) PROVE SessionSafe'
<1>1. PICK w : w = Session!Opened
  OBVIOUS
<1>2. /\ w \in WindowRecord /\ (stored.user = stored.token => OwnWindow(w)) /\ OwnTenant(w)
      /\ Session!Authenticated(w) => w.token = stored.token
  BY <1>1, OpenedSound
<1>3. window' = [window EXCEPT ![t] = w]
  BY <1>1 DEF Session!Reload
<1>4. /\ window' \in [Windows -> WindowRecord] /\ window'[t] = w
      /\ \A u \in Windows \ {t} : window'[u] = window[u]
  BY <1>2, <1>3, SignedParts
<1>5. call' \in [Requests -> CallRecord] /\ \A d \in Requests : SoundCall(call'[d])
  <2>1. \A d \in Requests : call'[d] \in {Session!NoTask, call[d]}
    BY DEF Session!Reload
  <2>2. \A d \in Requests : call'[d] \in CallRecord /\ SoundCall(call'[d])
    BY <2>1, NoTaskSound, SignedParts
  <2> QED BY <2>2 DEF Session!Reload
<1>6. asked' \in 0 .. MaxAsked /\ area' = area /\ owns' = owns /\ torn' = torn
      /\ foreign' = foreign \ {t}
  BY AskedMore DEF Session!Reload
<1>9. \A u \in Windows \ {t} : u \notin strayed \cup foreign => OwnTenant(window'[u])
  BY <1>4, SignedParts
<1>10. OwnTenant(window'[t])
  BY <1>2, <1>4
<1>7. CASE /\ Session!Authenticated(stored) /\ Session!Expired /\ stored' = Session!NoStore
           /\ strayed' = (strayed \cup Session!Others(t)) \ {t}
  <2>1. w = Session!SignedOut
    BY <1>1, <1>7 DEF Session!Opened, Session!ReadStored
  <2>2. stored' \in StoreRecord /\ stored'.user = stored'.token
    BY <1>7 DEF Session!NoStore, StoreRecord, Session!Signed
  <2>3. \A u \in Windows \ strayed' :
          u = t \/ (u \in Windows \ strayed /\ u # t /\ ~Session!Authenticated(window[u]))
    BY <1>7 DEF Session!Others
  <2>4. \A u \in Windows \ strayed' : OwnWindow(window'[u])
    BY <1>4, <2>1, <2>3, SignedOutTyped, SignedParts
  <2>5. \A u \in Windows \ strayed' : ~Session!Authenticated(window'[u])
    BY <1>4, <2>1, <2>3, SignedOutTyped
  <2>6. strayed' \subseteq Windows
    BY <1>7, SignedParts DEF Session!Others
  <2>7. \A u \in Windows \ (strayed' \cup foreign') : OwnTenant(window'[u])
    BY <1>6, <1>7, <1>9, <1>10
  <2> QED BY <1>4, <1>5, <1>6, <2>2, <2>4, <2>5, <2>6, <2>7, SignedParts, SignedAgain
<1>8. CASE /\ strayed' = IF stored.user = stored.token THEN strayed \ {t}
                                                      ELSE strayed \cup {t}
           /\ stored' = stored
  <2>1. \A u \in Windows \ strayed' :
          (u = t /\ stored.user = stored.token) \/ (u \in Windows \ strayed /\ u # t)
    BY <1>8
  <2>2. \A u \in Windows \ strayed' : OwnWindow(window'[u])
    BY <1>2, <1>4, <2>1, SignedParts
  <2>3. \A u \in Windows \ strayed' :
          Session!Authenticated(window'[u]) => stored'.token = window'[u].token
    BY <1>2, <1>4, <1>8, <2>1, SignedParts
  <2>4. strayed' \subseteq Windows
    BY <1>8, SignedParts
  <2>5. \A u \in Windows \ (strayed' \cup foreign') : OwnTenant(window'[u])
    <3> SUFFICES ASSUME NEW u \in Windows \ (strayed' \cup foreign') PROVE OwnTenant(window'[u])
      OBVIOUS
    <3>1. u = t \/ (u # t /\ u \notin strayed \cup foreign)
      BY <1>6, <1>8
    <3> QED BY <3>1, <1>9, <1>10
  <2> QED BY <1>4, <1>5, <1>6, <1>8, <2>2, <2>3, <2>4, <2>5, SignedParts, SignedAgain
<1> QED BY <1>7, <1>8 DEF Session!Reload

LEMMA LogoutSigned ==
  ASSUME SessionSafe, NEW t \in Windows, Session!Logout(t) PROVE SessionSafe'
<1>1. PICK w : w = Session!SignedOut
  OBVIOUS
<1>2. w \in WindowRecord /\ OwnWindow(w) /\ OwnTenant(w) /\ ~Session!Authenticated(w)
  BY <1>1, SignedOutTyped
<1>3. /\ window' \in [Windows -> WindowRecord] /\ window'[t] = w
      /\ \A u \in Windows \ {t} : window'[u] = window[u]
  BY <1>1, <1>2, SignedParts DEF Session!Logout
<1>4. stored' \in StoreRecord /\ stored'.user = stored'.token
  BY DEF Session!Logout, Session!NoStore, StoreRecord, Session!Signed
<1>5. /\ strayed' = (strayed \cup Session!Others(t)) \ {t} /\ strayed' \subseteq Windows
      /\ foreign' = foreign \ {t} /\ UNCHANGED <<area, call, owns, torn>>
  BY SignedParts DEF Session!Logout, Session!Others
<1>6. asked' \in 0 .. MaxAsked
  BY AskedMore DEF Session!Logout
<1>7. \A u \in Windows \ strayed' :
        u = t \/ (u \in Windows \ strayed /\ u # t /\ ~Session!Authenticated(window[u]))
  BY <1>5 DEF Session!Others
<1>8. \A u \in Windows \ strayed' : OwnWindow(window'[u])
  BY <1>2, <1>3, <1>7, SignedParts
<1>9. \A u \in Windows \ strayed' : ~Session!Authenticated(window'[u])
  BY <1>2, <1>3, <1>7
<1>10. \A u \in Windows \ (strayed' \cup foreign') : OwnTenant(window'[u])
  <2> SUFFICES ASSUME NEW u \in Windows \ (strayed' \cup foreign') PROVE OwnTenant(window'[u])
    OBVIOUS
  <2>1. u = t \/ (u # t /\ u \notin strayed \cup foreign)
    BY <1>5
  <2> QED BY <1>2, <1>3, <2>1, SignedParts
<1> QED BY <1>3, <1>4, <1>5, <1>6, <1>8, <1>9, <1>10, SignedParts, SignedAgain

LEMMA TokenExpiresSigned ==
  ASSUME SessionSafe, Session!TokenExpires PROVE SessionSafe'
<1>1. stored \in StoreRecord /\ stored' = [stored EXCEPT !.live = FALSE]
  BY SignedParts DEF Session!TokenExpires
<1>2. stored' \in StoreRecord /\ stored'.token = stored.token /\ stored'.user = stored.user
  BY <1>1 DEF StoreRecord
<1>3. UNCHANGED <<area, window, call, owns, asked, strayed, foreign, torn>>
  BY DEF Session!TokenExpires
<1> QED BY <1>2, <1>3, SignedParts, SignedAgain

(* The window of one tab changes, the storage and the calls stay.              *)
LEMMA WindowStep ==
  ASSUME SessionSafe, NEW t \in Windows, NEW w \in WindowRecord, window' = [window EXCEPT ![t] = w],
         w.token = window[t].token, w.user = window[t].user,
         t \notin strayed => OwnWindow(w),
         t \notin strayed \cup foreign' => OwnTenant(w),
         foreign' \in {foreign, foreign \cup {t}, foreign \ {t}},
         UNCHANGED <<area, stored, owns, strayed, torn>>, asked' \in 0 .. MaxAsked,
         call' \in [Requests -> CallRecord], \A d \in Requests : SoundCall(call'[d])
  PROVE  SessionSafe'
<1>1. /\ window' \in [Windows -> WindowRecord] /\ window'[t] = w
      /\ \A u \in Windows \ {t} : window'[u] = window[u]
  BY SignedParts
<1>2. \A u \in Windows \ strayed' : OwnWindow(window'[u])
  BY <1>1, SignedParts
<1>3. \A u \in Windows \ strayed' :
        Session!Authenticated(window'[u]) => stored'.token = window'[u].token
  BY <1>1, SignedParts DEF Session!Authenticated
<1>4. \A u \in Windows \ (strayed' \cup foreign') : OwnTenant(window'[u])
  <2> SUFFICES ASSUME NEW u \in Windows \ (strayed' \cup foreign') PROVE OwnTenant(window'[u])
    OBVIOUS
  <2>1. CASE u = t
    BY <1>1, <2>1
  <2>2. CASE u # t
    <3>1. u \in Windows \ (strayed \cup foreign) /\ window'[u] = window[u]
      BY <1>1, <2>2
    <3> QED BY <3>1, SignedParts
  <2> QED BY <2>1, <2>2
<1>5. foreign' \subseteq Windows
  BY SignedParts
<1> QED BY <1>1, <1>2, <1>3, <1>4, <1>5, SignedParts, SignedAgain

LEMMA LoadReadsSigned ==
  ASSUME SessionSafe, NEW t \in Windows, Session!LoadReads(t) PROVE SessionSafe'
<1>1. window[t] \in WindowRecord /\ window \in [Windows -> WindowRecord]
      /\ (t \notin strayed => OwnWindow(window[t])) /\ window[t].load = "sent"
      /\ (t \notin strayed \cup foreign => OwnTenant(window[t]))
  BY SignedParts DEF Session!LoadReads
<1>2. /\ UNCHANGED <<area, stored, owns, strayed, foreign, torn>> /\ asked' \in 0 .. MaxAsked
      /\ call' \in [Requests -> CallRecord] /\ \A d \in Requests : SoundCall(call'[d])
  BY SignedParts DEF Session!LoadReads
<1>3. CASE window' = [window EXCEPT ![t].load = "read",
                                    ![t].got = Session!OrganizationOf(window[t].sent)]
  <2>1. PICK g : g = Session!OrganizationOf(window[t].sent)
    OBVIOUS
  <2>2. g \in {Nothing, window[t].sent} /\ g \in Session!Signed
    BY <1>1, <2>1 DEF Session!OrganizationOf, WindowRecord, Session!Signed
  <2>3. PICK w : w = [window[t] EXCEPT !.load = "read", !.got = g]
    OBVIOUS
  <2>4. /\ w \in WindowRecord /\ w.token = window[t].token /\ w.user = window[t].user
        /\ w.tenant = window[t].tenant /\ w.load = "read" /\ w.got = g
    BY <1>1, <2>2, <2>3 DEF WindowRecord
  <2>5. /\ t \notin strayed => OwnWindow(w)
        /\ t \notin strayed \cup foreign => OwnTenant(w)
    BY <1>1, <2>2, <2>4 DEF OwnWindow, OwnTenant
  <2>6. window' = [window EXCEPT ![t] = w]
    BY <1>1, <1>3, <2>1, <2>3
  <2> QED BY <1>2, <2>4, <2>5, <2>6, WindowStep
<1>4. CASE window' = [window EXCEPT ![t].load = "refused"]
  <2>1. PICK w : w = [window[t] EXCEPT !.load = "refused"]
    OBVIOUS
  <2>2. /\ w \in WindowRecord /\ w.token = window[t].token /\ w.user = window[t].user
        /\ w.tenant = window[t].tenant /\ w.load = "refused"
    BY <1>1, <2>1 DEF WindowRecord
  <2>3. /\ t \notin strayed => OwnWindow(w)
        /\ t \notin strayed \cup foreign => OwnTenant(w)
    BY <1>1, <2>2 DEF OwnWindow, OwnTenant
  <2>4. window' = [window EXCEPT ![t] = w]
    BY <1>1, <1>4, <2>1
  <2> QED BY <1>2, <2>2, <2>3, <2>4, WindowStep
<1> QED BY <1>3, <1>4 DEF Session!LoadReads

LEMMA LoadAnswersSigned ==
  ASSUME SessionSafe, NEW t \in Windows, Session!LoadAnswers(t) PROVE SessionSafe'
<1>1. window[t] \in WindowRecord /\ window \in [Windows -> WindowRecord]
      /\ (t \notin strayed => OwnWindow(window[t]))
  BY SignedParts
<1>2. PICK n : n = IF window[t].load = "read" THEN window[t].got ELSE Nothing
  OBVIOUS
<1>3. n \in Session!Signed /\ n \in {Nothing, window[t].got} /\ Nothing \in Session!Signed
      /\ (window[t].load # "read" => n = Nothing)
  BY <1>1, <1>2 DEF WindowRecord, Session!Signed
<1>4. PICK w : w = [window[t] EXCEPT !.load = "none", !.sent = Nothing, !.got = Nothing,
                                     !.tenant = n]
  OBVIOUS
<1>5. /\ w \in WindowRecord /\ w.token = window[t].token /\ w.user = window[t].user
      /\ w.tenant = n /\ w.load = "none"
  BY <1>1, <1>3, <1>4 DEF WindowRecord
<1>6. t \notin strayed => OwnWindow(w) /\ OwnTenant(w)
  BY <1>1, <1>3, <1>5 DEF OwnWindow, OwnTenant
<1>7. window' = [window EXCEPT ![t] = w]
  BY <1>1, <1>2, <1>4 DEF Session!LoadAnswers
<1>8. /\ UNCHANGED <<area, stored, owns, strayed, torn>> /\ foreign' = foreign \ {t}
      /\ asked' \in 0 .. MaxAsked
      /\ call' \in [Requests -> CallRecord] /\ \A d \in Requests : SoundCall(call'[d])
  BY SignedParts DEF Session!LoadAnswers
<1> QED BY <1>5, <1>6, <1>7, <1>8, WindowStep

-----------------------------------------------------------------------------
(* Requests.                                                                   *)

LEMMA BeganCall ==
  ASSUME NEW c \in Requests, NEW t \in Windows,
         NEW k \in {"signin", "save"} \cup Session!Settings,
         NEW a \in Session!Signed, NEW g \in Session!Signed, NEW b \in BOOLEAN,
         Session!BeganWith(c, k, t, a, g, b), b => g \in {Nothing, a} /\ k # "resume"
  PROVE  \E y \in CallRecord : SoundCall(y) /\ call' = [call EXCEPT ![c] = y]
<1>1. PICK y : y = [kind |-> k, tab |-> t, account |-> a, stage |-> "sent", got |-> g,
                    ours |-> b]
  OBVIOUS
<1>2. y \in CallRecord /\ SoundCall(y)
  BY <1>1 DEF CallRecord, SoundCall
<1>3. call' = [call EXCEPT ![c] = y]
  BY <1>1 DEF Session!BeganWith
<1> QED BY <1>2, <1>3

LEMMA StartsSigned ==
  ASSUME SessionSafe, NEW c \in Requests, NEW t \in Windows,
         \/ Session!StartRefresh(c, t) \/ Session!StartSubmit(c, t) \/ Session!StartSave(c, t)
         \/ \E form \in {"create", "resume"} : Session!StartOnboarding(c, t, form)
         \/ \E a \in Accounts : Session!StartSignIn(c, t, a)
  PROVE  SessionSafe'
<1>1. /\ stored.token \in Session!Signed /\ Accounts \subseteq Session!Signed
      /\ Nothing \in Session!Signed
  BY SignedParts DEF StoreRecord, Session!Signed
<1>2. \E y \in CallRecord : SoundCall(y) /\ call' = [call EXCEPT ![c] = y]
  <2>1. ASSUME NEW k \in {"signin", "save"} \cup Session!Settings, NEW a \in Session!Signed,
               Session!Began(c, k, t, a)
        PROVE  \E y \in CallRecord : SoundCall(y) /\ call' = [call EXCEPT ![c] = y]
    <3>1. PICK b : b = (k \in {"refresh", "create"})
      OBVIOUS
    <3>2. Session!BeganWith(c, k, t, a, Nothing, b) /\ b \in BOOLEAN
      BY <2>1, <3>1 DEF Session!Began
    <3>3. b => Nothing \in {Nothing, a} /\ k # "resume"
      BY <3>1
    <3> QED BY <1>1, <3>2, <3>3, BeganCall
  <2>2. CASE Session!StartSubmit(c, t)
    <3>1. PICK b \in BOOLEAN : b = (t \notin strayed \cup foreign)
      OBVIOUS
    <3>2. PICK a, g : a = window[t].user /\ g = window[t].tenant
      OBVIOUS
    <3>3. a \in Session!Signed /\ g \in Session!Signed
      BY <3>2, SignedParts DEF WindowRecord
    <3>4. b => g \in {Nothing, a}
      BY <3>1, <3>2, SignedParts DEF OwnTenant
    <3>5. Session!BeganWith(c, "submit", t, a, g, b)
      BY <2>2, <3>1, <3>2 DEF Session!StartSubmit
    <3>6. "submit" \in {"signin", "save"} \cup Session!Settings
      BY DEF Session!Settings
    <3> QED BY <3>3, <3>4, <3>5, <3>6, BeganCall
  <2>3. CASE ~Session!StartSubmit(c, t)
    <3>1. \E k \in {"signin", "save"} \cup Session!Settings : \E a \in Session!Signed :
            Session!Began(c, k, t, a)
      BY <1>1, <2>3 DEF Session!StartRefresh, Session!StartSave, Session!StartSignIn,
         Session!StartOnboarding, Session!Settings
    <3> QED BY <2>1, <3>1
  <2> QED BY <2>2, <2>3
<1>3. PICK y \in CallRecord : SoundCall(y) /\ call' = [call EXCEPT ![c] = y]
  BY <1>2
<1>4. asked' \in 0 .. MaxAsked /\ UNCHANGED <<area, stored, window, owns, strayed, foreign, torn>>
  BY AskedMore DEF Session!StartRefresh, Session!StartSubmit, Session!StartSave,
     Session!StartSignIn, Session!StartOnboarding
<1>5. owns' \subseteq Accounts
  BY <1>4, SignedParts
<1> QED BY <1>3, <1>4, <1>5, CallStep

LEMMA ServedCall ==
  ASSUME SessionSafe, NEW c \in Requests,
         \/ Session!PasswordChecked(c) \/ Session!CodeChecked(c) \/ Session!RequestRefused(c)
         \/ Session!RefreshReads(c) \/ Session!CreateWrites(c) \/ Session!ResumeReads(c)
         \/ Session!SubmitWrites(c) \/ Session!SaveWrites(c)
  PROVE  SessionSafe'
<1>1. call[c] \in CallRecord /\ SoundCall(call[c]) /\ call \in [Requests -> CallRecord]
      /\ asked \in 0 .. MaxAsked /\ owns \subseteq Accounts
  BY SignedParts
<1>2. UNCHANGED <<area, stored, window, asked, strayed, foreign, torn>>
  BY DEF Session!PasswordChecked, Session!CodeChecked, Session!RequestRefused,
     Session!RefreshReads, Session!CreateWrites, Session!ResumeReads, Session!SubmitWrites,
     Session!SaveWrites
<1>3. ASSUME NEW s \in {"code", "answered"}, call' = [call EXCEPT ![c].stage = s],
             s = "code" => call[c].kind = "signin", owns' \subseteq Accounts
      PROVE  SessionSafe'
  <2>1. PICK y : y = [call[c] EXCEPT !.stage = s]
    OBVIOUS
  <2>2. /\ y \in CallRecord /\ y.kind = call[c].kind /\ y.tab = call[c].tab
        /\ y.stage = s /\ y.got = call[c].got /\ y.account = call[c].account
        /\ y.ours = call[c].ours
    BY <1>1, <2>1 DEF CallRecord
  <2>3. SoundCall(y)
    BY <1>1, <1>3, <2>2 DEF SoundCall
  <2>4. call' = [call EXCEPT ![c] = y]
    BY <1>1, <1>3, <2>1
  <2> QED BY <1>1, <1>2, <1>3, <2>2, <2>3, <2>4, CallStep
<1>4. ASSUME NEW g \in Session!Signed, call[c].ours => g \in {Nothing, call[c].account},
             call' = [call EXCEPT ![c].stage = "answered", ![c].got = g],
             owns' \subseteq Accounts
      PROVE  SessionSafe'
  <2>1. PICK y : y = [call[c] EXCEPT !.stage = "answered", !.got = g]
    OBVIOUS
  <2>2. /\ y \in CallRecord /\ y.kind = call[c].kind /\ y.tab = call[c].tab
        /\ y.account = call[c].account /\ y.got = g /\ y.stage = "answered"
        /\ y.ours = call[c].ours
    BY <1>1, <2>1 DEF CallRecord
  <2>3. SoundCall(y)
    BY <1>1, <1>4, <2>2 DEF SoundCall
  <2>4. call' = [call EXCEPT ![c] = y]
    BY <1>1, <1>4, <2>1
  <2> QED BY <1>1, <1>2, <1>4, <2>2, <2>3, <2>4, CallStep
<1>5. CASE Session!PasswordChecked(c)
  <2>1. owns' \subseteq Accounts
    BY <1>1, <1>5 DEF Session!PasswordChecked
  <2> QED BY <1>3, <1>5, <2>1 DEF Session!PasswordChecked
<1>6. CASE Session!SaveWrites(c) \/ Session!SubmitWrites(c)
  <2>1. owns' \subseteq Accounts
    BY <1>1, <1>6 DEF Session!SaveWrites, Session!SubmitWrites
  <2> QED BY <1>3, <1>6, <2>1 DEF Session!SaveWrites, Session!SubmitWrites
<1>7. CASE Session!RequestRefused(c)
  <2>1. owns' \subseteq Accounts
    BY <1>1, <1>7 DEF Session!RequestRefused
  <2> QED BY <1>1, <1>2, <1>7, <2>1, NoTaskSound, CallStep
          DEF Session!RequestRefused, Session!Ended
<1>8. CASE Session!RefreshReads(c)
  <2>1. PICK g : g = Session!OrganizationOf(call[c].account)
    OBVIOUS
  <2>2. g \in {Nothing, call[c].account} /\ g \in Session!Signed
    BY <1>1, <2>1 DEF Session!OrganizationOf, CallRecord, Session!Signed
  <2>3. owns' \subseteq Accounts /\ call' = [call EXCEPT ![c].stage = "answered", ![c].got = g]
    BY <1>1, <1>8, <2>1 DEF Session!RefreshReads
  <2> QED BY <1>4, <2>2, <2>3
<1>9. CASE Session!CreateWrites(c)
  <2>1. PICK g : g = call[c].account
    OBVIOUS
  <2>2. g \in Session!Signed /\ g \in Accounts
    BY <1>1, <1>9, <2>1 DEF CallRecord, Session!Signed, Session!CreateWrites
  <2>3. owns' \subseteq Accounts /\ call' = [call EXCEPT ![c].stage = "answered", ![c].got = g]
    BY <1>1, <1>9, <2>1, <2>2 DEF Session!CreateWrites
  <2> QED BY <1>4, <2>1, <2>2, <2>3
<1>10. CASE Session!ResumeReads(c)
  <2>1. PICK g \in owns : call' = [call EXCEPT ![c].stage = "answered", ![c].got = g]
    BY <1>10 DEF Session!ResumeReads
  <2>2. g \in Session!Signed /\ owns' \subseteq Accounts
    BY <1>1, <1>10 DEF Session!Signed, Session!ResumeReads
  <2>3. ~call[c].ours
    BY <1>10, SignedParts DEF Session!ResumeReads, SoundCall
  <2> QED BY <1>4, <2>1, <2>2, <2>3
<1>11. CASE Session!CodeChecked(c)
  <2>1. owns' \subseteq Accounts
    BY <1>1, <1>11 DEF Session!CodeChecked
  <2> QED BY <1>3, <1>11, <2>1 DEF Session!CodeChecked
<1> QED BY <1>5, <1>6, <1>7, <1>8, <1>9, <1>10, <1>11

LEMMA EndedCall ==
  ASSUME SessionSafe, NEW c \in Requests, Session!Ended(c)
  PROVE  call' \in [Requests -> CallRecord] /\ \A d \in Requests : SoundCall(call'[d])
BY CallReplaced, NoTaskSound DEF Session!Ended

(* The tab speaks for the account that signed in, and every other tab that was *)
(* signed in is crossed.                                                       *)
LEMMA SignedInSigned ==
  ASSUME SessionSafe, NEW c \in Requests, Session!SignedIn(c) PROVE SessionSafe'
<1>1. PICK a, t : a = call[c].account /\ t = call[c].tab
  OBVIOUS
<1>2. a \in Session!Signed /\ t \in Windows
  BY <1>1, SignedParts DEF Session!SignedIn, SoundCall, CallRecord
<1>3. stored' = [token |-> a, user |-> a, live |-> TRUE]
  BY <1>1 DEF Session!SignedIn
<1>4. stored' \in StoreRecord /\ stored'.token = a /\ stored'.user = a
  BY <1>2, <1>3 DEF StoreRecord
<1>5. /\ window[t] \in WindowRecord /\ window \in [Windows -> WindowRecord]
      /\ (t \notin strayed => OwnWindow(window[t]))
      /\ (t \notin strayed \cup foreign => OwnTenant(window[t]))
  BY <1>2, SignedParts
<1>6. Session!Others(t) \subseteq Windows /\ strayed \subseteq Windows
      /\ \A u \in Windows \ {t} : u \in Session!Others(t) \/ ~Session!Authenticated(window[u])
  BY SignedParts DEF Session!Others
<1>7. UNCHANGED <<area, owns, asked, foreign, torn>>
  BY DEF Session!SignedIn
<1>8. \E w \in WindowRecord :
        /\ window' = [window EXCEPT ![t] = w]
        /\ strayed \cup Session!Others(t) \subseteq strayed' /\ strayed' \subseteq Windows
        /\ t \notin strayed' => OwnWindow(w) /\ w.token = a
        /\ t \notin strayed' \cup foreign => OwnTenant(w)
  <2>1. CASE Session!Authenticated(window[t])
    <3>1. PICK w : w = [window[t] EXCEPT !.token = a, !.user = a]
      OBVIOUS
    <3>2. w \in WindowRecord
      BY <1>2, <1>5, <3>1 DEF WindowRecord
    <3>3. window' = [window EXCEPT ![t] = w]
      BY <1>1, <1>5, <2>1, <3>1 DEF Session!SignedIn
    <3>4. strayed' = strayed \cup Session!Others(t) \cup {t}
      BY <1>1, <2>1 DEF Session!SignedIn
    <3> QED BY <1>2, <1>6, <3>2, <3>3, <3>4
  <2>2. CASE ~Session!Authenticated(window[t]) /\ area = "app"
    <3>1. PICK w : w = [window[t] EXCEPT !.token = a, !.user = a, !.load = "sent",
                                         !.sent = a]
      OBVIOUS
    <3>2. /\ w \in WindowRecord /\ w.token = a /\ w.user = a /\ w.load = "sent"
          /\ w.sent = a /\ w.tenant = window[t].tenant
      BY <1>2, <1>5, <3>1 DEF WindowRecord
    <3>3. window' = [window EXCEPT ![t] = w]
      BY <1>1, <1>5, <2>2, <3>1 DEF Session!SignedIn
    <3>4. strayed' = strayed \cup Session!Others(t)
      BY <1>1, <2>2 DEF Session!SignedIn
    <3>5. /\ t \notin strayed => OwnWindow(w)
          /\ t \notin strayed \cup foreign => OwnTenant(w)
      BY <1>5, <2>2, <3>2 DEF OwnWindow, OwnTenant, Session!Authenticated
    <3> QED BY <1>2, <1>6, <3>2, <3>3, <3>4, <3>5
  <2>3. CASE ~Session!Authenticated(window[t]) /\ area # "app"
    <3>1. PICK z : z = Session!SignedOut
      OBVIOUS
    <3>2. PICK w : w = [z EXCEPT !.token = a, !.user = a]
      OBVIOUS
    <3>3. z \in WindowRecord /\ z.tenant = Nothing /\ z.load = "none"
      BY <3>1, SignedOutTyped DEF Session!SignedOut
    <3>4. /\ w \in WindowRecord /\ w.token = a /\ w.user = a /\ w.load = "none"
          /\ w.tenant = Nothing
      BY <1>2, <3>2, <3>3 DEF WindowRecord
    <3>5. window' = [window EXCEPT ![t] = w]
      BY <1>1, <2>3, <3>1, <3>2 DEF Session!SignedIn
    <3>6. strayed' = strayed \cup Session!Others(t)
      BY <1>1, <2>3 DEF Session!SignedIn
    <3>7. OwnWindow(w) /\ OwnTenant(w)
      BY <3>4 DEF OwnWindow, OwnTenant
    <3> QED BY <1>6, <3>4, <3>5, <3>6, <3>7
  <2> QED BY <2>1, <2>2, <2>3
<1>9. PICK w \in WindowRecord :
        /\ window' = [window EXCEPT ![t] = w]
        /\ strayed \cup Session!Others(t) \subseteq strayed' /\ strayed' \subseteq Windows
        /\ t \notin strayed' => OwnWindow(w) /\ w.token = a
        /\ t \notin strayed' \cup foreign => OwnTenant(w)
  BY <1>8
<1>10. /\ window' \in [Windows -> WindowRecord] /\ window'[t] = w
       /\ \A u \in Windows \ {t} : window'[u] = window[u]
  BY <1>2, <1>5, <1>9
<1>11. \A u \in Windows \ strayed' : OwnWindow(window'[u])
  BY <1>9, <1>10, SignedParts
<1>12. \A u \in Windows \ strayed' :
         Session!Authenticated(window'[u]) => stored'.token = window'[u].token
  BY <1>4, <1>6, <1>9, <1>10
<1>15. \A u \in Windows \ (strayed' \cup foreign') : OwnTenant(window'[u])
  <2> SUFFICES ASSUME NEW u \in Windows \ (strayed' \cup foreign') PROVE OwnTenant(window'[u])
    OBVIOUS
  <2>1. u \notin strayed /\ u \notin foreign
    BY <1>7, <1>9
  <2>2. CASE u = t
    BY <1>7, <1>9, <1>10, <2>2
  <2>3. CASE u # t
    BY <1>10, <2>1, <2>3, SignedParts
  <2> QED BY <2>2, <2>3
<1>13. call' \in [Requests -> CallRecord] /\ \A d \in Requests : SoundCall(call'[d])
  BY EndedCall DEF Session!SignedIn
<1>14. asked' \in 0 .. MaxAsked /\ torn' \in BOOLEAN /\ owns' \subseteq Accounts
       /\ foreign' \subseteq Windows
  BY <1>7, SignedParts
<1> HIDE <1>8, <1>6, <1>5, <1>3, <1>2, <1>1
<1> QED BY <1>4, <1>7, <1>9, <1>10, <1>11, <1>12, <1>13, <1>14, <1>15, SignedAgain

LEMMA TenantSetSigned ==
  ASSUME SessionSafe, NEW c \in Requests, Session!TenantSet(c) PROVE SessionSafe'
<1>1. PICK t, n : t = call[c].tab /\ n = call[c].got
  OBVIOUS
<1>2. t \in Windows /\ n \in Session!Signed
  BY <1>1, SignedParts DEF Session!TenantSet, Session!Settings, SoundCall, CallRecord
<1>3. PICK w : w = [window[t] EXCEPT !.tenant = n]
  OBVIOUS
<1>4. /\ window[t] \in WindowRecord /\ window \in [Windows -> WindowRecord]
      /\ (t \notin strayed => OwnWindow(window[t]))
  BY <1>2, SignedParts
<1>5. /\ w \in WindowRecord /\ w.token = window[t].token /\ w.user = window[t].user
      /\ w.tenant = n /\ w.load = window[t].load /\ w.sent = window[t].sent
      /\ w.got = window[t].got
  BY <1>2, <1>3, <1>4 DEF WindowRecord
<1>6. /\ window' = [window EXCEPT ![t] = w]
      /\ foreign' = IF call[c].ours /\ window[t].user = call[c].account
                    THEN foreign \ {t} ELSE foreign \cup {t}
      /\ UNCHANGED <<area, stored, owns, asked, strayed, torn>>
  BY <1>1, <1>3, <1>4 DEF Session!TenantSet
<1>7. t \notin strayed => OwnWindow(w)
  BY <1>4, <1>5 DEF OwnWindow
<1>8. t \notin foreign' => OwnTenant(w)
  <2>1. call[c].ours => n \in {Nothing, call[c].account}
    BY <1>1, SignedParts DEF SoundCall
  <2>2. t \notin foreign' => call[c].ours /\ window[t].user = call[c].account
    BY <1>6
  <2> QED BY <1>5, <2>1, <2>2 DEF OwnTenant
<1>9. call' \in [Requests -> CallRecord] /\ \A d \in Requests : SoundCall(call'[d])
  BY EndedCall DEF Session!TenantSet
<1>10. foreign' \in {foreign, foreign \cup {t}, foreign \ {t}} /\ asked' \in 0 .. MaxAsked
  BY <1>6, SignedParts
<1> QED BY <1>2, <1>5, <1>6, <1>7, <1>8, <1>9, <1>10, WindowStep

(* Only the stored user is written, and torn says whose.                       *)
LEMMA SavedSigned ==
  ASSUME SessionSafe, NEW c \in Requests, Session!Saved(c) PROVE SessionSafe'
<1>1. PICK t, a : t = call[c].tab /\ a = window[t].user
  OBVIOUS
<1>2. t \in Windows
  BY <1>1, SignedParts DEF Session!Saved, SoundCall
<1>3. a \in Session!Signed /\ stored \in StoreRecord
  BY <1>1, <1>2, SignedParts DEF WindowRecord
<1>4. /\ stored' = IF a = Nothing THEN stored ELSE [stored EXCEPT !.user = a]
      /\ torn' = (torn \/ (a # Nothing /\ stored.user # a))
      /\ UNCHANGED <<area, window, owns, asked, strayed, foreign>>
  BY <1>1 DEF Session!Saved
<1>5. stored' \in StoreRecord /\ stored'.token = stored.token
      /\ stored'.user = IF a = Nothing THEN stored.user ELSE a
  BY <1>3, <1>4 DEF StoreRecord
<1>6. torn' \in BOOLEAN /\ (~torn' => stored'.user = stored'.token)
  BY <1>4, <1>5, SignedParts
<1>7. call' \in [Requests -> CallRecord] /\ \A d \in Requests : SoundCall(call'[d])
  BY EndedCall DEF Session!Saved
<1>8. /\ \A u \in Windows \ strayed' : OwnWindow(window'[u])
      /\ \A u \in Windows \ (strayed' \cup foreign') : OwnTenant(window'[u])
      /\ owns' \subseteq Accounts /\ foreign' \subseteq Windows
      /\ \A u \in Windows \ strayed' :
           Session!Authenticated(window'[u]) => stored'.token = window'[u].token
      /\ window' \in [Windows -> WindowRecord] /\ asked' \in 0 .. MaxAsked
      /\ strayed' \subseteq Windows
  BY <1>4, <1>5, SignedParts
<1> QED BY <1>4, <1>5, <1>6, <1>7, <1>8, SignedAgain

-----------------------------------------------------------------------------
LEMMA InitSigned == Session!Init => SessionSafe
<1> SUFFICES ASSUME Session!Init PROVE SessionSafe
  OBVIOUS
<1>1. Session!SignedOut \in WindowRecord /\ OwnWindow(Session!SignedOut)
      /\ OwnTenant(Session!SignedOut) /\ ~Session!Authenticated(Session!SignedOut)
  BY SignedOutTyped
<1>2. Session!NoStore \in StoreRecord /\ Session!NoStore.user = Session!NoStore.token
  BY DEF Session!NoStore, StoreRecord, Session!Signed
<1>3. 0 \in 0 .. MaxAsked
  BY BrowserAssumption
<1>4. /\ window \in [Windows -> WindowRecord] /\ call \in [Requests -> CallRecord]
      /\ stored \in StoreRecord
  BY <1>1, <1>2, NoTaskSound DEF Session!Init
<1>5. Session!TypeOK
  BY <1>3, <1>4 DEF Session!Init, Session!TypeOK, StoreRecord, WindowRecord, CallRecord
<1>6. CallsSound /\ WindowsOwn /\ TenantsOwn
  BY <1>1, NoTaskSound DEF Session!Init, CallsSound, WindowsOwn, TenantsOwn
<1>7. Session!TokenIsOwn /\ Session!StoredIsOne
  BY <1>1, <1>2 DEF Session!Init, Session!TokenIsOwn, Session!StoredIsOne
<1> QED BY <1>5, <1>6, <1>7 DEF SessionSafe

LEMMA NextSigned == SessionSafe /\ [Session!Next]_(Session!vars) => SessionSafe'
<1> SUFFICES ASSUME SessionSafe, [Session!Next]_(Session!vars) PROVE SessionSafe'
  OBVIOUS
<1>1. ASSUME NEW t \in Windows, Session!Reload(t) \/ Session!Logout(t) \/ Session!LoadReads(t) \/ Session!LoadAnswers(t)
      PROVE  SessionSafe'
  BY <1>1, ReloadSigned, LogoutSigned, LoadReadsSigned, LoadAnswersSigned
<1>2. CASE Session!TokenExpires
  BY <1>2, TokenExpiresSigned
<1>3. ASSUME NEW c \in Requests, NEW t \in Windows,
             \/ Session!StartRefresh(c, t) \/ Session!StartSubmit(c, t) \/ Session!StartSave(c, t)
             \/ \E form \in {"create", "resume"} : Session!StartOnboarding(c, t, form)
             \/ \E a \in Accounts : Session!StartSignIn(c, t, a)
      PROVE  SessionSafe'
  BY <1>3, StartsSigned
<1>4. ASSUME NEW c \in Requests,
             \/ Session!PasswordChecked(c) \/ Session!CodeChecked(c) \/ Session!RequestRefused(c)
             \/ Session!RefreshReads(c) \/ Session!CreateWrites(c) \/ Session!ResumeReads(c)
             \/ Session!SubmitWrites(c) \/ Session!SaveWrites(c)
      PROVE  SessionSafe'
  BY <1>4, ServedCall
<1>5. ASSUME NEW c \in Requests, Session!SignedIn(c) \/ Session!TenantSet(c) \/ Session!Saved(c)
      PROVE  SessionSafe'
  BY <1>5, SignedInSigned, TenantSetSigned, SavedSigned
<1>6. CASE UNCHANGED Session!vars
  <2>1. UNCHANGED <<area, stored, window, call, owns, asked, strayed, foreign, torn>>
    BY <1>6 DEF Session!vars
  <2>2. /\ window' \in [Windows -> WindowRecord] /\ call' \in [Requests -> CallRecord]
        /\ stored' \in StoreRecord /\ asked' \in 0 .. MaxAsked /\ strayed' \subseteq Windows
        /\ torn' \in BOOLEAN /\ (~torn' => stored'.user = stored'.token)
        /\ owns' \subseteq Accounts /\ foreign' \subseteq Windows
    BY <2>1, SignedParts
  <2>3. /\ \A d \in Requests : SoundCall(call'[d])
        /\ \A u \in Windows \ strayed' : OwnWindow(window'[u])
        /\ \A u \in Windows \ (strayed' \cup foreign') : OwnTenant(window'[u])
        /\ \A u \in Windows \ strayed' :
             Session!Authenticated(window'[u]) => stored'.token = window'[u].token
    BY <2>1, SignedParts
  <2> QED BY <2>1, <2>2, <2>3, SignedAgain
<1> QED BY <1>1, <1>2, <1>3, <1>4, <1>5, <1>6 DEF Session!Next

(* Whatever is reloaded, signed out or answered late, a tab that nothing       *)
(* crossed speaks for its account, and shows the organization of its account   *)
(* or none unless one was set that nobody looked up for the account; and what  *)
(* is stored is of one account (lib/storage.ts, AuthContext.tsx,               *)
(* TenantContext.tsx, OnboardingPage.tsx).                                     *)
THEOREM ShownIsSessionAlways == Session!Spec => []ShownIsSession
<1>1. SessionSafe => ShownIsSession
  <2>1. SessionSafe => Session!TenantIsOwn
    BY DEF SessionSafe, TenantsOwn, OwnTenant, Session!TenantIsOwn
  <2> QED BY <2>1 DEF SessionSafe, Session!ShownIsSession, ShownIsSession
<1> QED BY <1>1, InitSigned, NextSigned, PTL DEF Session!Spec

-----------------------------------------------------------------------------
(* Pages: what the descriptions of the pages have in common.                   *)

(* The operations of a service keep a final status final.                      *)
KeepsFinal(o) ==
  \A op \in DOMAIN o : \A s \in DOMAIN o[op] :
    s \in Paging!Final => o[op][s] \in Paging!Final

(* What the list of a page says, and what the page adds to it.                 *)
SoundList(l) ==
  /\ DOMAIN l = {"filters", "hides", "paged", "touched", "tally"}
  /\ l.filters # {}

SoundSide(p) ==
  /\ DOMAIN p = {"ops", "offers", "starts", "back", "drops", "clears", "busy", "dialogs",
                 "free", "after", "leaves"}
  /\ KeepsFinal(p.ops) /\ DOMAIN p.offers \subseteq DOMAIN p.ops
  /\ p.back => p.drops
  /\ p.drops => p.after \in {"patch", "reload"}
  /\ p.after = "await" => ~p.drops /\ p.leaves = {}

SoundPage(p) ==
  /\ p.filters # {}
  /\ KeepsFinal(p.ops) /\ DOMAIN p.offers \subseteq DOMAIN p.ops
  /\ p.paged \/ p.back => p.drops
  /\ p.drops => p.after \in {"patch", "reload"}
  /\ p.after = "await" => ~p.drops /\ p.leaves = {}

LEMMA JoinedPage ==
  ASSUME NEW p, NEW l, SoundSide(p), SoundList(l), l.paged => p.drops
  PROVE  SoundPage(Joined(p, l))
<1>1. PICK j : j = Joined(p, l)
  OBVIOUS
<1>2. j.filters = l.filters /\ j.paged = l.paged
  BY <1>1 DEF Joined, SoundSide, SoundList
<1>3. /\ j.ops = p.ops /\ j.offers = p.offers /\ j.back = p.back
      /\ j.drops = p.drops /\ j.after = p.after /\ j.leaves = p.leaves
  BY <1>1 DEF Joined, SoundSide, SoundList
<1> QED BY <1>1, <1>2, <1>3 DEF SoundPage, SoundSide, SoundList

LEMMA JoinedFinal ==
  ASSUME NEW f, NEW g, KeepsFinal(f), KeepsFinal(g) PROVE KeepsFinal(Joined(f, g))
BY DEF KeepsFinal, Joined

(* The lists of the services. *)
LEMMA SoundLists ==
  /\ SoundList(MessageRows)
  /\ SoundList(MessageRow) /\ ~MessageRow.paged
  /\ SoundList(UserRows)
  /\ SoundList(OrganizationRows)
  /\ SoundList(OrganizationRow) /\ ~OrganizationRow.paged
  /\ SoundList(PaymentRows) /\ ~PaymentRows.paged
  /\ SoundList(RevenueRows) /\ ~RevenueRows.paged
  /\ SoundList(DocRows) /\ ~DocRows.paged
  /\ SoundList(DocRow) /\ ~DocRow.paged
  /\ SoundList(FlagRows) /\ ~FlagRows.paged
  /\ SoundList(MemberRows) /\ ~MemberRows.paged
  /\ SoundList(KeyRows) /\ ~KeyRows.paged
  /\ SoundList(DestinationRow) /\ ~DestinationRow.paged
  /\ SoundList(DestinationRows) /\ ~DestinationRows.paged
  /\ SoundList(DeliveryRows)
  /\ SoundList(FailedRows)
  /\ SoundList(AddressRows) /\ ~AddressRows.paged
  /\ SoundList(EventRows)
  /\ SoundList(AdminEventRows)
  /\ SoundList(AdminDeliveryRows)
  /\ SoundList(AdminDeliveryRow) /\ ~AdminDeliveryRow.paged
  /\ SoundList(EventRow) /\ ~EventRow.paged
  /\ SoundList(AdminEventRow) /\ ~AdminEventRow.paged
  /\ SoundList(ArticleRow) /\ ~ArticleRow.paged
  /\ SoundList(ArticleRows) /\ ~ArticleRows.paged
  /\ SoundList(OverviewRows) /\ ~OverviewRows.paged
  /\ SoundList(AdminOverviewRows) /\ ~AdminOverviewRows.paged
  /\ SoundList(UsageRows) /\ ~UsageRows.paged
  /\ SoundList(HealthRows) /\ ~HealthRows.paged
<1>1. SoundList(Listing) /\ ~Listing.paged
  BY DEF SoundList, Listing
<1>2. SoundList(Paged)
  BY <1>1 DEF SoundList, Paged
<1>3. SoundList(Searched)
  BY <1>2 DEF SoundList, Searched
<1>4. SoundList(Single) /\ ~Single.paged
  BY <1>1 DEF SoundList, Single
<1>5. SoundList(DeliveryRows)
  BY <1>2 DEF SoundList, DeliveryRows
<1> QED BY <1>1, <1>2, <1>3, <1>4, <1>5 DEF
         SoundList, MessageRows, MessageRow, UserRows,
         OrganizationRows, OrganizationRow, PaymentRows,
         RevenueRows, DocRows, DocRow, FlagRows,
         MemberRows, KeyRows, DestinationRow,
         DestinationRows, FailedRows, AddressRows,
         EventRows, AdminEventRows, AdminDeliveryRows,
         AdminDeliveryRow, EventRow, AdminEventRow,
         ArticleRow, ArticleRows, OverviewRows,
         AdminOverviewRows, UsageRows, HealthRows

(* The operations of the services: findUnique, the refusals and the status     *)
(* written (admin.service.ts, org.service.ts, apiKey.service.ts and others).   *)
LEMMA FinalKept ==
  /\ KeepsFinal(Contact)
  /\ KeepsFinal(Users)
  /\ KeepsFinal(Organizations)
  /\ KeepsFinal(Payments)
  /\ KeepsFinal(Docs)
  /\ KeepsFinal(Flags)
  /\ KeepsFinal(Members)
  /\ KeepsFinal(Invitations)
  /\ KeepsFinal(Keys)
  /\ KeepsFinal(Destinations)
  /\ KeepsFinal(Deliveries)
  /\ KeepsFinal(Addresses)
  /\ KeepsFinal(NoOps)
<1>1. KeepsFinal(Contact)
  BY DEF KeepsFinal, Paging!Final, Contact, Reply, To, OpenMessage, AnyMessage
<1>2. KeepsFinal(Users)
  <2>1. KeepsFinal(UserStatus)
    BY DEF KeepsFinal, Paging!Final, UserStatus, To, AnyUser
  <2>2. KeepsFinal(UserMfa)
    BY DEF KeepsFinal, Paging!Final, UserMfa, Keeps, AnyUser
  <2> QED BY <2>1, <2>2, JoinedFinal DEF Users
<1>3. KeepsFinal(Organizations)
  <2>1. KeepsFinal(OrganizationStatus)
    BY DEF KeepsFinal, Paging!Final, OrganizationStatus, To, AnyOrganization
  <2>2. KeepsFinal(OrganizationDeletion)
    BY DEF KeepsFinal, Paging!Final, OrganizationDeletion, To, AnyOrganization
  <2> QED BY <2>1, <2>2, JoinedFinal DEF Organizations
<1>4. KeepsFinal(Payments)
  BY DEF KeepsFinal, Paging!Final, Payments, To
<1>5. KeepsFinal(Docs)
  BY DEF KeepsFinal, Paging!Final, Docs, To
<1>6. KeepsFinal(Flags)
  BY DEF KeepsFinal, Paging!Final, Flags, To
<1>7. KeepsFinal(Members)
  <2>1. KeepsFinal(Removal)
    BY DEF KeepsFinal, Paging!Final, Removal, To, AnyMember
  <2>2. KeepsFinal(RoleChange)
    BY DEF KeepsFinal, Paging!Final, RoleChange, To, AnyMember
  <2> QED BY <2>1, <2>2, JoinedFinal DEF Members
<1>8. KeepsFinal(Invitations)
  <2>1. KeepsFinal(Response)
    BY DEF KeepsFinal, Paging!Final, Response, To
  <2>2. KeepsFinal([revoke |-> To({"PENDING", "EXPIRED"}, "EXPIRED"),
                      resend |-> To({"PENDING"}, "PENDING")])
    BY DEF KeepsFinal, Paging!Final, To
  <2> QED BY <2>1, <2>2, JoinedFinal DEF Invitations
<1>9. KeepsFinal(Keys)
  BY DEF KeepsFinal, Paging!Final, Keys, To
<1>10. KeepsFinal(Destinations)
  <2>1. KeepsFinal(Pausing)
    BY DEF KeepsFinal, Paging!Final, Pausing, To
  <2>2. KeepsFinal(Resuming)
    BY DEF KeepsFinal, Paging!Final, Resuming, To
  <2> QED BY <2>1, <2>2, JoinedFinal DEF Destinations
<1>11. KeepsFinal(Deliveries)
  <2>1. KeepsFinal(Replay)
    BY DEF KeepsFinal, Paging!Final, Replay, To
  <2>2. KeepsFinal([deliver |-> To({"PENDING"}, "SUCCESS"),
                      exhaust |-> To({"PENDING"}, "DEAD_LETTER"),
                      park |-> To({"PENDING"}, "PAUSED")])
    BY DEF KeepsFinal, Paging!Final, To
  <2> QED BY <2>1, <2>2, JoinedFinal DEF Deliveries
<1>12. KeepsFinal(Addresses)
  BY DEF KeepsFinal, Paging!Final, Addresses, To
<1>13. KeepsFinal(NoOps)
  BY DEF KeepsFinal, Paging!Final, NoOps, To
<1> QED BY <1>1, <1>2, <1>3, <1>4, <1>5, <1>6, <1>7, <1>8, <1>9, <1>10, <1>11, <1>12, <1>13

(* A page offers only what its service does. *)
LEMMA OfferedIsDone ==
  /\ DOMAIN InboxOffers \subseteq DOMAIN Contact
  /\ DOMAIN MessageOffers \subseteq DOMAIN Contact
  /\ DOMAIN UserOffers \subseteq DOMAIN Users
  /\ DOMAIN ToggleOffers \subseteq DOMAIN Organizations
  /\ DOMAIN OrganizationOffers \subseteq DOMAIN Organizations
  /\ DOMAIN PaymentOffers \subseteq DOMAIN Payments
  /\ DOMAIN DocsOffers \subseteq DOMAIN Docs
  /\ DOMAIN DocOffers \subseteq DOMAIN Docs
  /\ DOMAIN FlagOffers \subseteq DOMAIN Flags
  /\ DOMAIN MemberOffers \subseteq DOMAIN Members
  /\ DOMAIN InvitationOffers \subseteq DOMAIN Invitations
  /\ DOMAIN KeyOffers \subseteq DOMAIN Keys
  /\ DOMAIN DestinationOffers \subseteq DOMAIN Destinations
  /\ DOMAIN ReplayOffers \subseteq DOMAIN Deliveries
  /\ DOMAIN ProfileOffers \subseteq DOMAIN Addresses
<1>1. DOMAIN InboxOffers \subseteq DOMAIN Contact
  BY DEF InboxOffers, Contact
<1>2. DOMAIN MessageOffers \subseteq DOMAIN Contact
  BY DEF MessageOffers, Contact
<1>3. DOMAIN UserOffers \subseteq DOMAIN Users
  BY DEF UserOffers, Users, Joined, UserStatus, UserMfa
<1>4. DOMAIN ToggleOffers \subseteq DOMAIN Organizations
  BY DEF ToggleOffers, Organizations, Joined, OrganizationStatus, OrganizationDeletion
<1>5. DOMAIN OrganizationOffers \subseteq DOMAIN Organizations
  BY DEF OrganizationOffers, Organizations, Joined, OrganizationStatus, OrganizationDeletion, ToggleOffers
<1>6. DOMAIN PaymentOffers \subseteq DOMAIN Payments
  BY DEF PaymentOffers, Payments
<1>7. DOMAIN DocsOffers \subseteq DOMAIN Docs
  BY DEF DocsOffers, Docs
<1>8. DOMAIN DocOffers \subseteq DOMAIN Docs
  BY DEF DocOffers, Docs
<1>9. DOMAIN FlagOffers \subseteq DOMAIN Flags
  BY DEF FlagOffers, Flags
<1>10. DOMAIN MemberOffers \subseteq DOMAIN Members
  BY DEF MemberOffers, Members, Joined, Removal, RoleChange
<1>11. DOMAIN InvitationOffers \subseteq DOMAIN Invitations
  BY DEF InvitationOffers, Invitations, Joined, Response
<1>12. DOMAIN KeyOffers \subseteq DOMAIN Keys
  BY DEF KeyOffers, Keys
<1>13. DOMAIN DestinationOffers \subseteq DOMAIN Destinations
  BY DEF DestinationOffers, Destinations, Joined, Pausing, Resuming
<1>14. DOMAIN ReplayOffers \subseteq DOMAIN Deliveries
  BY DEF ReplayOffers, Deliveries, Joined, Replay
<1>15. DOMAIN ProfileOffers \subseteq DOMAIN Addresses
  BY DEF ProfileOffers, Addresses
<1> QED BY <1>1, <1>2, <1>3, <1>4, <1>5, <1>6, <1>7, <1>8, <1>9, <1>10, <1>11, <1>12,
    <1>13, <1>14, <1>15

(* A page as it is before its own fields are set. *)
LEMMA PlainPages ==
  \A p \in {Page, TurnedPage} :
    /\ SoundSide(p)
    /\ p.ops = NoOps /\ p.offers = NoOps /\ p.drops /\ p.after = "patch"
    /\ p.leaves = {}
    /\ DOMAIN NoOps = {} /\ ~Page.back
<1>1. /\ SoundSide(Page)
      /\ Page.ops = NoOps /\ Page.offers = NoOps
      /\ Page.drops /\ Page.after = "patch" /\ Page.leaves = {}
  BY FinalKept DEF Page, SoundSide
<1>2. /\ SoundSide(TurnedPage)
      /\ TurnedPage.ops = NoOps /\ TurnedPage.offers = NoOps
      /\ TurnedPage.drops /\ TurnedPage.after = "patch"
      /\ TurnedPage.leaves = {}
  BY <1>1 DEF TurnedPage, SoundSide
<1>3. DOMAIN NoOps = {} /\ ~Page.back
  BY DEF NoOps, To, Page
<1> QED BY <1>1, <1>2, <1>3

(* The pages. *)
LEMMA SoundSides ==
  /\ SoundSide(InboxPage) /\ InboxPage.drops
  /\ SoundSide(MessagePage) /\ MessagePage.drops
  /\ SoundSide(UsersPage) /\ UsersPage.drops
  /\ SoundSide(OrganizationsPage) /\ OrganizationsPage.drops
  /\ SoundSide(OrganizationPage) /\ OrganizationPage.drops
  /\ SoundSide(PaymentsPage)
  /\ SoundSide(RevenuePage) /\ RevenuePage.drops
  /\ SoundSide(DocsPage) /\ DocsPage.drops
  /\ SoundSide(DocPage) /\ DocPage.drops
  /\ SoundSide(FlagsPage) /\ FlagsPage.drops
  /\ SoundSide(MembersPage)
  /\ SoundSide(InvitationsPage)
  /\ SoundSide(KeysPage)
  /\ SoundSide(DestinationPage) /\ DestinationPage.drops
  /\ SoundSide(DestinationsPage) /\ DestinationsPage.drops
  /\ SoundSide(DeliveriesPage) /\ DeliveriesPage.drops
  /\ SoundSide(FailedPage) /\ FailedPage.drops
  /\ SoundSide(ProfilePage) /\ ProfilePage.drops
  /\ SoundSide(EventsPage) /\ EventsPage.drops
  /\ SoundSide(AdminEventsPage) /\ AdminEventsPage.drops
  /\ SoundSide(AdminDeliveriesPage) /\ AdminDeliveriesPage.drops
  /\ SoundSide(DeliveryPage) /\ DeliveryPage.drops
  /\ SoundSide(EventPage) /\ EventPage.drops
  /\ SoundSide(AdminEventPage) /\ AdminEventPage.drops
  /\ SoundSide(ArticlePage) /\ ArticlePage.drops
  /\ SoundSide(ArticlesPage) /\ ArticlesPage.drops
  /\ SoundSide(OverviewPage) /\ OverviewPage.drops
  /\ SoundSide(AdminOverviewPage) /\ AdminOverviewPage.drops
  /\ SoundSide(UsagePage) /\ UsagePage.drops
  /\ SoundSide(HealthPage) /\ HealthPage.drops
<1>p. PICK p, t : /\ p = Page /\ t = TurnedPage
  OBVIOUS
<1>1. SoundSide(InboxPage) /\ InboxPage.drops
  BY PlainPages, FinalKept, OfferedIsDone DEF SoundSide, InboxPage
<1>2. SoundSide(MessagePage) /\ MessagePage.drops
  BY PlainPages, FinalKept, OfferedIsDone DEF SoundSide, MessagePage
<1>3. SoundSide(UsersPage) /\ UsersPage.drops
  BY PlainPages, FinalKept, OfferedIsDone DEF SoundSide, UsersPage
<1>4. SoundSide(OrganizationsPage) /\ OrganizationsPage.drops
  BY PlainPages, FinalKept, OfferedIsDone DEF SoundSide, OrganizationsPage
<1>5. SoundSide(OrganizationPage) /\ OrganizationPage.drops
  BY PlainPages, FinalKept, OfferedIsDone DEF SoundSide, OrganizationPage
<1>6. SoundSide(PaymentsPage)
  BY PlainPages, FinalKept, OfferedIsDone DEF SoundSide, PaymentsPage
<1>7. SoundSide(RevenuePage) /\ RevenuePage.drops
  BY PlainPages, FinalKept, OfferedIsDone DEF SoundSide, RevenuePage
<1>8. SoundSide(DocsPage) /\ DocsPage.drops
  BY PlainPages, FinalKept, OfferedIsDone DEF SoundSide, DocsPage
<1>9. SoundSide(DocPage) /\ DocPage.drops
  BY PlainPages, FinalKept, OfferedIsDone DEF SoundSide, DocPage
<1>10. SoundSide(FlagsPage) /\ FlagsPage.drops
  BY PlainPages, FinalKept, OfferedIsDone DEF SoundSide, FlagsPage
<1>11. SoundSide(MembersPage) /\ MembersPage.leaves = {}
  BY PlainPages, FinalKept, OfferedIsDone DEF SoundSide, MembersPage
<1>12. SoundSide(InvitationsPage)
  BY <1>11, FinalKept, OfferedIsDone DEF SoundSide, InvitationsPage
<1>13. SoundSide(KeysPage)
  BY PlainPages, FinalKept, OfferedIsDone DEF SoundSide, KeysPage
<1>14. SoundSide(DestinationPage) /\ DestinationPage.drops
  BY PlainPages, FinalKept, OfferedIsDone DEF SoundSide, DestinationPage
<1>15. SoundSide(DestinationsPage) /\ DestinationsPage.drops
  BY PlainPages, FinalKept, OfferedIsDone DEF SoundSide, DestinationsPage
<1>16. SoundSide(DeliveriesPage) /\ DeliveriesPage.drops
  BY PlainPages, FinalKept, OfferedIsDone DEF SoundSide, DeliveriesPage
<1>17. SoundSide(FailedPage) /\ FailedPage.drops
  BY PlainPages, FinalKept, OfferedIsDone DEF SoundSide, FailedPage
<1>18. SoundSide(ProfilePage) /\ ProfilePage.drops
  BY PlainPages, FinalKept, OfferedIsDone DEF SoundSide, ProfilePage
<1>19. SoundSide(EventsPage) /\ EventsPage.drops
  BY PlainPages, FinalKept, OfferedIsDone DEF SoundSide, EventsPage
<1>20. SoundSide(AdminEventsPage) /\ AdminEventsPage.drops
  BY PlainPages, FinalKept, OfferedIsDone DEF SoundSide, AdminEventsPage
<1>21. SoundSide(AdminDeliveriesPage) /\ AdminDeliveriesPage.drops
  BY <1>16 DEF SoundSide, AdminDeliveriesPage
<1>22. SoundSide(DeliveryPage) /\ DeliveryPage.drops
  BY PlainPages, FinalKept, OfferedIsDone DEF SoundSide, DeliveryPage
<1>23. SoundSide(EventPage) /\ EventPage.drops
  BY PlainPages, FinalKept, OfferedIsDone DEF SoundSide, EventPage
<1>24. SoundSide(AdminEventPage) /\ AdminEventPage.drops
  BY PlainPages, FinalKept, OfferedIsDone DEF SoundSide, AdminEventPage
<1>25. SoundSide(ArticlePage) /\ ArticlePage.drops
  BY PlainPages, FinalKept, OfferedIsDone DEF SoundSide, ArticlePage
<1>26. SoundSide(ArticlesPage) /\ ArticlesPage.drops
  BY PlainPages, FinalKept, OfferedIsDone DEF SoundSide, ArticlesPage
<1>27. SoundSide(OverviewPage) /\ OverviewPage.drops
  BY PlainPages, FinalKept, OfferedIsDone DEF SoundSide, OverviewPage
<1>28. SoundSide(AdminOverviewPage) /\ AdminOverviewPage.drops
  BY PlainPages, FinalKept, OfferedIsDone DEF SoundSide, AdminOverviewPage
<1>29. SoundSide(UsagePage) /\ UsagePage.drops
  BY <1>28 DEF SoundSide, UsagePage
<1>30. SoundSide(HealthPage) /\ HealthPage.drops
  BY <1>27 DEF SoundSide, HealthPage
<1> QED BY <1>1, <1>2, <1>3, <1>4, <1>5, <1>6, <1>7, <1>8, <1>9, <1>10, <1>11, <1>12,
    <1>13, <1>14, <1>15, <1>16, <1>17, <1>18, <1>19, <1>20, <1>21, <1>22, <1>23, <1>24,
    <1>25, <1>26, <1>27, <1>28, <1>29, <1>30

(* Every page of Pages is sound. *)
LEMMA SoundPages == \A k \in DOMAIN PageOf : SoundPage(PageOf[k])
<1>1. SoundPage(PageOf.inbox)
  BY SoundSides, SoundLists, JoinedPage DEF PageOf
<1>2. SoundPage(PageOf.message)
  BY SoundSides, SoundLists, JoinedPage DEF PageOf
<1>3. SoundPage(PageOf.users)
  BY SoundSides, SoundLists, JoinedPage DEF PageOf
<1>4. SoundPage(PageOf.organizations)
  BY SoundSides, SoundLists, JoinedPage DEF PageOf
<1>5. SoundPage(PageOf.organization)
  BY SoundSides, SoundLists, JoinedPage DEF PageOf
<1>6. SoundPage(PageOf.payments)
  BY SoundSides, SoundLists, JoinedPage DEF PageOf
<1>7. SoundPage(PageOf.revenue)
  BY SoundSides, SoundLists, JoinedPage DEF PageOf
<1>8. SoundPage(PageOf.docs)
  BY SoundSides, SoundLists, JoinedPage DEF PageOf
<1>9. SoundPage(PageOf.doc)
  BY SoundSides, SoundLists, JoinedPage DEF PageOf
<1>10. SoundPage(PageOf.flags)
  BY SoundSides, SoundLists, JoinedPage DEF PageOf
<1>11. SoundPage(PageOf.members)
  BY SoundSides, SoundLists, JoinedPage DEF PageOf
<1>12. SoundPage(PageOf.invitations)
  BY SoundSides, SoundLists, JoinedPage DEF PageOf
<1>13. SoundPage(PageOf.keys)
  BY SoundSides, SoundLists, JoinedPage DEF PageOf
<1>14. SoundPage(PageOf.destination)
  BY SoundSides, SoundLists, JoinedPage DEF PageOf
<1>15. SoundPage(PageOf.destinations)
  BY SoundSides, SoundLists, JoinedPage DEF PageOf
<1>16. SoundPage(PageOf.deliveries)
  BY SoundSides, SoundLists, JoinedPage DEF PageOf
<1>17. SoundPage(PageOf.failed)
  BY SoundSides, SoundLists, JoinedPage DEF PageOf
<1>18. SoundPage(PageOf.profile)
  BY SoundSides, SoundLists, JoinedPage DEF PageOf
<1>19. SoundPage(PageOf.events)
  BY SoundSides, SoundLists, JoinedPage DEF PageOf
<1>20. SoundPage(PageOf.admin_events)
  BY SoundSides, SoundLists, JoinedPage DEF PageOf
<1>21. SoundPage(PageOf.admin_deliveries)
  BY SoundSides, SoundLists, JoinedPage DEF PageOf
<1>22. SoundPage(PageOf.delivery)
  BY SoundSides, SoundLists, JoinedPage DEF PageOf
<1>23. SoundPage(PageOf.event)
  BY SoundSides, SoundLists, JoinedPage DEF PageOf
<1>24. SoundPage(PageOf.admin_event)
  BY SoundSides, SoundLists, JoinedPage DEF PageOf
<1>25. SoundPage(PageOf.article)
  BY SoundSides, SoundLists, JoinedPage DEF PageOf
<1>26. SoundPage(PageOf.articles)
  BY SoundSides, SoundLists, JoinedPage DEF PageOf
<1>27. SoundPage(PageOf.overview)
  BY SoundSides, SoundLists, JoinedPage DEF PageOf
<1>28. SoundPage(PageOf.admin_overview)
  BY SoundSides, SoundLists, JoinedPage DEF PageOf
<1>29. SoundPage(PageOf.usage)
  BY SoundSides, SoundLists, JoinedPage DEF PageOf
<1>30. SoundPage(PageOf.health)
  BY SoundSides, SoundLists, JoinedPage DEF PageOf
<1>d. DOMAIN PageOf = {"inbox", "message", "users", "organizations", "organization",
    "payments", "revenue", "docs", "doc", "flags", "members", "invitations", "keys",
    "destination", "destinations", "deliveries", "failed", "profile", "events",
    "admin_events", "admin_deliveries", "delivery", "event", "admin_event", "article",
    "articles", "overview", "admin_overview", "usage", "health"}
  BY DEF PageOf
<1> QED BY <1>d, <1>1, <1>2, <1>3, <1>4, <1>5, <1>6, <1>7, <1>8, <1>9, <1>10, <1>11,
    <1>12, <1>13, <1>14, <1>15, <1>16, <1>17, <1>18, <1>19, <1>20, <1>21, <1>22, <1>23,
    <1>24, <1>25, <1>26, <1>27, <1>28, <1>29, <1>30
-----------------------------------------------------------------------------
(* Pages: the invariant.                                                       *)

IsView(p, v) ==
  /\ DOMAIN v = {"filter", "page", "shown", "of", "total", "busy", "failed", "left"}
  /\ v.filter \in p.filters /\ v.page \in 1 .. 2
  /\ DOMAIN v.shown \subseteq Paging!Rows
  /\ v.of = Nothing \/ (v.of[1] \in p.filters /\ v.of[2] \in 1 .. 2)
  /\ v.busy \in Paging!Rows \cup {Nothing}

IsLoad(p, x) ==
  /\ DOMAIN x = {"stage", "read", "filter", "page", "got", "total", "awaited"}
  /\ x.stage \in {"idle", "sent"} /\ x.total \in 0 .. 2
  /\ x.stage = "sent" =>
       /\ x.filter \in p.filters /\ x.page \in 1 .. 2
       /\ x.awaited => p.after = "await"
       /\ "rows" \in x.read => DOMAIN x.got \subseteq Paging!Rows

(* A list under way was asked for what the controls say, and what it has read  *)
(* is not older than what the reader was told is written.                      *)
Current(x, v, m) == "list" \notin m => x.filter = v.filter /\ x.page = v.page
Recent(x, o, m) == "rows" \in x.read => \A r \in DOMAIN x.got \ m : x.got[r].ver >= o[r]

(* When no list is under way the page shows what it should.                    *)
Settled(ls, v, o, m) ==
  Paging!Pending(ls) = {} /\ ~v.failed /\ ~v.left =>
    /\ "list" \notin m => v.of = <<v.filter, v.page>>
    /\ \A r \in DOMAIN v.shown \ m : v.shown[r].ver >= o[r]

AreLoads(p, ls) == DOMAIN ls = 1 .. Loads /\ \A l \in 1 .. Loads : IsLoad(p, ls[l])
AreCurrent(ls, v, o, m) ==
  \A l \in Paging!Pending(ls) : Current(ls[l], v, m) /\ Recent(ls[l], o, m)
OneLoad(p, ls) == p.drops => \A l, k \in Paging!Pending(ls) : l = k

Lists(p, ls, v, o, m) ==
  /\ AreLoads(p, ls) /\ AreCurrent(ls, v, o, m) /\ OneLoad(p, ls) /\ Settled(ls, v, o, m)

IsRequest(p, x, rows) ==
  /\ DOMAIN x = {"stage", "op", "row", "mine", "saw", "ok", "got"}
  /\ x.stage \in {"idle", "sent", "checked", "done"}
  /\ x.stage = "idle" => ~x.mine
  /\ x.stage # "idle" => x.row \in Paging!Rows /\ x.op \in DOMAIN p.ops
  /\ x.stage = "checked" => x.saw \in DOMAIN p.ops[x.op]
  /\ x.stage = "done" /\ x.ok => x.got.ver \in Nat /\ x.got.ver <= rows[x.row].ver

AreRequests(p, qs, rows) ==
  DOMAIN qs = Requests /\ \A t \in Requests : IsRequest(p, qs[t], rows)

(* A write was begun before it is done: the versions of a row and the requests *)
(* still to write count what was begun.                                        *)
InFlight(qs) == {t \in Requests : qs[t].stage \in {"sent", "checked"}}
Begun(rows, qs, n) ==
  \A r \in Paging!Rows : rows[r].ver + Cardinality(InFlight(qs)) <= n

(* A button is held back for a request that holds it, or for the list that     *)
(* follows its success.                                                        *)
Awaits(ls) == \E l \in Paging!Pending(ls) : ls[l].awaited
Holds(p, qs) == \E t \in Requests : qs[t].mine /\ qs[t].op \notin p.free
HeldFor(p, v, qs, ls) == v.busy # Nothing => Holds(p, qs) \/ Awaits(ls)

(* The lists under way last, with what waits for them.                         *)
Lasts(ls, us) ==
  \A l \in Paging!Pending(ls) : l \in Paging!Pending(us) /\ us[l].awaited = ls[l].awaited

(* One list has ended.                                                         *)
EndedAt(ls, us, l) ==
  /\ Paging!Pending(us) = Paging!Pending(ls) \ {l}
  /\ \A k \in Paging!Pending(us) : us[k] = ls[k]

OwnIsWritten(o, rows) ==
  o \in [Paging!Rows -> Nat] /\ \A r \in Paging!Rows : o[r] <= rows[r].ver

RowsTyped(S, rows) == rows \in [Paging!Rows -> [status : S, ver : Nat]]

PageSafe ==
  /\ kind \in Kinds /\ first \in Paging!Rows
  /\ acted \in 0 .. MaxActed /\ missed \in 0 .. MaxMissed
  /\ RowsTyped(Paging!Statuses, row) /\ OwnIsWritten(own, row)
  /\ IsView(Paging!This, view) /\ Lists(Paging!This, load, view, own, mixed)
  /\ AreRequests(Paging!This, request, row) /\ Begun(row, request, acted)
  /\ HeldFor(Paging!This, view, request, load)

LEMMA ThisSound == kind \in Kinds => SoundPage(Paging!This)
BY BrowserAssumption, SoundPages DEF Paging!This

-----------------------------------------------------------------------------
(* Lists under way.                                                            *)

LEMMA NoLoadTyped ==
  ASSUME NEW p PROVE IsLoad(p, Paging!NoLoad) /\ Paging!NoLoad.stage = "idle"
BY DEF IsLoad, Paging!NoLoad

LEMMA AskedTyped ==
  ASSUME NEW p, NEW f \in p.filters, NEW g \in 1 .. 2, NEW a \in BOOLEAN,
         a => p.after = "await"
  PROVE  LET x == Paging!Asked(f, g, a)
         IN /\ IsLoad(p, x) /\ x.stage = "sent" /\ x.read = {} /\ x.filter = f /\ x.page = g
            /\ x.awaited = a
BY DEF IsLoad, Paging!NoLoad, Paging!Asked

(* What the cleanup of an effect leaves.                                       *)
LEMMA CancelledLoads ==
  ASSUME NEW p, p = Paging!This, NEW ls, AreLoads(p, ls), NEW c, c = Paging!Cancelled(ls)
  PROVE  /\ AreLoads(p, c)
         /\ p.drops => Paging!Pending(c) = {}
         /\ ~p.drops => c = ls
<1>1. CASE p.drops
  <2>1. c = [l \in 1 .. Loads |-> Paging!NoLoad]
    BY <1>1 DEF Paging!Cancelled
  <2>2. \A l \in 1 .. Loads : IsLoad(p, c[l]) /\ c[l].stage = "idle"
    BY <2>1, NoLoadTyped
  <2> QED BY <1>1, <2>1, <2>2 DEF AreLoads, Paging!Pending
<1>2. CASE ~p.drops
  BY <1>2 DEF Paging!Cancelled
<1> QED BY <1>1, <1>2

(* A list is asked for in a free place.                                        *)
LEMMA WithLoad ==
  ASSUME NEW p, NEW c, AreLoads(p, c), Paging!HasRoom(c), NEW x, IsLoad(p, x),
         x.stage = "sent", NEW us, us = Paging!With(c, x)
  PROVE  \E k \in 1 .. Loads :
           /\ us = [c EXCEPT ![k] = x] /\ k \notin Paging!Pending(c)
           /\ Paging!Pending(us) = Paging!Pending(c) \cup {k}
           /\ AreLoads(p, us)
<1>1. \A l \in 1 .. Loads : c[l].stage \in {"idle", "sent"}
  BY DEF AreLoads, IsLoad
<1>2. \E l \in 1 .. Loads : c[l].stage = "idle"
  BY <1>1 DEF Paging!HasRoom, Paging!Pending
<1>3. PICK k \in 1 .. Loads :
        /\ k = CHOOSE l \in 1 .. Loads : c[l].stage = "idle"
        /\ c[k].stage = "idle"
  BY <1>2
<1>4. us = [c EXCEPT ![k] = x]
  BY <1>3 DEF Paging!With
<1>5. DOMAIN c = 1 .. Loads
  BY DEF AreLoads
<1>6. us[k] = x /\ DOMAIN us = 1 .. Loads /\ \A l \in 1 .. Loads : l # k => us[l] = c[l]
  BY <1>4, <1>5
<1>7. AreLoads(p, us)
  BY <1>6 DEF AreLoads
<1>8. Paging!Pending(us) = Paging!Pending(c) \cup {k}
  BY <1>6 DEF Paging!Pending
<1>9. k \notin Paging!Pending(c)
  BY <1>3 DEF Paging!Pending
<1> QED BY <1>4, <1>7, <1>8, <1>9

(* What is asked for is added to what was asked for before.                    *)
LEMMA AskedAdds ==
  ASSUME NEW p, NEW c, AreLoads(p, c), Paging!HasRoom(c), NEW f \in p.filters,
         NEW g \in 1 .. 2, NEW a \in BOOLEAN, a => p.after = "await",
         NEW us, us = Paging!With(c, Paging!Asked(f, g, a))
  PROVE  (a => Awaits(us)) /\ Lasts(c, us)
<1>1. PICK x : x = Paging!Asked(f, g, a)
  OBVIOUS
<1>2. IsLoad(p, x) /\ x.stage = "sent" /\ x.awaited = a
  BY <1>1, AskedTyped
<1>3. us = Paging!With(c, x)
  BY <1>1
<1>4. PICK k \in 1 .. Loads :
           /\ us = [c EXCEPT ![k] = x] /\ k \notin Paging!Pending(c)
           /\ Paging!Pending(us) = Paging!Pending(c) \cup {k}
  BY <1>2, <1>3, WithLoad
<1>5. DOMAIN c = 1 .. Loads /\ Paging!Pending(c) \subseteq 1 .. Loads
  BY DEF AreLoads, Paging!Pending
<1> QED BY <1>2, <1>4, <1>5 DEF Awaits, Lasts

(* A list asked for what the controls say keeps the lists sound.               *)
LEMMA AskedLists ==
  ASSUME NEW p, NEW c, AreLoads(p, c), Paging!HasRoom(c), NEW w, NEW o, NEW m,
         w.filter \in p.filters, w.page \in 1 .. 2, NEW a \in BOOLEAN, a => p.after = "await",
         AreCurrent(c, w, o, m), p.drops => Paging!Pending(c) = {},
         NEW us, us = Paging!With(c, Paging!Asked(w.filter, w.page, a))
  PROVE  Lists(p, us, w, o, m)
<1>1. PICK x : x = Paging!Asked(w.filter, w.page, a)
  OBVIOUS
<1>2. /\ IsLoad(p, x) /\ x.stage = "sent" /\ x.read = {}
      /\ x.filter = w.filter /\ x.page = w.page
  BY <1>1, AskedTyped
<1>3. us = Paging!With(c, x)
  BY <1>1
<1>4. PICK k \in 1 .. Loads :
           /\ us = [c EXCEPT ![k] = x] /\ k \notin Paging!Pending(c)
           /\ Paging!Pending(us) = Paging!Pending(c) \cup {k}
           /\ AreLoads(p, us)
  BY <1>2, <1>3, WithLoad
<1>5. DOMAIN c = 1 .. Loads /\ Paging!Pending(c) \subseteq 1 .. Loads
  BY DEF AreLoads, Paging!Pending
<1>6. us[k] = x /\ \A l \in Paging!Pending(c) : us[l] = c[l]
  BY <1>4, <1>5
<1>7. Current(x, w, m) /\ Recent(x, o, m)
  BY <1>2 DEF Current, Recent
<1>8. AreCurrent(us, w, o, m)
  BY <1>4, <1>6, <1>7 DEF AreCurrent
<1>9. OneLoad(p, us)
  BY <1>4 DEF OneLoad
<1>10. Settled(us, w, o, m)
  BY <1>4 DEF Settled
<1> QED BY <1>4, <1>8, <1>9, <1>10 DEF Lists

(* A list is answered, or fails.                                               *)
LEMMA EndedLoads ==
  ASSUME NEW p, NEW ls, AreLoads(p, ls), NEW l \in 1 .. Loads,
         NEW us, us = [ls EXCEPT ![l] = Paging!NoLoad]
  PROVE  AreLoads(p, us) /\ EndedAt(ls, us, l) /\ Paging!HasRoom(us)
<1>1. DOMAIN ls = 1 .. Loads
  BY DEF AreLoads
<1>2. us[l] = Paging!NoLoad /\ DOMAIN us = 1 .. Loads
      /\ \A k \in 1 .. Loads : k # l => us[k] = ls[k]
  BY <1>1
<1>3. AreLoads(p, us)
  BY <1>2, NoLoadTyped DEF AreLoads
<1>4. Paging!Pending(us) = Paging!Pending(ls) \ {l}
  BY <1>2, NoLoadTyped DEF Paging!Pending
<1>5. \A k \in Paging!Pending(us) : us[k] = ls[k]
  BY <1>2, <1>4 DEF Paging!Pending
<1>6. Paging!HasRoom(us)
  BY <1>4 DEF Paging!HasRoom
<1>7. EndedAt(ls, us, l)
  BY <1>4, <1>5 DEF EndedAt
<1> QED BY <1>3, <1>6, <1>7

-----------------------------------------------------------------------------
(* Requests under way.                                                         *)

LEMMA NoRequestTyped ==
  ASSUME NEW p, NEW rows
  PROVE  /\ IsRequest(p, Paging!NoRequest, rows)
         /\ Paging!NoRequest.stage = "idle" /\ ~Paging!NoRequest.mine
BY DEF IsRequest, Paging!NoRequest

(* A row written since an answer is not older than the answer.                 *)
LEMMA RequestLater ==
  ASSUME NEW p, NEW S, NEW rows, NEW new, RowsTyped(S, rows), RowsTyped(S, new),
         \A r \in Paging!Rows : rows[r].ver <= new[r].ver, NEW x, IsRequest(p, x, rows)
  PROVE  IsRequest(p, x, new)
<1>1. x.stage = "done" /\ x.ok => x.got.ver <= new[x.row].ver
  <2> SUFFICES ASSUME x.stage = "done", x.ok PROVE x.got.ver <= new[x.row].ver
    OBVIOUS
  <2>1. x.row \in Paging!Rows /\ x.got.ver \in Nat /\ x.got.ver <= rows[x.row].ver
    BY DEF IsRequest
  <2>2. PICK r \in Paging!Rows : r = x.row
    BY <2>1
  <2>3. rows[r].ver \in Nat /\ new[r].ver \in Nat /\ rows[r].ver <= new[r].ver
    BY <2>2 DEF RowsTyped
  <2> QED BY <2>1, <2>2, <2>3
<1> QED BY <1>1 DEF IsRequest

LEMMA RequestReplaced ==
  ASSUME NEW p, NEW qs, NEW S, NEW rows, NEW new, RowsTyped(S, rows), RowsTyped(S, new),
         \A r \in Paging!Rows : rows[r].ver <= new[r].ver,
         AreRequests(p, qs, rows), NEW t \in Requests, NEW y, IsRequest(p, y, new),
         NEW us, us = [qs EXCEPT ![t] = y]
  PROVE  AreRequests(p, us, new)
<1>1. DOMAIN qs = Requests
  BY DEF AreRequests
<1>2. DOMAIN us = Requests /\ us[t] = y /\ \A u \in Requests : u # t => us[u] = qs[u]
  BY <1>1
<1>3. ASSUME NEW u \in Requests, u # t PROVE IsRequest(p, us[u], new)
  <2>1. PICK x : x = qs[u]
    OBVIOUS
  <2>2. IsRequest(p, x, rows) /\ us[u] = x
    BY <1>2, <1>3, <2>1 DEF AreRequests
  <2>3. IsRequest(p, x, new)
    BY <2>2, RequestLater
  <2> QED BY <2>2, <2>3
<1> QED BY <1>2, <1>3 DEF AreRequests

LEMMA InFlightFinite ==
  ASSUME NEW qs PROVE IsFiniteSet(InFlight(qs)) /\ Cardinality(InFlight(qs)) \in Nat
<1>1. InFlight(qs) \in SUBSET Requests
  BY DEF InFlight
<1>2. IsFiniteSet(InFlight(qs))
  BY <1>1, FS_Subset, BrowserAssumption
<1> QED BY <1>2, FS_CardinalityType

(* A request that begins counts one more; one that goes on or ends, none.      *)
LEMMA BegunMore ==
  ASSUME NEW S, NEW rows, RowsTyped(S, rows), NEW n \in Nat, NEW qs, DOMAIN qs = Requests,
         Begun(rows, qs, n), NEW t \in Requests, NEW y, NEW us, us = [qs EXCEPT ![t] = y]
  PROVE  Begun(rows, us, n + 1)
<1>1. PICK a \in Nat : a = Cardinality(InFlight(qs))
  BY InFlightFinite
<1>2. PICK b \in Nat : b = Cardinality(InFlight(us))
  BY InFlightFinite
<1>3. IsFiniteSet(InFlight(qs) \cup {t}) /\ Cardinality(InFlight(qs) \cup {t}) <= a + 1
  BY <1>1, InFlightFinite, FS_AddElement
<1>4. InFlight(us) \in SUBSET (InFlight(qs) \cup {t})
  BY DEF InFlight
<1>5. Cardinality(InFlight(us)) <= Cardinality(InFlight(qs) \cup {t})
  BY <1>3, <1>4, FS_Subset
<1>6. Cardinality(InFlight(qs) \cup {t}) \in Nat
  BY <1>3, FS_CardinalityType
<1>7. b <= a + 1
  BY <1>2, <1>3, <1>5, <1>6
<1>8. \A r \in Paging!Rows : rows[r].ver \in Nat /\ rows[r].ver + a <= n
  BY <1>1 DEF Begun, RowsTyped
<1>9. \A r \in Paging!Rows : rows[r].ver + b <= n + 1
  BY <1>7, <1>8
<1> QED BY <1>2, <1>9 DEF Begun

LEMMA BegunKept ==
  ASSUME NEW S, NEW rows, RowsTyped(S, rows), NEW n \in Nat, NEW qs, NEW us,
         Begun(rows, qs, n), InFlight(us) \subseteq InFlight(qs)
  PROVE  Begun(rows, us, n)
<1>1. PICK a \in Nat : a = Cardinality(InFlight(qs))
  BY InFlightFinite
<1>2. PICK b \in Nat : b = Cardinality(InFlight(us))
  BY InFlightFinite
<1>3. InFlight(us) \in SUBSET InFlight(qs)
  OBVIOUS
<1>4. b <= a
  BY <1>1, <1>2, <1>3, InFlightFinite, FS_Subset
<1>5. \A r \in Paging!Rows : rows[r].ver \in Nat /\ rows[r].ver + a <= n
  BY <1>1 DEF Begun, RowsTyped
<1>6. \A r \in Paging!Rows : rows[r].ver + b <= n
  BY <1>4, <1>5
<1> QED BY <1>2, <1>6 DEF Begun

(* A write takes a request off those under way.                                *)
LEMMA BegunWritten ==
  ASSUME NEW S, NEW rows, RowsTyped(S, rows), NEW n \in Nat, NEW qs, DOMAIN qs = Requests,
         Begun(rows, qs, n), NEW t \in Requests, qs[t].stage = "checked",
         NEW y, y.stage \notin {"sent", "checked"}, NEW us, us = [qs EXCEPT ![t] = y],
         NEW new, \A r \in Paging!Rows : new[r].ver \in {rows[r].ver, rows[r].ver + 1}
  PROVE  Begun(new, us, n)
<1>1. PICK a \in Nat : a = Cardinality(InFlight(qs))
  BY InFlightFinite
<1>2. PICK b \in Nat : b = Cardinality(InFlight(us))
  BY InFlightFinite
<1>3. InFlight(us) = InFlight(qs) \ {t} /\ t \in InFlight(qs)
  BY DEF InFlight
<1>4. b = a - 1
  BY <1>1, <1>2, <1>3, InFlightFinite, FS_RemoveElement
<1>5. \A r \in Paging!Rows : rows[r].ver \in Nat /\ rows[r].ver + a <= n
  BY <1>1 DEF Begun, RowsTyped
<1>6. \A r \in Paging!Rows : new[r].ver + b <= n
  BY <1>4, <1>5
<1> QED BY <1>2, <1>6 DEF Begun

-----------------------------------------------------------------------------
(* What a step leaves is put together again.                                   *)

LEMMA PageAgain ==
  ASSUME PageSafe, kind' = kind, first' \in Paging!Rows,
         acted' \in 0 .. MaxActed, missed' \in 0 .. MaxMissed,
         RowsTyped(Paging!Statuses, row'), OwnIsWritten(own', row'),
         IsView(Paging!This, view'), Lists(Paging!This, load', view', own', mixed'),
         AreRequests(Paging!This, request', row'), Begun(row', request', acted'),
         HeldFor(Paging!This, view', request', load')
  PROVE  PageSafe'
<1>1. Paging!This' = Paging!This
  BY DEF Paging!This
<1>2. Paging!Statuses' = Paging!Statuses
  BY <1>1 DEF Paging!Statuses, Paging!Ops
<1>3. kind' \in Kinds
  BY DEF PageSafe
<1> QED BY <1>1, <1>2, <1>3 DEF PageSafe

(* A list that lasts goes on holding a button; the cleanup of an effect ends   *)
(* only lists no button waits for.                                             *)
LEMMA StillHeld ==
  ASSUME NEW p, SoundPage(p), NEW v, NEW qs, NEW ls, AreLoads(p, ls), HeldFor(p, v, qs, ls),
         NEW w, w.busy = v.busy, NEW us,
         ~p.drops => Lasts(ls, us)
  PROVE  HeldFor(p, w, qs, us)
<1>1. \A l \in Paging!Pending(ls) : ls[l].awaited => ~p.drops
  BY DEF AreLoads, IsLoad, SoundPage, Paging!Pending
<1>2. CASE p.drops
  BY <1>1, <1>2 DEF HeldFor, Awaits
<1>3. CASE ~p.drops
  BY <1>3 DEF HeldFor, Awaits, Lasts
<1> QED BY <1>2, <1>3

LEMMA ActedMore ==
  ASSUME PageSafe, Paging!Begins
  PROVE  acted \in Nat /\ acted' = acted + 1 /\ acted' \in 0 .. MaxActed
<1>1. acted \in 0 .. MaxActed
  BY DEF PageSafe
<1> QED BY <1>1, BrowserAssumption DEF Paging!Begins

LEMMA BegunLater ==
  ASSUME NEW S, NEW rows, RowsTyped(S, rows), NEW n \in Nat, NEW qs, Begun(rows, qs, n)
  PROVE  Begun(rows, qs, n + 1)
<1>1. PICK a \in Nat : a = Cardinality(InFlight(qs))
  BY InFlightFinite
<1>2. \A r \in Paging!Rows : rows[r].ver \in Nat /\ rows[r].ver + a <= n
  BY <1>1 DEF Begun, RowsTyped
<1> QED BY <1>1, <1>2 DEF Begun

-----------------------------------------------------------------------------
(* Lists: the actions.                                                         *)

LEMMA PageParts ==
  ASSUME PageSafe
  PROVE  /\ SoundPage(Paging!This)
         /\ first \in Paging!Rows /\ acted \in 0 .. MaxActed /\ missed \in 0 .. MaxMissed
         /\ RowsTyped(Paging!Statuses, row) /\ OwnIsWritten(own, row)
         /\ IsView(Paging!This, view)
         /\ AreLoads(Paging!This, load) /\ AreCurrent(load, view, own, mixed)
         /\ OneLoad(Paging!This, load) /\ Settled(load, view, own, mixed)
         /\ AreRequests(Paging!This, request, row) /\ Begun(row, request, acted)
         /\ HeldFor(Paging!This, view, request, load)
BY ThisSound DEF PageSafe, Lists

LEMMA MoveKeeps ==
  ASSUME PageSafe, NEW f \in Paging!This.filters, Paging!Move(f) PROVE PageSafe'
<1>0. PICK p : p = Paging!This
  OBVIOUS
<1>1. /\ SoundPage(p) /\ IsView(p, view) /\ AreLoads(p, load) /\ OneLoad(p, load)
      /\ AreCurrent(load, view, own, mixed) /\ HeldFor(p, view, request, load)
  BY <1>0, PageParts
<1>2. PICK c : c = Paging!Cancelled(load)
  OBVIOUS
<1>3. AreLoads(p, c) /\ (p.drops => Paging!Pending(c) = {}) /\ (~p.drops => c = load)
  BY <1>0, <1>1, <1>2, CancelledLoads
<1>4. PICK w : w = [view EXCEPT !.filter = f, !.page = 1]
  OBVIOUS
<1>5. w.filter = f /\ w.page = 1 /\ w.busy = view.busy /\ IsView(p, w)
  BY <1>0, <1>1, <1>4 DEF IsView
<1>6. /\ view' = w /\ Paging!HasRoom(c)
      /\ load' = Paging!With(c, Paging!Asked(w.filter, w.page, FALSE))
      /\ mixed' = IF Paging!Pending(c) = {} THEN mixed ELSE mixed \cup {"list"}
      /\ kind' = kind /\ row' = row /\ first' = first /\ request' = request
      /\ missed' = missed /\ own' = own
  BY <1>2, <1>4, <1>5 DEF Paging!Move, Paging!database
<1>7. AreCurrent(c, w, own, mixed')
  <2>1. CASE Paging!Pending(c) = {}
    BY <2>1 DEF AreCurrent
  <2>2. CASE Paging!Pending(c) # {}
    <3>1. c = load /\ mixed' = mixed \cup {"list"}
      BY <1>3, <1>6, <2>2
    <3> QED BY <1>1, <3>1 DEF AreCurrent, Current, Recent
  <2> QED BY <2>1, <2>2
<1>8. Lists(p, load', w, own, mixed') /\ Lasts(c, load')
  <2>1. PICK us, m : us = load' /\ m = mixed'
    OBVIOUS
  <2>2. /\ w.filter \in p.filters /\ w.page \in 1 .. 2 /\ FALSE \in BOOLEAN
        /\ us = Paging!With(c, Paging!Asked(w.filter, w.page, FALSE))
    BY <1>0, <1>5, <1>6, <2>1
  <2>3. AreCurrent(c, w, own, m)
    BY <1>7, <2>1
  <2>4. PICK a : a = FALSE
    OBVIOUS
  <2>5. /\ AreLoads(p, c) /\ Paging!HasRoom(c) /\ a \in BOOLEAN /\ (a => p.after = "await")
        /\ (p.drops => Paging!Pending(c) = {})
        /\ us = Paging!With(c, Paging!Asked(w.filter, w.page, a))
    BY <1>3, <1>6, <2>2, <2>4
  <2>6. Lists(p, us, w, own, m)
    BY <2>2, <2>3, <2>5, AskedLists
  <2>7. Lasts(c, us)
    BY <2>2, <2>5, AskedAdds
  <2> QED BY <2>1, <2>6, <2>7
<1>9. HeldFor(p, w, request, load')
  BY <1>1, <1>3, <1>5, <1>8, StillHeld
<1>10. acted' \in 0 .. MaxActed /\ Begun(row, request, acted')
  <2>1. Paging!Begins
    BY DEF Paging!Move
  <2> QED BY <2>1, ActedMore, PageParts, BegunLater
<1> QED BY <1>0, <1>5, <1>6, <1>8, <1>9, <1>10, PageParts, PageAgain

LEMMA TurnKeeps ==
  ASSUME PageSafe, NEW g \in 1 .. 2, Paging!Turn(g) PROVE PageSafe'
<1>0. PICK p : p = Paging!This
  OBVIOUS
<1>1. /\ SoundPage(p) /\ IsView(p, view) /\ AreLoads(p, load)
      /\ HeldFor(p, view, request, load)
  BY <1>0, PageParts
<1>2. PICK c : c = Paging!Cancelled(load)
  OBVIOUS
<1>3. p.drops /\ AreLoads(p, c) /\ Paging!Pending(c) = {}
  <2>1. p.drops
    BY <1>0, <1>1 DEF Paging!Turn, SoundPage
  <2> QED BY <1>0, <1>1, <1>2, <2>1, CancelledLoads
<1>4. PICK w : w = [view EXCEPT !.page = g]
  OBVIOUS
<1>5. /\ w.filter = view.filter /\ w.page = g /\ w.busy = view.busy /\ IsView(p, w)
      /\ w.filter \in p.filters
  BY <1>1, <1>4 DEF IsView
<1>6. /\ view' = w /\ Paging!HasRoom(c)
      /\ load' = Paging!With(c, Paging!Asked(w.filter, w.page, FALSE))
      /\ mixed' = mixed
      /\ kind' = kind /\ row' = row /\ first' = first /\ request' = request
      /\ missed' = missed /\ own' = own
  BY <1>2, <1>4, <1>5 DEF Paging!Turn, Paging!database
<1>7. AreCurrent(c, w, own, mixed)
  BY <1>3 DEF AreCurrent
<1>8. Lists(p, load', w, own, mixed')
  BY <1>3, <1>5, <1>6, <1>7, AskedLists
<1>9. HeldFor(p, w, request, load')
  BY <1>1, <1>3, <1>5, StillHeld
<1>10. acted' \in 0 .. MaxActed /\ Begun(row, request, acted')
  <2>1. Paging!Begins
    BY DEF Paging!Turn
  <2> QED BY <2>1, ActedMore, PageParts, BegunLater
<1> QED BY <1>0, <1>5, <1>6, <1>8, <1>9, <1>10, PageParts, PageAgain

(* A list reads: nothing but what it holds changes.                            *)
LEMMA ReadKeeps ==
  ASSUME PageSafe, NEW l \in 1 .. Loads, load[l].stage = "sent",
         NEW x, load' = [load EXCEPT ![l] = x], IsLoad(Paging!This, x), x.stage = "sent",
         x.awaited = load[l].awaited, x.filter = load[l].filter, x.page = load[l].page,
         Recent(x, own, mixed),
         UNCHANGED <<kind, row, first, view, request, acted, missed, own, mixed>>
  PROVE  PageSafe'
<1>0. PICK p : p = Paging!This
  OBVIOUS
<1>1. /\ SoundPage(p) /\ AreLoads(p, load) /\ OneLoad(p, load)
      /\ AreCurrent(load, view, own, mixed) /\ Settled(load, view, own, mixed)
      /\ HeldFor(p, view, request, load)
  BY <1>0, PageParts
<1>2. DOMAIN load = 1 .. Loads
  BY <1>1 DEF AreLoads
<1>3. /\ DOMAIN load' = 1 .. Loads /\ load'[l] = x
      /\ \A k \in 1 .. Loads : k # l => load'[k] = load[k]
  BY <1>2
<1>4. Paging!Pending(load') = Paging!Pending(load) /\ l \in Paging!Pending(load)
  BY <1>3 DEF Paging!Pending
<1>5. Current(x, view, mixed)
  BY <1>1, <1>4 DEF AreCurrent, Current
<1>6. AreLoads(p, load')
  BY <1>0, <1>1, <1>3 DEF AreLoads
<1>7. AreCurrent(load', view, own, mixed)
  <2> SUFFICES ASSUME NEW k \in Paging!Pending(load')
               PROVE  Current(load'[k], view, mixed) /\ Recent(load'[k], own, mixed)
    BY DEF AreCurrent
  <2>1. k \in 1 .. Loads /\ k \in Paging!Pending(load)
    BY <1>4 DEF Paging!Pending
  <2> QED BY <1>1, <1>3, <1>5, <2>1 DEF AreCurrent
<1>8. OneLoad(p, load') /\ Settled(load', view, own, mixed)
  BY <1>1, <1>4 DEF OneLoad, Settled
<1>9. HeldFor(p, view, request, load')
  <2>1. Lasts(load, load')
    BY <1>3, <1>4 DEF Lasts, Paging!Pending
  <2> QED BY <1>1, <2>1, StillHeld
<1>10. Lists(p, load', view, own, mixed)
  BY <1>6, <1>7, <1>8 DEF Lists
<1> QED BY <1>0, <1>9, <1>10, PageParts, PageAgain

LEMMA ReadRowsKeeps ==
  ASSUME PageSafe, NEW l \in 1 .. Loads, Paging!ReadRows(l) PROVE PageSafe'
<1>0. PICK p, g, y : p = Paging!This /\ y = load[l]
                     /\ g = [r \in Paging!OnPage(y.filter, y.page) |-> row[r]]
  OBVIOUS
<1>1. /\ AreLoads(p, load) /\ OwnIsWritten(own, row) /\ RowsTyped(Paging!Statuses, row)
  BY <1>0, PageParts
<1>2. IsLoad(p, y) /\ y.stage = "sent" /\ DOMAIN load = 1 .. Loads
  BY <1>0, <1>1 DEF AreLoads, Paging!ReadRows
<1>3. PICK x : x = [y EXCEPT !.read = @ \cup {"rows"}, !.got = g]
  OBVIOUS
<1>4. load' = [load EXCEPT ![l] = x]
  BY <1>0, <1>2, <1>3 DEF Paging!ReadRows
<1>5. DOMAIN g \subseteq Paging!Rows
  <2>1. Paging!Scope \subseteq Paging!Rows
    BY DEF Paging!Scope, Paging!Rows
  <2> QED BY <1>0, <2>1 DEF Paging!OnPage, Paging!Matching
<1>6. \A r \in DOMAIN g : g[r].ver >= own[r]
  BY <1>0, <1>1, <1>5 DEF OwnIsWritten, RowsTyped
<1>7. /\ x.stage = "sent" /\ x.got = g /\ x.awaited = y.awaited /\ x.filter = y.filter
      /\ x.page = y.page /\ IsLoad(p, x)
  BY <1>2, <1>3, <1>5 DEF IsLoad
<1>8. Recent(x, own, mixed)
  BY <1>6, <1>7 DEF Recent
<1> QED BY <1>0, <1>2, <1>4, <1>7, <1>8, ReadKeeps DEF Paging!ReadRows, Paging!database

(* What Pages counts with is Cardinality. *)
LEMMA CountedAlike == ASSUME NEW S PROVE Paging!Cardinality(S) = Cardinality(S)
BY DEF Paging!Cardinality, Cardinality

LEMMA ReadTotalKeeps ==
  ASSUME PageSafe, NEW l \in 1 .. Loads, Paging!ReadTotal(l) PROVE PageSafe'
<1>0. PICK p, n, y : p = Paging!This /\ y = load[l]
                     /\ n = Cardinality(Paging!Counted(y.filter))
  OBVIOUS
<1>1. AreLoads(p, load) /\ AreCurrent(load, view, own, mixed)
  BY <1>0, PageParts
<1>2. IsLoad(p, y) /\ y.stage = "sent" /\ DOMAIN load = 1 .. Loads
  BY <1>0, <1>1 DEF AreLoads, Paging!ReadTotal
<1>3. PICK x : x = [y EXCEPT !.read = @ \cup {"total"}, !.total = n]
  OBVIOUS
<1>4. load' = [load EXCEPT ![l] = x]
  <2>1. n = Paging!Cardinality(Paging!Counted(y.filter))
    BY <1>0, CountedAlike
  <2> QED BY <1>0, <1>2, <1>3, <2>1 DEF Paging!ReadTotal
<1>5. n \in 0 .. 2
  <2>1. Paging!Counted(y.filter) \in SUBSET {"a", "b"}
    BY DEF Paging!Counted, Paging!Matching, Paging!Scope, Paging!Rows
  <2>2. IsFiniteSet({"a", "b"}) /\ Cardinality({"a", "b"}) = 2
    <3>1. IsFiniteSet({"a"}) /\ Cardinality({"a"}) = 1
      BY FS_Singleton
    <3>2. {"a", "b"} = {"a"} \cup {"b"} /\ "b" \notin {"a"}
      OBVIOUS
    <3> QED BY <3>1, <3>2, FS_AddElement
  <2>3. IsFiniteSet(Paging!Counted(y.filter)) /\ n <= 2
    BY <1>0, <2>1, <2>2, FS_Subset
  <2>4. n \in Nat
    BY <1>0, <2>3, FS_CardinalityType
  <2> QED BY <2>3, <2>4
<1>6. /\ x.stage = "sent" /\ x.got = y.got /\ x.awaited = y.awaited /\ x.filter = y.filter
      /\ x.page = y.page /\ ("rows" \in x.read => "rows" \in y.read) /\ IsLoad(p, x)
  BY <1>2, <1>3, <1>5 DEF IsLoad
<1>7. Recent(x, own, mixed)
  <2>1. Recent(y, own, mixed)
    BY <1>0, <1>1, <1>2 DEF AreCurrent, Paging!Pending
  <2> QED BY <1>6, <2>1 DEF Recent
<1> QED BY <1>0, <1>2, <1>4, <1>6, <1>7, ReadKeeps DEF Paging!ReadTotal, Paging!database
(* A button a list was awaited for comes back with it.                         *)
LEMMA EndedHeld ==
  ASSUME NEW p, NEW v, NEW qs, NEW ls, HeldFor(p, v, qs, ls), NEW l, NEW w,
         w.busy = IF ls[l].awaited THEN Nothing ELSE v.busy, NEW us,
         NEW e, EndedAt(ls, e, l), Lasts(e, us)
  PROVE  HeldFor(p, w, qs, us)
<1>1. CASE ls[l].awaited
  BY <1>1 DEF HeldFor
<1>2. CASE ~ls[l].awaited /\ Awaits(ls)
  <2>1. PICK k \in Paging!Pending(ls) : ls[k].awaited
    BY <1>2 DEF Awaits
  <2>2. k \in Paging!Pending(us) /\ us[k].awaited
    BY <1>2, <2>1 DEF EndedAt, Lasts
  <2> QED BY <2>2 DEF HeldFor, Awaits
<1>3. CASE ~ls[l].awaited /\ ~Awaits(ls)
  BY <1>3 DEF HeldFor
<1> QED BY <1>1, <1>2, <1>3

LEMMA ShowLoadKeeps ==
  ASSUME PageSafe, NEW l \in 1 .. Loads, Paging!ShowLoad(l) PROVE PageSafe'
<1>0. PICK p, y, e, b, w :
        /\ p = Paging!This /\ y = load[l] /\ e = [load EXCEPT ![l] = Paging!NoLoad]
        /\ b = (Paging!This.back /\ DOMAIN y.got = {} /\ y.total > 0 /\ view.page # 1)
        /\ w = [view EXCEPT !.shown = y.got, !.of = <<y.filter, y.page>>,
                            !.total = y.total, !.failed = FALSE,
                            !.page = IF b THEN 1 ELSE @,
                            !.busy = IF y.awaited THEN Nothing ELSE @]
  OBVIOUS
<1>1. /\ SoundPage(p) /\ IsView(p, view) /\ AreLoads(p, load) /\ OneLoad(p, load)
      /\ AreCurrent(load, view, own, mixed) /\ HeldFor(p, view, request, load)
  BY <1>0, PageParts
<1>2. /\ y.stage = "sent" /\ "rows" \in y.read /\ view' = w
      /\ load' = IF b THEN Paging!With(e, Paging!Asked(view.filter, 1, FALSE)) ELSE e
      /\ kind' = kind /\ row' = row /\ first' = first /\ request' = request
      /\ acted' = acted /\ missed' = missed /\ own' = own /\ mixed' = mixed
  <2>1. y.stage = "sent" /\ Paging!ReadAll(l)
    BY <1>0 DEF Paging!ShowLoad
  <2>2. "rows" \in y.read
    BY <1>0, <2>1 DEF Paging!ReadAll
  <2>3. /\ view' = w
        /\ load' = IF b THEN Paging!With(e, Paging!Asked(view.filter, 1, FALSE)) ELSE e
    BY <1>0 DEF Paging!ShowLoad
  <2> QED BY <2>1, <2>2, <2>3 DEF Paging!ShowLoad, Paging!database
<1>3. /\ IsLoad(p, y) /\ l \in Paging!Pending(load)
      /\ Current(y, view, mixed) /\ Recent(y, own, mixed)
  BY <1>0, <1>1, <1>2 DEF AreLoads, AreCurrent, Paging!Pending
<1>4. /\ y.filter \in p.filters /\ y.page \in 1 .. 2 /\ DOMAIN y.got \subseteq Paging!Rows
      /\ y.awaited => p.after = "await"
  BY <1>2, <1>3 DEF IsLoad
<1>5. /\ w.shown = y.got /\ w.of = <<y.filter, y.page>> /\ w.filter = view.filter
      /\ w.page = (IF b THEN 1 ELSE view.page)
      /\ w.busy = (IF y.awaited THEN Nothing ELSE view.busy)
      /\ w.filter \in p.filters /\ w.page \in 1 .. 2
      /\ DOMAIN w = DOMAIN view
  BY <1>0, <1>1 DEF IsView
<1>6. IsView(p, w)
  <2>1. w.of[1] \in p.filters /\ w.of[2] \in 1 .. 2
    BY <1>4, <1>5
  <2> QED BY <1>1, <1>4, <1>5, <2>1 DEF IsView
<1>7. AreLoads(p, e) /\ EndedAt(load, e, l) /\ Paging!HasRoom(e)
  BY <1>0, <1>1, EndedLoads
<1>8. w.busy = IF load[l].awaited THEN Nothing ELSE view.busy
  BY <1>0, <1>5
<1>9. Lists(p, load', w, own, mixed) /\ HeldFor(p, w, request, load')
  <2>1. CASE b
    <3>1. p.drops /\ Paging!Pending(e) = {}
      BY <1>0, <1>1, <1>3, <1>7, <2>1 DEF SoundPage, OneLoad, EndedAt
    <3>2. AreCurrent(e, w, own, mixed)
      BY <3>1 DEF AreCurrent
    <3>3. PICK us : us = load'
      OBVIOUS
    <3>4. us = Paging!With(e, Paging!Asked(w.filter, w.page, FALSE))
      BY <1>2, <1>5, <2>1, <3>3
    <3>5. Lists(p, us, w, own, mixed)
      BY <1>5, <1>7, <3>1, <3>2, <3>4, AskedLists
    <3>6. HeldFor(p, w, request, us)
      <4>1. Lasts(e, us)
        BY <3>1 DEF Lasts
      <4> QED BY <1>1, <1>7, <1>8, <4>1, EndedHeld
    <3> QED BY <3>3, <3>5, <3>6
  <2>2. CASE ~b
    <3>1. load' = e /\ w.page = view.page
      BY <1>2, <1>5, <2>2
    <3>2. AreCurrent(e, w, own, mixed)
      BY <1>1, <1>5, <1>7, <3>1 DEF AreCurrent, Current, EndedAt
    <3>3. OneLoad(p, e)
      BY <1>1, <1>7 DEF OneLoad, EndedAt
    <3>4. Settled(e, w, own, mixed)
      BY <1>2, <1>3, <1>5, <3>1 DEF Settled, Current, Recent
    <3>5. HeldFor(p, w, request, e)
      <4>1. Lasts(e, e)
        BY DEF Lasts
      <4> QED BY <1>1, <1>7, <1>8, <4>1, EndedHeld
    <3> QED BY <1>7, <3>1, <3>2, <3>3, <3>4, <3>5 DEF Lists
  <2> QED BY <2>1, <2>2
<1> QED BY <1>0, <1>2, <1>6, <1>9, PageParts, PageAgain

LEMMA ListFailsKeeps ==
  ASSUME PageSafe, NEW l \in 1 .. Loads, Paging!LoadFails(l) PROVE PageSafe'
<1>0. PICK p, y, e, w :
        /\ p = Paging!This /\ y = load[l] /\ e = [load EXCEPT ![l] = Paging!NoLoad]
        /\ w = [view EXCEPT !.failed = TRUE,
                            !.shown = IF Paging!This.clears THEN <<>> ELSE @,
                            !.busy = IF load[l].awaited THEN Nothing ELSE @]
  OBVIOUS
<1>1. /\ IsView(p, view) /\ AreLoads(p, load) /\ OneLoad(p, load)
      /\ AreCurrent(load, view, own, mixed) /\ HeldFor(p, view, request, load)
      /\ missed \in 0 .. MaxMissed
  BY <1>0, PageParts
<1>2. /\ view' = w /\ load' = e /\ missed < MaxMissed /\ missed' = missed + 1
      /\ kind' = kind /\ row' = row /\ first' = first /\ request' = request
      /\ acted' = acted /\ own' = own /\ mixed' = mixed
  BY <1>0 DEF Paging!LoadFails, Paging!database
<1>3. /\ w.filter = view.filter /\ w.page = view.page /\ w.failed = TRUE
      /\ w.busy = (IF load[l].awaited THEN Nothing ELSE view.busy)
      /\ w.shown = <<>> \/ w.shown = view.shown
      /\ w.of = view.of /\ DOMAIN w = DOMAIN view
  BY <1>0, <1>1 DEF IsView
<1>4. DOMAIN w.shown \subseteq Paging!Rows
  BY <1>1, <1>3 DEF IsView
<1>5. IsView(p, w)
  BY <1>1, <1>3, <1>4 DEF IsView
<1>6. AreLoads(p, e) /\ EndedAt(load, e, l)
  BY <1>0, <1>1, EndedLoads
<1>7. AreCurrent(e, w, own, mixed) /\ OneLoad(p, e)
  BY <1>1, <1>3, <1>6 DEF AreCurrent, Current, OneLoad, EndedAt
<1>8. Settled(e, w, own, mixed)
  BY <1>3 DEF Settled
<1>9. HeldFor(p, w, request, e)
  <2>1. Lasts(e, e)
    BY DEF Lasts
  <2> QED BY <1>1, <1>3, <1>6, <2>1, EndedHeld
<1>10. missed' \in 0 .. MaxMissed
  BY <1>1, <1>2, BrowserAssumption
<1>11. Lists(p, e, w, own, mixed)
  BY <1>6, <1>7, <1>8 DEF Lists
<1> QED BY <1>0, <1>2, <1>5, <1>9, <1>10, <1>11, PageParts, PageAgain
-----------------------------------------------------------------------------
(* Requests: the actions.                                                      *)

(* A button is held for another request than the one that goes on.             *)
LEMMA HoldsKept ==
  ASSUME NEW p, NEW qs, DOMAIN qs = Requests, Holds(p, qs), NEW t \in Requests, NEW y,
         ~qs[t].mine \/ qs[t].op \in p.free \/ (y.mine /\ y.op = qs[t].op),
         NEW us, us = [qs EXCEPT ![t] = y]
  PROVE  Holds(p, us)
<1>1. PICK u \in Requests : qs[u].mine /\ qs[u].op \notin p.free
  BY DEF Holds
<1>2. us[t] = y /\ \A v \in Requests : v # t => us[v] = qs[v]
  OBVIOUS
<1>3. us[u].mine /\ us[u].op \notin p.free
  BY <1>1, <1>2
<1> QED BY <1>3 DEF Holds

(* What a page shows is all its lists have to agree with.                      *)
LEMMA SameLists ==
  ASSUME NEW p, NEW ls, NEW v, NEW o, NEW m, Lists(p, ls, v, o, m), NEW w,
         w.filter = v.filter, w.page = v.page, w.shown = v.shown, w.of = v.of,
         w.failed = v.failed, w.left = v.left
  PROVE  Lists(p, ls, w, o, m)
<1>1. AreCurrent(ls, w, o, m)
  BY DEF Lists, AreCurrent, Current
<1>2. Settled(ls, w, o, m)
  BY DEF Lists, Settled
<1> QED BY <1>1, <1>2 DEF Lists

(* A request goes on, with what it writes; the page stays as it is.            *)
LEMMA RequestStep ==
  ASSUME PageSafe, NEW t \in Requests, NEW y, request' = [request EXCEPT ![t] = y],
         UNCHANGED <<kind, view, load, missed, own, mixed>>,
         first' \in Paging!Rows, acted' \in 0 .. MaxActed,
         RowsTyped(Paging!Statuses, row'),
         \A r \in Paging!Rows : row[r].ver <= row'[r].ver,
         IsRequest(Paging!This, y, row'), Begun(row', request', acted'),
         \/ ~request[t].mine
         \/ y.mine /\ y.op = request[t].op
  PROVE  PageSafe'
<1>0. PICK p, qs, us, rows, new : /\ p = Paging!This /\ qs = request /\ us = request'
                                  /\ rows = row /\ new = row'
  OBVIOUS
<1>1. /\ IsView(p, view) /\ Lists(p, load, view, own, mixed) /\ OwnIsWritten(own, rows)
      /\ AreRequests(p, qs, rows) /\ HeldFor(p, view, qs, load)
      /\ RowsTyped(Paging!Statuses, rows)
  BY <1>0 DEF PageSafe
<1>2. us = [qs EXCEPT ![t] = y] /\ IsRequest(p, y, new) /\ RowsTyped(Paging!Statuses, new)
      /\ \A r \in Paging!Rows : rows[r].ver <= new[r].ver
  BY <1>0
<1>3. AreRequests(p, us, new)
  BY <1>1, <1>2, RequestReplaced
<1>4. HeldFor(p, view, us, load)
  <2>1. DOMAIN qs = Requests
    BY <1>1 DEF AreRequests
  <2>2. Holds(p, qs) => Holds(p, us)
    BY <1>0, <1>2, <2>1, HoldsKept
  <2> QED BY <1>1, <2>2 DEF HeldFor
<1>5. OwnIsWritten(own, new)
  <2>1. \A r \in Paging!Rows :
          /\ own[r] \in Nat /\ rows[r].ver \in Nat /\ new[r].ver \in Nat
          /\ own[r] <= rows[r].ver /\ rows[r].ver <= new[r].ver
    BY <1>1, <1>2 DEF OwnIsWritten, RowsTyped
  <2>2. \A r \in Paging!Rows : own[r] <= new[r].ver
    BY <2>1
  <2> QED BY <1>1, <2>2 DEF OwnIsWritten
<1> QED BY <1>0, <1>1, <1>3, <1>4, <1>5, PageParts, PageAgain

SentFor(r, op, b) ==
  [Paging!NoRequest EXCEPT !.stage = "sent", !.op = op, !.row = r, !.mine = b]

LEMMA SentTyped ==
  ASSUME NEW p, NEW rows, NEW r \in Paging!Rows, NEW op \in DOMAIN p.ops, NEW b \in BOOLEAN
  PROVE  LET y == SentFor(r, op, b)
         IN  IsRequest(p, y, rows) /\ y.mine = b /\ y.op = op
BY DEF SentFor, IsRequest, Paging!NoRequest

LEMMA BeginElsewhereKeeps ==
  ASSUME PageSafe, NEW t \in Requests, NEW r \in Paging!Rows, NEW op \in Paging!Ops,
         Paging!BeginElsewhere(t, r, op)
  PROVE  PageSafe'
<1>1. PICK y : y = SentFor(r, op, FALSE)
  OBVIOUS
<1>2. IsRequest(Paging!This, y, row)
  BY <1>1, SentTyped DEF Paging!Ops
<1>3. /\ request' = [request EXCEPT ![t] = y] /\ Paging!Begins /\ request[t].stage = "idle"
      /\ UNCHANGED <<kind, row, first, view, load, missed, own, mixed>>
  BY <1>1 DEF SentFor, Paging!BeginElsewhere, Paging!Sent, Paging!database, Paging!page
<1>4. ~request[t].mine /\ DOMAIN request = Requests
  BY <1>3, PageParts DEF AreRequests, IsRequest
<1>5. acted' \in 0 .. MaxActed /\ Begun(row, request', acted')
  BY <1>3, <1>4, ActedMore, PageParts, BegunMore
<1>6. \A s \in Paging!Rows : row[s].ver <= row'[s].ver
  BY <1>3, PageParts DEF RowsTyped
<1> QED BY <1>2, <1>3, <1>4, <1>5, <1>6, PageParts, RequestStep

LEMMA ClickKeeps ==
  ASSUME PageSafe, NEW t \in Requests, NEW r \in Paging!Rows,
         NEW op \in DOMAIN Paging!This.offers, Paging!Click(t, r, op)
  PROVE  PageSafe'
<1>0. PICK p, qs, us, y, w :
        /\ p = Paging!This /\ qs = request /\ us = request'
        /\ y = SentFor(r, op, TRUE)
        /\ w = [view EXCEPT !.busy = IF op \in Paging!This.free THEN @ ELSE r]
  OBVIOUS
<1>1. /\ SoundPage(p) /\ IsView(p, view) /\ RowsTyped(Paging!Statuses, row)
      /\ AreRequests(p, qs, row) /\ HeldFor(p, view, qs, load)
  BY <1>0, PageParts
<1>2. op \in DOMAIN p.ops
  BY <1>0, <1>1 DEF SoundPage
<1>3. IsRequest(p, y, row) /\ y.mine = TRUE /\ y.op = op
  BY <1>0, <1>2, SentTyped
<1>4. /\ us = [qs EXCEPT ![t] = y] /\ Paging!Begins /\ qs[t].stage = "idle" /\ view' = w
      /\ UNCHANGED <<kind, row, first, load, missed, own, mixed>>
  BY <1>0 DEF SentFor, Paging!Click, Paging!Sent, Paging!database
<1>5. ~qs[t].mine /\ DOMAIN qs = Requests
  BY <1>1, <1>4 DEF AreRequests, IsRequest
<1>6. acted' \in 0 .. MaxActed /\ Begun(row, us, acted')
  <2>1. /\ acted \in Nat /\ acted' = acted + 1 /\ acted' \in 0 .. MaxActed
        /\ Begun(row, qs, acted)
    BY <1>0, <1>4, ActedMore, PageParts
  <2> QED BY <1>1, <1>4, <1>5, <2>1, BegunMore
<1>7. \A s \in Paging!Rows : row[s].ver <= row[s].ver
  BY <1>1 DEF RowsTyped
<1>8. AreRequests(p, us, row) /\ us[t] = y
  <2>1. us[t] = y
    BY <1>4, <1>5
  <2> QED BY <1>1, <1>3, <1>4, <1>7, <2>1, RequestReplaced
<1>9. /\ w.filter = view.filter /\ w.page = view.page /\ w.shown = view.shown
      /\ w.of = view.of /\ w.failed = view.failed /\ w.left = view.left
      /\ w.busy = (IF op \in p.free THEN view.busy ELSE r) /\ DOMAIN w = DOMAIN view
  BY <1>0, <1>1 DEF IsView
<1>10. IsView(p, w)
  BY <1>1, <1>9 DEF IsView
<1>11. Lists(p, load, w, own, mixed)
  BY <1>0, <1>9, SameLists DEF PageSafe
<1>12. HeldFor(p, w, us, load)
  <2>1. CASE op \in p.free
    <3>1. Holds(p, qs) => Holds(p, us)
      BY <1>4, <1>5, HoldsKept
    <3> QED BY <1>1, <1>9, <2>1, <3>1 DEF HeldFor
  <2>2. CASE op \notin p.free
    BY <1>3, <1>8, <2>2 DEF HeldFor, Holds
  <2> QED BY <2>1, <2>2
<1> QED BY <1>0, <1>4, <1>6, <1>8, <1>10, <1>11, <1>12, PageParts, PageAgain
LEMMA CreateKeeps ==
  ASSUME PageSafe, NEW r \in Paging!Rows, Paging!Create(r) PROVE PageSafe'
<1>0. PICK p, rows, new : p = Paging!This /\ rows = row /\ new = row'
  OBVIOUS
<1>1. /\ RowsTyped(Paging!Statuses, rows) /\ OwnIsWritten(own, rows)
      /\ AreRequests(p, request, rows) /\ Begun(rows, request, acted)
      /\ HeldFor(p, view, request, load) /\ IsView(p, view) /\ missed \in 0 .. MaxMissed
      /\ Lists(p, load, view, own, mixed)
  BY <1>0 DEF PageSafe
<1>2. /\ Paging!Begins /\ first' = r
      /\ UNCHANGED <<kind, view, load, request, missed, own, mixed>>
  BY DEF Paging!Create, Paging!page
<1>3. PICK s \in Paging!This.starts : new = [rows EXCEPT ![r].status = s]
  BY <1>0 DEF Paging!Create
<1>4. s \in Paging!Statuses
  BY DEF Paging!Statuses
<1>5. PICK x : x = rows[r]
  OBVIOUS
<1>6. x \in [status : Paging!Statuses, ver : Nat]
  BY <1>1, <1>5 DEF RowsTyped
<1>7. PICK z : z = [x EXCEPT !.status = s]
  OBVIOUS
<1>8. z \in [status : Paging!Statuses, ver : Nat] /\ z.ver = x.ver
  BY <1>4, <1>6, <1>7
<1>9. new = [rows EXCEPT ![r] = z]
  BY <1>3, <1>5, <1>7
<1>10. RowsTyped(Paging!Statuses, new) /\ \A u \in Paging!Rows : new[u].ver = rows[u].ver
  BY <1>1, <1>5, <1>8, <1>9 DEF RowsTyped
<1>11. \A u \in Paging!Rows : rows[u].ver <= new[u].ver
  BY <1>1, <1>10 DEF RowsTyped
<1>12. AreRequests(p, request, new)
  <2>1. ASSUME NEW t \in Requests PROVE IsRequest(p, request[t], new)
    <3>1. PICK q : q = request[t]
      OBVIOUS
    <3>2. IsRequest(p, q, rows)
      BY <1>1, <3>1 DEF AreRequests
    <3>3. IsRequest(p, q, new)
      BY <1>1, <1>10, <1>11, <3>2, RequestLater
    <3> QED BY <3>1, <3>3
  <2> QED BY <1>1, <2>1 DEF AreRequests
<1>13. OwnIsWritten(own, new)
  BY <1>1, <1>10 DEF OwnIsWritten
<1>14. Begun(new, request, acted)
  BY <1>1, <1>10 DEF Begun
<1>15. acted' \in 0 .. MaxActed /\ Begun(new, request, acted')
  <2>1. acted \in Nat /\ acted' = acted + 1 /\ acted' \in 0 .. MaxActed
    BY <1>2, ActedMore
  <2> QED BY <1>10, <1>14, <2>1, BegunLater
<1> QED BY <1>0, <1>1, <1>2, <1>10, <1>12, <1>13, <1>15, PageAgain

(* What a service answers.                                                     *)
AnswerTo(q, ok, got) ==
  IF q.mine THEN [q EXCEPT !.stage = "done", !.ok = ok, !.got = got] ELSE Paging!NoRequest

LEMMA AnswerTyped ==
  ASSUME NEW p, NEW rows, NEW new, NEW q, IsRequest(p, q, rows), q.stage # "idle",
         NEW ok \in BOOLEAN, NEW got,
         ok => got.ver \in Nat /\ got.ver <= new[q.row].ver,
         NEW y, y = AnswerTo(q, ok, got)
  PROVE  /\ IsRequest(p, y, new) /\ y.stage \notin {"sent", "checked"}
         /\ ~q.mine \/ (y.mine /\ y.op = q.op)
<1>1. CASE q.mine
  <2>1. y = [q EXCEPT !.stage = "done", !.ok = ok, !.got = got]
    BY <1>1 DEF AnswerTo
  <2>2. DOMAIN q = {"stage", "op", "row", "mine", "saw", "ok", "got"}
    BY DEF IsRequest
  <2>3. /\ y.stage = "done" /\ y.ok = ok /\ y.got = got /\ DOMAIN y = DOMAIN q
        /\ y.mine = q.mine /\ y.op = q.op /\ y.row = q.row
    BY <2>1, <2>2
  <2> QED BY <1>1, <2>2, <2>3 DEF IsRequest
<1>2. CASE ~q.mine
  BY <1>2, NoRequestTyped DEF AnswerTo
<1> QED BY <1>1, <1>2

LEMMA AnsweredIs ==
  ASSUME NEW t, NEW ok, NEW got, Paging!Answered(t, ok, got)
  PROVE  request' = [request EXCEPT ![t] = AnswerTo(request[t], ok, got)]
BY DEF Paging!Answered, AnswerTo

LEMMA CheckKeeps ==
  ASSUME PageSafe, NEW t \in Requests, Paging!Check(t) PROVE PageSafe'
<1>0. PICK p, q, s : p = Paging!This /\ q = request[t] /\ s = row[q.row].status
  OBVIOUS
<1>1. /\ RowsTyped(Paging!Statuses, row) /\ AreRequests(p, request, row)
      /\ Begun(row, request, acted) /\ acted \in 0 .. MaxActed
  BY <1>0, PageParts
<1>2. IsRequest(p, q, row) /\ q.stage = "sent" /\ DOMAIN request = Requests
  BY <1>0, <1>1 DEF AreRequests, Paging!Check
<1>3. UNCHANGED <<kind, row, first, view, load, acted, missed, own, mixed>>
  BY DEF Paging!Check, Paging!database, Paging!page
<1>4. \E y : /\ request' = [request EXCEPT ![t] = y] /\ IsRequest(p, y, row)
             /\ ~q.mine \/ (y.mine /\ y.op = q.op)
  <2>1. CASE s \in DOMAIN p.ops[q.op]
    <3>1. PICK y : y = [q EXCEPT !.stage = "checked", !.saw = s]
      OBVIOUS
    <3>2. request' = [request EXCEPT ![t] = y]
      BY <1>0, <1>2, <2>1, <3>1 DEF Paging!Check
    <3>3. DOMAIN q = {"stage", "op", "row", "mine", "saw", "ok", "got"}
      BY <1>2 DEF IsRequest
    <3>4. /\ y.stage = "checked" /\ y.saw = s /\ DOMAIN y = DOMAIN q
          /\ y.mine = q.mine /\ y.op = q.op /\ y.row = q.row
      BY <3>1, <3>3
    <3>5. IsRequest(p, y, row)
      BY <1>2, <2>1, <3>3, <3>4 DEF IsRequest
    <3> QED BY <3>2, <3>4, <3>5
  <2>2. CASE s \notin DOMAIN p.ops[q.op]
    <3>1. Paging!Answered(t, FALSE, Nothing)
      BY <1>0, <2>2 DEF Paging!Check
    <3>2. PICK y : y = AnswerTo(q, FALSE, Nothing)
      OBVIOUS
    <3>3. request' = [request EXCEPT ![t] = y]
      BY <1>0, <3>1, <3>2, AnsweredIs
    <3>4. IsRequest(p, y, row) /\ (~q.mine \/ (y.mine /\ y.op = q.op))
      BY <1>2, <3>2, AnswerTyped
    <3> QED BY <3>3, <3>4
  <2> QED BY <2>1, <2>2
<1>5. PICK y : /\ request' = [request EXCEPT ![t] = y] /\ IsRequest(p, y, row)
               /\ ~q.mine \/ (y.mine /\ y.op = q.op)
  BY <1>4
<1>6. Begun(row, request', acted)
  <2>1. PICK us : us = request'
    OBVIOUS
  <2>2. InFlight(us) \subseteq InFlight(request)
    BY <1>0, <1>2, <1>5, <2>1 DEF InFlight
  <2>3. acted \in Nat
    BY <1>1
  <2>4. Begun(row, us, acted)
    BY <1>1, <2>2, <2>3, BegunKept
  <2> QED BY <2>1, <2>4
<1>7. \A r \in Paging!Rows : row[r].ver <= row'[r].ver
  BY <1>1, <1>3 DEF RowsTyped
<1> QED BY <1>0, <1>1, <1>3, <1>5, <1>6, <1>7, PageParts, RequestStep

LEMMA WriteKeeps ==
  ASSUME PageSafe, NEW t \in Requests, Paging!Write(t) PROVE PageSafe'
<1>0. PICK p, q, rows, x, z :
        /\ p = Paging!This /\ q = request[t] /\ rows = row /\ x = row[q.row]
        /\ z = [status |-> Paging!This.ops[q.op][q.saw], ver |-> row[q.row].ver + 1]
  OBVIOUS
<1>1. /\ RowsTyped(Paging!Statuses, rows) /\ AreRequests(p, request, rows)
      /\ Begun(rows, request, acted) /\ acted \in 0 .. MaxActed /\ first \in Paging!Rows
  BY <1>0, PageParts
<1>2. IsRequest(p, q, rows) /\ q.stage = "checked" /\ DOMAIN request = Requests
  BY <1>0, <1>1 DEF AreRequests, Paging!Write
<1>3. q.row \in Paging!Rows /\ q.op \in DOMAIN p.ops /\ q.saw \in DOMAIN p.ops[q.op]
  BY <1>2 DEF IsRequest
<1>4. UNCHANGED <<kind, view, load, acted, missed, own, mixed>>
  BY DEF Paging!Write, Paging!page
<1>5. \E y : /\ request' = [request EXCEPT ![t] = y] /\ IsRequest(p, y, row')
             /\ y.stage \notin {"sent", "checked"}
             /\ ~q.mine \/ (y.mine /\ y.op = q.op)
             /\ RowsTyped(Paging!Statuses, row') /\ first' \in Paging!Rows
             /\ \A r \in Paging!Rows : row'[r].ver \in {rows[r].ver, rows[r].ver + 1}
  <2>1. CASE row[q.row].status = "gone"
    <3>1. Paging!Answered(t, FALSE, Nothing) /\ row' = rows /\ first' = first
      BY <1>0, <2>1 DEF Paging!Write, Paging!database
    <3>2. PICK y : y = AnswerTo(q, FALSE, Nothing)
      OBVIOUS
    <3>3. request' = [request EXCEPT ![t] = y]
      BY <1>0, <3>1, <3>2, AnsweredIs
    <3>4. /\ IsRequest(p, y, rows) /\ y.stage \notin {"sent", "checked"}
          /\ ~q.mine \/ (y.mine /\ y.op = q.op)
      BY <1>2, <3>2, AnswerTyped
    <3> QED BY <1>1, <3>1, <3>3, <3>4
  <2>2. CASE row[q.row].status # "gone"
    <3>1. /\ row' = [rows EXCEPT ![q.row] = z] /\ Paging!Answered(t, TRUE, z)
          /\ first' = IF Paging!This.touched THEN q.row ELSE first
      BY <1>0, <2>2 DEF Paging!Write
    <3>2. PICK new : new = row'
      OBVIOUS
    <3>3. x \in [status : Paging!Statuses, ver : Nat]
      BY <1>0, <1>1, <1>3 DEF RowsTyped
    <3>4. z.ver = x.ver + 1 /\ z.ver \in Nat
      BY <1>0, <3>3
    <3>5. z \in [status : Paging!Statuses, ver : Nat]
      <4>1. p.ops[q.op][q.saw] \in Paging!Statuses
        BY <1>0, <1>3 DEF Paging!Statuses, Paging!Ops
      <4> QED BY <1>0, <3>4, <4>1
    <3>6. /\ new \in [Paging!Rows -> [status : Paging!Statuses, ver : Nat]]
          /\ new[q.row] = z /\ \A r \in Paging!Rows : r # q.row => new[r] = rows[r]
      BY <1>1, <1>3, <3>1, <3>2, <3>5 DEF RowsTyped
    <3>7. \A r \in Paging!Rows : new[r].ver \in {rows[r].ver, rows[r].ver + 1}
      BY <1>0, <3>4, <3>6
    <3>8. PICK y, ok : y = AnswerTo(q, ok, z) /\ ok = TRUE
      OBVIOUS
    <3>9. request' = [request EXCEPT ![t] = y]
      <4>1. Paging!Answered(t, ok, z)
        BY <3>1, <3>8
      <4>2. request' = [request EXCEPT ![t] = AnswerTo(request[t], ok, z)]
        BY <4>1, AnsweredIs
      <4>3. y = AnswerTo(request[t], ok, z)
        BY <1>0, <3>8
      <4> QED BY <4>2, <4>3
    <3>10. ok \in BOOLEAN /\ z.ver <= new[q.row].ver /\ q.stage # "idle"
      BY <1>2, <3>4, <3>6, <3>8
    <3>11. /\ IsRequest(p, y, new) /\ y.stage \notin {"sent", "checked"}
           /\ ~q.mine \/ (y.mine /\ y.op = q.op)
      BY <1>2, <3>4, <3>8, <3>10, AnswerTyped
    <3>12. RowsTyped(Paging!Statuses, new)
      BY <3>6 DEF RowsTyped
    <3>13. first' \in Paging!Rows
      BY <1>1, <1>3, <3>1
    <3> QED BY <3>2, <3>7, <3>9, <3>11, <3>12, <3>13
  <2> QED BY <2>1, <2>2
<1>6. PICK y : /\ request' = [request EXCEPT ![t] = y] /\ IsRequest(p, y, row')
               /\ y.stage \notin {"sent", "checked"}
               /\ ~q.mine \/ (y.mine /\ y.op = q.op)
               /\ RowsTyped(Paging!Statuses, row') /\ first' \in Paging!Rows
               /\ \A r \in Paging!Rows : row'[r].ver \in {rows[r].ver, rows[r].ver + 1}
  BY <1>5
<1>7. Begun(row', request', acted)
  <2>1. PICK us, qs, new : us = request' /\ qs = request /\ new = row'
    OBVIOUS
  <2>2. /\ acted \in Nat /\ DOMAIN qs = Requests /\ qs[t].stage = "checked"
        /\ us = [qs EXCEPT ![t] = y] /\ Begun(rows, qs, acted)
    BY <1>0, <1>1, <1>2, <1>6, <2>1
  <2>3. \A r \in Paging!Rows : new[r].ver \in {rows[r].ver, rows[r].ver + 1}
    BY <1>6, <2>1
  <2>4. Begun(new, us, acted)
    BY <1>1, <1>6, <2>2, <2>3, BegunWritten
  <2> QED BY <2>1, <2>4
<1>8. \A r \in Paging!Rows : row[r].ver <= row'[r].ver
  <2>1. \A r \in Paging!Rows : rows[r].ver \in Nat
    BY <1>1 DEF RowsTyped
  <2> QED BY <1>0, <1>6, <2>1
<1> QED BY <1>0, <1>1, <1>4, <1>6, <1>7, <1>8, RequestStep
(* An error, or no answer: the button of the request comes back.               *)
LEMMA ReleasedKeeps ==
  ASSUME PageSafe, NEW t \in Requests, Paging!Released(t), request[t].stage = "done",
         missed' \in 0 .. MaxMissed
  PROVE  PageSafe'
<1>0. PICK p, q, qs, us, w :
        /\ p = Paging!This /\ q = request[t] /\ qs = request /\ us = request'
        /\ w = [view EXCEPT !.busy = IF request[t].op \in Paging!This.free THEN @ ELSE Nothing]
  OBVIOUS
<1>1. /\ IsView(p, view) /\ RowsTyped(Paging!Statuses, row) /\ AreRequests(p, qs, row)
      /\ HeldFor(p, view, qs, load) /\ Begun(row, qs, acted) /\ acted \in 0 .. MaxActed
      /\ first \in Paging!Rows
  BY <1>0, PageParts
<1>2. us = [qs EXCEPT ![t] = Paging!NoRequest] /\ view' = w /\ DOMAIN qs = Requests
      /\ qs[t] = q /\ UNCHANGED <<kind, row, first, load, acted, own, mixed>>
  BY <1>0, <1>1 DEF Paging!Released, Paging!database, AreRequests
<1>3. IsRequest(p, Paging!NoRequest, row) /\ Paging!NoRequest.stage = "idle"
  BY NoRequestTyped
<1>4. \A s \in Paging!Rows : row[s].ver <= row[s].ver
  BY <1>1 DEF RowsTyped
<1>5. AreRequests(p, us, row)
  BY <1>1, <1>2, <1>3, <1>4, RequestReplaced
<1>6. InFlight(us) \subseteq InFlight(qs)
  BY <1>2, <1>3 DEF InFlight
<1>7. acted \in Nat /\ Begun(row, us, acted)
  BY <1>1, <1>6, BegunKept
<1>8. /\ w.filter = view.filter /\ w.page = view.page /\ w.shown = view.shown
      /\ w.of = view.of /\ w.failed = view.failed /\ w.left = view.left
      /\ w.busy = (IF q.op \in p.free THEN view.busy ELSE Nothing) /\ DOMAIN w = DOMAIN view
  BY <1>0, <1>1 DEF IsView
<1>9. IsView(p, w)
  BY <1>1, <1>8 DEF IsView
<1>10. Lists(p, load, w, own, mixed)
  BY <1>0, <1>8, SameLists DEF PageSafe
<1>11. HeldFor(p, w, us, load)
  <2>1. CASE q.op \in p.free
    <3>1. Holds(p, qs) => Holds(p, us)
      BY <1>2, <2>1, HoldsKept
    <3> QED BY <1>1, <1>8, <2>1, <3>1 DEF HeldFor
  <2>2. CASE q.op \notin p.free
    BY <1>8, <2>2 DEF HeldFor
  <2> QED BY <2>1, <2>2
<1> QED BY <1>0, <1>1, <1>2, <1>5, <1>7, <1>9, <1>10, <1>11, PageParts, PageAgain

LEMMA RefusedKeeps ==
  ASSUME PageSafe, NEW t \in Requests, Paging!Refused(t) PROVE PageSafe'
<1>1. request[t].stage = "done" /\ Paging!Released(t) /\ missed' = missed
  BY DEF Paging!Refused
<1> QED BY <1>1, PageParts, ReleasedKeeps

LEMMA LoseAnswerKeeps ==
  ASSUME PageSafe, NEW t \in Requests, Paging!LoseAnswer(t) PROVE PageSafe'
<1>1. /\ request[t].stage = "done" /\ Paging!Released(t)
      /\ missed < MaxMissed /\ missed' = missed + 1
  BY DEF Paging!LoseAnswer
<1>2. missed \in 0 .. MaxMissed
  BY PageParts
<1>3. missed' \in 0 .. MaxMissed
  BY <1>1, <1>2, BrowserAssumption
<1> QED BY <1>1, <1>3, ReleasedKeeps

(* The lists that outlast a success: what the reader was told is written is    *)
(* not shown older by them, or is known to be mixed.                           *)
LEMMA KeptCurrent ==
  ASSUME NEW p, NEW ls, NEW c, \A l \in Paging!Pending(c) : l \in Paging!Pending(ls) /\ c[l] = ls[l],
         NEW v, NEW o, NEW m, AreCurrent(ls, v, o, m),
         NEW w, w.filter = v.filter, w.page = v.page,
         NEW r, NEW n, NEW k, NEW u, u = [o EXCEPT ![r] = n], DOMAIN o = Paging!Rows,
         k = m \/ k = m \cup {r},
         (\E l \in Paging!Pending(c) : "rows" \in c[l].read) => k = m \cup {r},
         AreLoads(p, ls)
  PROVE  AreCurrent(c, w, u, k)
<1> SUFFICES ASSUME NEW l \in Paging!Pending(c) PROVE Current(c[l], w, k) /\ Recent(c[l], u, k)
  BY DEF AreCurrent
<1>1. l \in Paging!Pending(ls) /\ c[l] = ls[l]
  OBVIOUS
<1>2. PICK x : x = ls[l]
  OBVIOUS
<1>3. Current(x, v, m) /\ Recent(x, o, m) /\ c[l] = x
  BY <1>1, <1>2 DEF AreCurrent
<1>4. Current(x, w, k)
  BY <1>3 DEF Current
<1>5. Recent(x, u, k)
  <2> SUFFICES ASSUME "rows" \in x.read, NEW s \in DOMAIN x.got \ k
               PROVE  x.got[s].ver >= u[s]
    BY DEF Recent
  <2>1. k = m \cup {r}
    BY <1>3
  <2>2. x.got[s].ver >= o[s] /\ s # r
    BY <1>3, <2>1 DEF Recent
  <2>3. s \in Paging!Rows
    <3>1. IsLoad(p, x) /\ x.stage = "sent"
      BY <1>1, <1>2 DEF AreLoads, Paging!Pending
    <3> QED BY <3>1 DEF IsLoad
  <2>4. u[s] = o[s]
    BY <2>2, <2>3
  <2> QED BY <2>2, <2>4
<1> QED BY <1>3, <1>4, <1>5
(* The row of an answer is put in the place of what the page shows of it.      *)
LEMMA PatchedShows ==
  ASSUME NEW f, NEW r, NEW x, NEW g, g = Paging!Patched(f, r, x)
  PROVE  /\ DOMAIN g \subseteq DOMAIN f
         /\ \A s \in DOMAIN g : g[s] = IF s = r THEN x ELSE f[s]
BY DEF Paging!Patched

(* What a page is after the answer x to a request for the row r.               *)
Newest(o, r, x) == [o EXCEPT ![r] = IF x.ver > o[r] THEN x.ver ELSE o[r]]
Mixes(o, m, k, r, x) == (k = m \/ k = m \cup {r}) /\ (x.ver < o[r] => k = m \cup {r})
PatchedView(v, w, r, x) ==
  /\ w.shown = Paging!Patched(v.shown, r, x) /\ w.filter = v.filter /\ w.page = v.page
  /\ w.of = v.of /\ w.failed = v.failed

(* A page of rows that an answer patches stays settled.                        *)
LEMMA PatchSettles ==
  ASSUME NEW ls, NEW v, NEW o, NEW m, Settled(ls, v, o, m),
         DOMAIN v.shown \subseteq Paging!Rows, ~v.left,
         NEW r \in Paging!Rows, NEW x, x.ver \in Nat, o \in [Paging!Rows -> Nat],
         NEW k, Mixes(o, m, k, r, x), NEW w, PatchedView(v, w, r, x)
  PROVE  Settled(ls, w, Newest(o, r, x), k)
<1>0. PICK u, n : /\ u = Newest(o, r, x) /\ n = (IF x.ver > o[r] THEN x.ver ELSE o[r])
                  /\ u = [o EXCEPT ![r] = n]
  BY DEF Newest
<1> SUFFICES ASSUME Paging!Pending(ls) = {}, ~w.failed
             PROVE  /\ "list" \notin k => w.of = <<w.filter, w.page>>
                    /\ \A s \in DOMAIN w.shown \ k : w.shown[s].ver >= u[s]
  BY <1>0 DEF Settled
<1>1. /\ "list" \notin m => v.of = <<v.filter, v.page>>
      /\ \A s \in DOMAIN v.shown \ m : v.shown[s].ver >= o[s]
  BY DEF Settled, PatchedView
<1>2. PICK g, f : g = w.shown /\ f = v.shown
  OBVIOUS
<1>3. DOMAIN g \subseteq DOMAIN f /\ \A s \in DOMAIN g : g[s] = IF s = r THEN x ELSE f[s]
  BY <1>2, PatchedShows DEF PatchedView
<1>4. ASSUME NEW s \in DOMAIN g \ k PROVE g[s].ver >= u[s]
  <2>1. s \in DOMAIN f \ m /\ s \in Paging!Rows
    BY <1>2, <1>3, <1>4 DEF Mixes
  <2>2. CASE s = r
    <3>1. u[s] = n /\ g[s] = x
      BY <1>0, <1>3, <1>4, <2>1, <2>2
    <3>2. ~(x.ver < o[r]) /\ o[r] \in Nat
      BY <1>4, <2>2 DEF Mixes
    <3> QED BY <1>0, <3>1, <3>2
  <2>3. CASE s # r
    BY <1>0, <1>1, <1>2, <1>3, <1>4, <2>1, <2>3 DEF Mixes
  <2> QED BY <2>2, <2>3
<1> QED BY <1>1, <1>2, <1>4 DEF Mixes, PatchedView

LEMMA SucceedKeeps ==
  ASSUME PageSafe, NEW t \in Requests, Paging!Succeed(t) PROVE PageSafe'
<1>0. PICK p, q, qs, us, c, a, n, w :
        /\ p = Paging!This /\ q = request[t] /\ qs = request /\ us = request'
        /\ c = (IF Paging!This.after = "reload" THEN Paging!Cancelled(load) ELSE load)
        /\ a = (Paging!This.after = "await")
        /\ n = (IF q.got.ver > own[q.row] THEN q.got.ver ELSE own[q.row])
        /\ w = view'
  OBVIOUS
<1>1. /\ SoundPage(p) /\ IsView(p, view) /\ RowsTyped(Paging!Statuses, row)
      /\ AreRequests(p, qs, row) /\ HeldFor(p, view, qs, load) /\ Begun(row, qs, acted)
      /\ acted \in 0 .. MaxActed /\ first \in Paging!Rows /\ OwnIsWritten(own, row)
      /\ AreLoads(p, load) /\ AreCurrent(load, view, own, mixed)
      /\ OneLoad(p, load) /\ Settled(load, view, own, mixed)
  BY <1>0, PageParts
<1>2. /\ IsRequest(p, q, row) /\ q.stage = "done" /\ q.ok /\ ~view.left /\ qs[t] = q
      /\ DOMAIN qs = Requests
  BY <1>0, <1>1 DEF AreRequests, Paging!Succeed
<1>3. q.row \in Paging!Rows /\ q.got.ver \in Nat /\ q.got.ver <= row[q.row].ver
  BY <1>2 DEF IsRequest
<1>4. /\ us = [qs EXCEPT ![t] = Paging!NoRequest]
      /\ own' = [own EXCEPT ![q.row] = n]
      /\ mixed' = (IF Paging!Overlapped(t, c) THEN mixed \cup {q.row} ELSE mixed)
      /\ UNCHANGED <<kind, row, first, acted, missed>>
  BY <1>0 DEF Paging!Succeed, Paging!database
<1>5. /\ DOMAIN w = DOMAIN view
      /\ w.shown = (IF p.after = "patch" THEN Paging!Patched(view.shown, q.row, q.got)
                    ELSE view.shown)
      /\ w.left = (q.op \in p.leaves)
      /\ w.busy = (IF q.op \in p.free \/ p.after = "await" THEN view.busy ELSE Nothing)
      /\ w.filter = view.filter /\ w.page = view.page /\ w.of = view.of
      /\ w.failed = view.failed
  BY <1>0, <1>1 DEF Paging!Succeed, IsView
<1>6. /\ load' = (IF p.after # "patch" /\ q.op \notin p.leaves
                  THEN Paging!With(c, Paging!Asked(w.filter, w.page, a)) ELSE c)
      /\ p.after # "patch" /\ q.op \notin p.leaves => Paging!HasRoom(c)
  BY <1>0, <1>5 DEF Paging!Succeed
<1>7. IsView(p, w)
  <2>1. DOMAIN w.shown \subseteq DOMAIN view.shown
    BY <1>5, PatchedShows
  <2> QED BY <1>1, <1>5, <2>1 DEF IsView
(* The requests. *)
<1>8. IsRequest(p, Paging!NoRequest, row) /\ Paging!NoRequest.stage = "idle"
  BY NoRequestTyped
<1>9. AreRequests(p, us, row)
  <2>1. \A s \in Paging!Rows : row[s].ver <= row[s].ver
    BY <1>1 DEF RowsTyped
  <2> QED BY <1>1, <1>4, <1>8, <2>1, RequestReplaced
<1>10. Begun(row, us, acted)
  <2>1. InFlight(us) \subseteq InFlight(qs)
    BY <1>2, <1>4, <1>8 DEF InFlight
  <2>2. acted \in Nat
    BY <1>1
  <2> QED BY <1>1, <2>1, <2>2, BegunKept
<1>11. OwnIsWritten(own', row)
  <2>1. own[q.row] \in Nat /\ own[q.row] <= row[q.row].ver /\ own \in [Paging!Rows -> Nat]
    BY <1>1, <1>3 DEF OwnIsWritten
  <2>2. n \in Nat /\ n <= row[q.row].ver
    BY <1>0, <1>3, <2>1
  <2>3. own' \in [Paging!Rows -> Nat]
    BY <1>3, <1>4, <2>1, <2>2
  <2>4. \A r \in Paging!Rows : own'[r] <= row[r].ver
    BY <1>1, <1>3, <1>4, <2>1, <2>2 DEF OwnIsWritten
  <2> QED BY <2>3, <2>4 DEF OwnIsWritten
(* The lists that last. *)
<1>12. /\ AreLoads(p, c) /\ (p.drops => p.after = "patch" \/ Paging!Pending(c) = {})
       /\ (c = load \/ Paging!Pending(c) = {}) /\ (~p.drops => c = load)
       /\ (p.after = "patch" => c = load)
  BY <1>0, <1>1, CancelledLoads DEF SoundPage
<1>13. AreCurrent(c, w, own', mixed')
  <2>1. PICK u, k : u = own' /\ k = mixed'
    OBVIOUS
  <2>2. \A l \in Paging!Pending(c) : l \in Paging!Pending(load) /\ c[l] = load[l]
    BY <1>12
  <2>3. u = [own EXCEPT ![q.row] = n] /\ DOMAIN own = Paging!Rows
    BY <1>1, <1>4, <2>1 DEF OwnIsWritten
  <2>4. k = mixed \/ k = mixed \cup {q.row}
    BY <1>4, <2>1
  <2>5. (\E l \in Paging!Pending(c) : "rows" \in c[l].read) => k = mixed \cup {q.row}
    BY <1>4, <2>1 DEF Paging!Overlapped
  <2>6. w.filter = view.filter /\ w.page = view.page
    BY <1>5
  <2>7. AreCurrent(c, w, u, k)
    BY <1>1, <2>2, <2>3, <2>4, <2>5, <2>6, KeptCurrent
  <2> QED BY <2>1, <2>7
<1>14. a \in BOOLEAN /\ (a => p.after = "await") /\ w.filter \in p.filters /\ w.page \in 1 .. 2
  BY <1>0, <1>7 DEF IsView
<1>15. Lists(p, load', w, own', mixed')
  <2>1. PICK u, k, ls : u = own' /\ k = mixed' /\ ls = load'
    OBVIOUS
  <2>2. CASE p.after # "patch" /\ q.op \notin p.leaves
    <3>1. ls = Paging!With(c, Paging!Asked(w.filter, w.page, a)) /\ Paging!HasRoom(c)
      BY <1>6, <2>1, <2>2
    <3>2. p.drops => Paging!Pending(c) = {}
      BY <1>12, <2>2
    <3>3. AreCurrent(c, w, u, k)
      BY <1>13, <2>1
    <3>4. Lists(p, ls, w, u, k)
      BY <1>12, <1>14, <3>1, <3>2, <3>3, AskedLists
    <3> QED BY <2>1, <3>4
  <2>3. CASE ~(p.after # "patch" /\ q.op \notin p.leaves)
    <3>1. ls = c
      BY <1>6, <2>1, <2>3
    <3>2. OneLoad(p, c)
      BY <1>1, <1>12 DEF OneLoad
    <3>3. Settled(c, w, u, k)
      <4>1. CASE q.op \in p.leaves
        BY <1>5, <4>1 DEF Settled
      <4>2. CASE q.op \notin p.leaves
        <5>1. p.after = "patch" /\ c = load
          BY <1>12, <2>3, <4>2
        <5>2. own \in [Paging!Rows -> Nat] /\ DOMAIN view.shown \subseteq Paging!Rows
          BY <1>1 DEF OwnIsWritten, IsView
        <5>3. PICK x, r : x = q.got /\ r = q.row
          OBVIOUS
        <5>4. u = Newest(own, r, x)
          BY <1>0, <1>4, <2>1, <5>3 DEF Newest
        <5>5. Mixes(own, mixed, k, r, x)
          BY <1>0, <1>4, <2>1, <5>1, <5>3 DEF Mixes, Paging!Overlapped
        <5>6. PatchedView(view, w, r, x)
          BY <1>5, <5>1, <5>3 DEF PatchedView
        <5>7. r \in Paging!Rows /\ x.ver \in Nat
          BY <1>3, <5>3
        <5>8. Settled(load, w, u, k)
          BY <1>1, <1>2, <5>2, <5>4, <5>5, <5>6, <5>7, PatchSettles
        <5> QED BY <5>1, <5>8
      <4> QED BY <4>1, <4>2
    <3>4. AreCurrent(c, w, u, k)
      BY <1>13, <2>1
    <3> QED BY <1>12, <2>1, <3>1, <3>2, <3>3, <3>4 DEF Lists
  <2> QED BY <2>2, <2>3
<1>16. HeldFor(p, w, us, load')
  <2>1. PICK ls : ls = load'
    OBVIOUS
  <2>2. CASE p.after # "patch" /\ q.op \notin p.leaves
    <3>1. ls = Paging!With(c, Paging!Asked(w.filter, w.page, a)) /\ Paging!HasRoom(c)
      BY <1>6, <2>1, <2>2
    <3>2. (a => Awaits(ls)) /\ Lasts(c, ls)
      BY <1>12, <1>14, <3>1, AskedAdds
    <3>3. CASE p.after = "await"
      BY <1>0, <2>1, <3>2, <3>3 DEF HeldFor
    <3>4. CASE p.after # "await" /\ q.op \in p.free
      <4>1. Holds(p, qs) => Holds(p, us)
        BY <1>2, <1>4, <3>4, HoldsKept
      <4>2. HeldFor(p, view, us, load)
        BY <1>1, <4>1 DEF HeldFor
      <4>3. w.busy = view.busy /\ (~p.drops => Lasts(load, ls))
        BY <1>5, <1>12, <3>2, <3>4
      <4> QED BY <1>1, <2>1, <4>2, <4>3, StillHeld
    <3>5. CASE p.after # "await" /\ q.op \notin p.free
      BY <1>5, <3>5 DEF HeldFor
    <3> QED BY <3>3, <3>4, <3>5
  <2>3. CASE ~(p.after # "patch" /\ q.op \notin p.leaves)
    <3>1. ls = c /\ p.after # "await"
      BY <1>1, <1>6, <2>1, <2>3 DEF SoundPage
    <3>2. CASE q.op \in p.free
      <4>1. Holds(p, qs) => Holds(p, us)
        BY <1>2, <1>4, <3>2, HoldsKept
      <4>2. HeldFor(p, view, us, load)
        BY <1>1, <4>1 DEF HeldFor
      <4>3. w.busy = view.busy /\ (~p.drops => Lasts(load, ls))
        BY <1>5, <1>12, <3>1, <3>2 DEF Lasts
      <4> QED BY <1>1, <2>1, <4>2, <4>3, StillHeld
    <3>3. CASE q.op \notin p.free
      BY <1>5, <3>1, <3>3 DEF HeldFor
    <3> QED BY <3>2, <3>3
  <2> QED BY <2>2, <2>3
<1> QED BY <1>0, <1>1, <1>4, <1>7, <1>9, <1>10, <1>11, <1>15, <1>16, PageParts, PageAgain
-----------------------------------------------------------------------------
(* The first state, and every step.                                            *)

LEMMA InitPage == Paging!Init => PageSafe
<1> SUFFICES ASSUME Paging!Init PROVE PageSafe
  OBVIOUS
<1>0. PICK p, f :
        /\ p = Paging!This
        /\ f = CHOOSE g \in p.filters : "all" \in p.filters => g = "all"
  OBVIOUS
<1>1. kind \in Kinds /\ SoundPage(p)
  BY <1>0, ThisSound DEF Paging!Init
<1>2. f \in p.filters
  <2>1. \E g \in p.filters : "all" \in p.filters => g = "all"
    BY <1>1 DEF SoundPage
  <2> QED BY <1>0, <2>1
<1>3. PICK y : y = Paging!Asked(f, 1, FALSE)
  OBVIOUS
<1>4. /\ view = [filter |-> f, page |-> 1, shown |-> <<>>, of |-> Nothing, total |-> 0,
                 busy |-> Nothing, failed |-> FALSE, left |-> FALSE]
      /\ load = [l \in 1 .. Loads |-> IF l = 1 THEN y ELSE Paging!NoLoad]
      /\ request = [t \in Requests |-> Paging!NoRequest]
      /\ acted = 0 /\ missed = 0 /\ own = [r \in Paging!Rows |-> 0] /\ mixed = {}
  BY <1>0, <1>3 DEF Paging!Init
<1>5. row \in [Paging!Rows -> [status : Paging!This.starts \cup {"none"}, ver : {0}]]
  BY DEF Paging!Init
<1>6. first \in Paging!Rows
  BY DEF Paging!Init, Paging!Scope, Paging!Rows
<1>7. RowsTyped(Paging!Statuses, row) /\ \A r \in Paging!Rows : row[r].ver = 0
  <2>1. Paging!This.starts \cup {"none"} \subseteq Paging!Statuses
    BY DEF Paging!Statuses
  <2> QED BY <1>5, <2>1 DEF RowsTyped
<1>8. OwnIsWritten(own, row)
  BY <1>4, <1>7 DEF OwnIsWritten
<1>9. IsView(p, view)
  BY <1>2, <1>4 DEF IsView
<1>10. /\ IsLoad(p, y) /\ y.stage = "sent" /\ y.read = {} /\ y.filter = f /\ y.page = 1
  <2>1. 1 \in 1 .. 2
    OBVIOUS
  <2> QED BY <1>2, <1>3, <2>1 DEF IsLoad, Paging!NoLoad, Paging!Asked
<1>11. \A l \in Paging!Pending(load) : l = 1 /\ load[l] = y
  BY <1>4, NoLoadTyped DEF Paging!Pending
<1>12. AreLoads(p, load)
  BY <1>4, <1>10, NoLoadTyped DEF AreLoads
<1>13. AreCurrent(load, view, own, mixed) /\ OneLoad(p, load)
  <2>1. Current(y, view, mixed) /\ Recent(y, own, mixed)
    BY <1>4, <1>10 DEF Current, Recent
  <2> QED BY <1>11, <2>1 DEF AreCurrent, OneLoad
<1>14. Settled(load, view, own, mixed)
  <2>1. 1 \in 1 .. Loads
    BY BrowserAssumption
  <2>2. 1 \in Paging!Pending(load)
    BY <1>4, <1>10, <2>1 DEF Paging!Pending
  <2> QED BY <2>2 DEF Settled
<1>15. AreRequests(p, request, row)
  BY <1>4, NoRequestTyped DEF AreRequests
<1>16. Begun(row, request, 0)
  <2>1. InFlight(request) = {}
    BY <1>4, NoRequestTyped DEF InFlight
  <2> QED BY <1>7, <2>1, FS_EmptySet DEF Begun
<1>17. HeldFor(p, view, request, load)
  BY <1>4 DEF HeldFor
<1>18. acted \in 0 .. MaxActed /\ missed \in 0 .. MaxMissed
  BY <1>4, BrowserAssumption
<1> QED BY <1>0, <1>1, <1>4, <1>6, <1>7, <1>8, <1>9, <1>12, <1>13, <1>14, <1>15, <1>16, <1>17,
           <1>18 DEF PageSafe, Lists

LEMMA NextPage == PageSafe /\ [Paging!Next]_(Paging!vars) => PageSafe'
<1> SUFFICES ASSUME PageSafe, [Paging!Next]_(Paging!vars) PROVE PageSafe'
  OBVIOUS
<1>1. ASSUME NEW f \in Paging!This.filters, Paging!Move(f) PROVE PageSafe'
  BY <1>1, MoveKeeps
<1>2. ASSUME NEW g \in 1 .. 2, Paging!Turn(g) PROVE PageSafe'
  BY <1>2, TurnKeeps
<1>3. ASSUME NEW l \in 1 .. Loads,
             \/ Paging!ReadRows(l) \/ Paging!ReadTotal(l)
             \/ Paging!ShowLoad(l) \/ Paging!LoadFails(l)
      PROVE  PageSafe'
  BY <1>3, ReadRowsKeeps, ReadTotalKeeps, ShowLoadKeeps, ListFailsKeeps
<1>4. ASSUME NEW t \in Requests, NEW r \in Paging!Rows, NEW op \in Paging!Ops,
             Paging!BeginElsewhere(t, r, op)
      PROVE  PageSafe'
  BY <1>4, BeginElsewhereKeeps
<1>5. ASSUME NEW t \in Requests, NEW r \in Paging!Rows,
             NEW op \in DOMAIN Paging!This.offers, Paging!Click(t, r, op)
      PROVE  PageSafe'
  BY <1>5, ClickKeeps
<1>6. ASSUME NEW r \in Paging!Rows, Paging!Create(r) PROVE PageSafe'
  BY <1>6, CreateKeeps
<1>7. ASSUME NEW t \in Requests,
             \/ Paging!Check(t) \/ Paging!Write(t) \/ Paging!Succeed(t)
             \/ Paging!Refused(t) \/ Paging!LoseAnswer(t)
      PROVE  PageSafe'
  BY <1>7, CheckKeeps, WriteKeeps, SucceedKeeps, RefusedKeeps, LoseAnswerKeeps
<1>8. CASE UNCHANGED Paging!vars
  <2>1. UNCHANGED <<kind, row, first, view, load, request, acted, missed, own, mixed>>
    BY <1>8 DEF Paging!vars
  <2> QED BY <2>1, PageAgain DEF PageSafe
<1> QED BY <1>1, <1>2, <1>3, <1>4, <1>5, <1>6, <1>7, <1>8 DEF Paging!Next

LEMMA PageSafeAlways == Paging!Spec => []PageSafe
BY InitPage, NextPage, PTL DEF Paging!Spec
-----------------------------------------------------------------------------
(* Pages: the theorems.                                                        *)

LEMMA SafeIsTyped == PageSafe => Paging!TypeOK
<1> SUFFICES ASSUME PageSafe PROVE Paging!TypeOK
  OBVIOUS
<1>0. PICK p : p = Paging!This
  OBVIOUS
<1>1. /\ IsView(p, view) /\ AreLoads(p, load) /\ AreRequests(p, request, row)
      /\ RowsTyped(Paging!Statuses, row) /\ Begun(row, request, acted)
      /\ acted \in 0 .. MaxActed /\ missed \in 0 .. MaxMissed /\ first \in Paging!Rows
      /\ kind \in Kinds
  BY <1>0, PageParts DEF PageSafe
<1>2. ASSUME NEW r \in Paging!Rows
      PROVE  row[r].status \in Paging!Statuses /\ row[r].ver \in 0 .. MaxActed
  <2>1. PICK a \in Nat : a = Cardinality(InFlight(request))
    BY InFlightFinite
  <2>2. row[r].ver + a <= acted
    BY <1>1, <2>1 DEF Begun
  <2>3. row[r].ver \in Nat /\ row[r].status \in Paging!Statuses
    BY <1>1 DEF RowsTyped
  <2>4. row[r].ver <= MaxActed
    BY <1>1, <2>2, <2>3, BrowserAssumption
  <2> QED BY <2>3, <2>4, BrowserAssumption
<1>3. /\ view.filter \in p.filters /\ view.page \in 1 .. 2
      /\ DOMAIN view.shown \subseteq Paging!Rows
      /\ view.of = Nothing \/ (view.of[1] \in p.filters /\ view.of[2] \in 1 .. 2)
      /\ view.busy \in Paging!Rows \cup {Nothing}
  BY <1>1 DEF IsView
<1>4. \A l \in 1 .. Loads : load[l].stage \in {"idle", "sent"} /\ load[l].total \in 0 .. 2
  BY <1>1 DEF AreLoads, IsLoad
<1>5. \A t \in Requests : request[t].stage \in {"idle", "sent", "checked", "done"}
  BY <1>1 DEF AreRequests, IsRequest
<1> QED BY <1>0, <1>1, <1>2, <1>3, <1>4, <1>5 DEF Paging!TypeOK

(* A page is of its types, and a button it holds back comes back: something    *)
(* that clears busyId is still under way (the handlers of pages/admin and      *)
(* pages/dashboard).                                                           *)
THEOREM ButtonsComeBackAlways == Paging!Spec => []ButtonsComeBack
<1>1. PageSafe => Paging!BusyIsReleased
  <2> SUFFICES ASSUME PageSafe, view.busy # Nothing
               PROVE  \/ \E t \in Requests : request[t].mine
                      \/ \E l \in Paging!Pending(load) : load[l].awaited
    BY DEF Paging!BusyIsReleased
  <2>1. Holds(Paging!This, request) \/ Awaits(load)
    BY PageParts DEF HeldFor
  <2> QED BY <2>1 DEF Holds, Awaits
<1>2. PageSafe => ButtonsComeBack
  BY <1>1, SafeIsTyped DEF ButtonsComeBack, Paging!Inv
<1> QED BY <1>2, PageSafeAlways, PTL

(* A page with nothing under way shows the rows of the filter and page its     *)
(* controls say, none of them as it was before a change its reader was told is *)
(* made, except where an older answer may overtake a newer one (the effects,   *)
(* the patches and the reloads after a success).                               *)
THEOREM ShownIsAnsweredAlways == Paging!Spec => []ShownIsAnswered
<1>1. PageSafe => ShownIsAnswered
  <2> SUFFICES ASSUME PageSafe, Paging!AtRest
               PROVE  /\ \A r \in DOMAIN view.shown \ mixed : view.shown[r].ver >= own[r]
                      /\ "list" \notin mixed => view.of = <<view.filter, view.page>>
    BY DEF ShownIsAnswered, Paging!ShownIsAnswered, Paging!OwnWriteIsShown,
           Paging!QuietIsAnswered
  <2>1. Settled(load, view, own, mixed)
    BY PageParts
  <2> QED BY <2>1 DEF Settled, Paging!AtRest
<1> QED BY <1>1, PageSafeAlways, PTL

(* An archived message, a revoked key, an accepted invitation and a deleted    *)
(* row stay what they are, unless a request looked at the row before: the      *)
(* check and the update of a service are two statements.                       *)
THEOREM FinalStaysAlways == Paging!Spec => FinalStays
<1> DEFINE Crossed(r) ==
      row[r].status \in Paging!Final /\ row'[r].status \notin Paging!Final =>
        \E t \in Requests : /\ request[t].stage = "checked" /\ request[t].row = r
                            /\ request[t].saw \notin Paging!Final
<1>1. ASSUME PageSafe, [Paging!Next]_(Paging!vars), NEW r \in Paging!Rows PROVE Crossed(r)
  <2> SUFFICES ASSUME row[r].status \in Paging!Final, row'[r].status \notin Paging!Final
               PROVE  \E t \in Requests : /\ request[t].stage = "checked" /\ request[t].row = r
                                          /\ request[t].saw \notin Paging!Final
    OBVIOUS
  <2>0. row \in [Paging!Rows -> [status : Paging!Statuses, ver : Nat]]
    BY <1>1, PageParts DEF RowsTyped
  <2>1. CASE \E u \in Paging!Rows : Paging!Create(u)
    <3>1. PICK u \in Paging!Rows : Paging!Create(u)
      BY <2>1
    <3>2. PICK s : row' = [row EXCEPT ![u].status = s]
      BY <3>1 DEF Paging!Create
    <3>3. row[u].status = "none"
      BY <3>1 DEF Paging!Create
    <3>4. u # r
      BY <3>3 DEF Paging!Final
    <3>5. row'[r] = row[r]
      BY <2>0, <3>2, <3>4
    <3> QED BY <3>5
  <2>2. CASE \E t \in Requests : Paging!Write(t)
    <3>1. PICK t \in Requests : Paging!Write(t)
      BY <2>2
    <3>2. PICK p, q, z : /\ p = Paging!This /\ q = request[t]
                         /\ z = [status |-> p.ops[q.op][q.saw], ver |-> row[q.row].ver + 1]
      OBVIOUS
    <3>3. q.stage = "checked"
      BY <3>1, <3>2 DEF Paging!Write
    <3>4. q.row \in Paging!Rows /\ q.op \in DOMAIN p.ops /\ q.saw \in DOMAIN p.ops[q.op]
      BY <1>1, <3>2, <3>3, PageParts DEF AreRequests, IsRequest
    <3>5. row' = row \/ row' = [row EXCEPT ![q.row] = z]
      BY <3>1, <3>2 DEF Paging!Write, Paging!database
    <3>6. q.row = r /\ row'[r] = z
      BY <2>0, <3>4, <3>5
    <3>7. p.ops[q.op][q.saw] \notin Paging!Final
      BY <3>2, <3>6
    <3>8. KeepsFinal(p.ops)
      BY <1>1, <3>2, PageParts DEF SoundPage
    <3>9. q.saw \notin Paging!Final
      BY <3>4, <3>7, <3>8 DEF KeepsFinal
    <3> QED BY <3>2, <3>3, <3>6, <3>9
  <2>3. CASE ~(\E u \in Paging!Rows : Paging!Create(u)) /\ ~(\E t \in Requests : Paging!Write(t))
    <3>1. row' = row
      BY <1>1, <2>3
      DEF Paging!Next, Paging!vars, Paging!database, Paging!page, Paging!Move, Paging!Turn,
          Paging!ReadRows, Paging!ReadTotal, Paging!ShowLoad, Paging!LoadFails,
          Paging!BeginElsewhere, Paging!Click, Paging!Check, Paging!Succeed, Paging!Refused,
          Paging!LoseAnswer, Paging!Released
    <3> QED BY <3>1
  <2> QED BY <2>1, <2>2, <2>3
<1>2. PageSafe /\ [Paging!Next]_(Paging!vars) => [\A r \in Paging!Rows : Crossed(r)]_(Paging!vars)
  BY <1>1
<1> QED BY <1>2, PageSafeAlways, PTL DEF Paging!Spec, FinalStays, Paging!FinalStays
================================================================================
