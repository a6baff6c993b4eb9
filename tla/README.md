# Relayo: TLA+ specifications

Relayo accepts webhook events from tenants and delivers them to their destinations, sells
plans through Razorpay, and limits the rate of requests. This directory holds TLA+ models of
its backend (`src/apps/backend`, `src/packages/rate-limiter`) and of the part of its web
frontend (`src/apps/frontend`) that keeps state across requests, the TLC configurations that
check them, and TLAPS proofs about them. Paths below are relative to the repository.

## 1. The system

### Components

| Component | State | Operations | Where it is modelled |
|---|---|---|---|
| Event intake and delivery worker: `event.service.ts`, `deliveryQueue.ts`, `deliveryWorker.ts` | `Event`, `Delivery`, `DeliveryAttempt`, `Incident` rows; BullMQ jobs; what a job slot has read | accept an event, add jobs, fetch, sign, POST, record success or failure, park, dead-letter, open the breaker, requeue | `Delivery`, `DeliveryContract`, `DeliveryProofs` |
| Delivery administration: `destination.service.ts`, `delivery.service.ts` | `Destination` rows (status, `consecutiveFailures`, `breakerOpenedAt`) | pause, resume, delete, replay | `Delivery` |
| Billing: `payment.service.ts`, `billingWorker.ts`, `plan.ts`, billing parts of `org.service.ts` and `admin.service.ts` | `Payment`, `PaymentAttempt`, `PaymentEvent` rows; plan, payment status and `currentPeriodEnd` of an organization | order, verify, webhook, apply a captured payment, lapse, refund, retry, extend, change plan or status | `Billing`, `BillingProofs` |
| Rate limiter: `strategies/*.ts`, `rate-limiter.service.ts`, `middleware/rate-limit.ts` | sorted sets, counters and hashes in Redis | check a request against its configurations | `RateLimiter`, `RateLimiterProofs` |
| Configuration cache and sync worker: `config-cache.service.ts`, `config-sync.worker.ts`; signing secrets: `destination.service.ts`, `deliveryWorker.ts` | the value in PostgreSQL, its copy in Redis with its expiry, what a reader holds | read through, change, invalidate, reload | `Caches`, `CachesProofs` |
| Audit log: `audit-log.worker.ts`, `queues/index.ts`, `workers/index.ts` | BullMQ jobs, the batch and timer in the worker's memory, `AuditLog` rows | log a denial, collect, write a batch, requeue it, flush, stop | `AuditLog`, `AuditLogProofs` |
| Organizations, members, invitations: `org.service.ts`; accounts: `auth.service.ts` | organization, membership, invitation, token and user rows | create, delete, invite, accept, decline, revoke, resend, remove, change role; register, verify the address | `Membership`, `MembershipProofs` |
| One-time passwords and API keys: `otp.util.ts`, `auth.service.ts`, `apiKey.service.ts`; the FREE limit: `destination.service.ts` | `mfaEnabled`, secret, `lastMfaTimeStep`, MFA rows; `ApiKey` rows; destinations counted | verify a code, set up, enable, disable; create, rotate, revoke; create a destination | `Settings`, `SettingsProofs` |
| Onboarding in the browser: `TenantContext.tsx`, `OnboardingPage.tsx`, `OnboardingDetailsPage.tsx`, `OnboardingPaymentPage.tsx`, `useRazorpayCheckout.ts`, and the steps of `org.service.ts` they drive | a tab's tenant, page and checkout; `completedSteps`, plan, orders | create, save details, skip, choose FREE, check out, verify, reload | `Onboarding`, `BrowserProofs` |
| Pages over lists and rows: `pages/admin`, `pages/dashboard`, `pages/docs`, with the services that list and change their rows | the rows; filter, page, rows, total and busy button of a page; its requests under way | load, search, turn, act on a row, receive an answer or none | `PageKinds`, `Pages` |
| Sign-in, sessions and tabs: `AuthContext.tsx`, `AdminContext.tsx`, `TenantContext.tsx`, `axios.ts`, route guards, sign-in pages | the browser's storage; session and organization of each tab; requests under way | sign in, sign out, reload, expire, refresh, create or resume an organization, submit its forms, save a name | `Sessions` |
| Super-administrator operations: `admin.service.ts`, `adminOps.service.ts`, `adminDocs.service.ts` | the rows of the components above | change the status of users, organizations, payments, messages, flags, articles; list them | parts in `Billing`, `Membership`, `Settings`; rows in `Pages` |
| Dashboards, profiles, documentation, contact: `dashboard.service.ts`, `profile.service.ts`, `docs.service.ts`, `contact.service.ts` | rows read by one page, addresses, articles, messages | list, save, submit | as rows of `Pages` |
| E-mail and files, HTTP layer, process start, rate-limit audit cleanup, schema and seeds, load tools, static pages and their forms | none that outlives a request, or rows only | send, parse, validate, configure | not modelled (section 6) |
`PROJECT.json` lists the same components with their files, and the hazards of each one at its
line.

### Interaction

The API process, the workers process and the browser share PostgreSQL and Redis and nothing
else. An accepted event is committed with its deliveries; its jobs are added to the queue
afterwards, by a loop nobody waits for. Worker slots (several per process, several processes)
take jobs; they and the administrators' requests meet in the rows. Razorpay calls the webhook
handler, the browser calls the verification request, and both apply the same payment.
Denied requests go through a queue of their own to the audit worker. A change of a secret or
of a configuration reaches its readers through a copy in Redis that is deleted or expires.
A tab reads its tenant, decides from that copy which page to show, and writes through
requests that may be overtaken by those of another tab.

### What is hard

* Every handler is a sequence of awaits. What it read before one may be stale after it: the
  attempts counter and `consecutiveFailures` across an HTTP call, a payment's status across a
  call to Razorpay, `currentPeriodEnd` inside a READ COMMITTED transaction, an invitation's
  status across a password hash or an e-mail.
* The queue gives jobs back: a lock that expires or a process that dies leaves a job to a
  second slot while the first may still be working.
* Some things are done in two commits that belong together: event rows and jobs, the webhook's
  log entry and its effect, an acknowledged audit job and its row, an account and its token.
* Answers get lost, calls are repeated, events arrive late or in another order.
* Rate-limit scripts run in an order that is not that of the time stamps they are given.
* Copies outlive what they copy: the secret in Redis, the list of configurations, the tenant
  in a tab.

## 2. Modules

    Delivery, DeliveryContract <- DeliveryProofs      Delivery   <- MCDelivery
    Billing                    <- BillingProofs       Billing    <- MCBilling
    Caches                     <- CachesProofs        Caches     <- MCCaches
    AuditLog                   <- AuditLogProofs      AuditLog   <- MCAuditLog
    Settings                   <- SettingsProofs      Settings   <- MCSettings
    RateLimiter                <- RateLimiterProofs   RateLimiter <- MCRateLimiter
    Membership                 <- MembershipProofs    Membership <- MCMembership
    Onboarding, Browser        <- BrowserProofs       Onboarding <- MCOnboarding
    Browser -> PageKinds, Pages, Sessions               Browser    <- MCBrowser

The `MC` modules only define the small instances. Definitions marked "Variant" are plausible
bugs; each property is also checked to fail when one of them replaces its original. `Inv`,
`LimitsKept` and `CreationsBounded` are conjunctions of the named invariants of their module
that belong together, type correctness included; so are `ShownIsAnswered` and
`ShownIsSession`. A property that a theorem states, or that the
inductive invariant `IInv` implies (`LogMatchesCounter`, `SuccessIsLast`,
`DeadLetterIsExhausted`, `NoFalseSuccess`, the `TypeOK` of `Billing` and `Caches`), is not also
a property of a run.

### Delivery

One action per await of `deliveryWorker.ts` and one per transaction. Transactions only write by
id, so they take effect at their commit. A slot's record holds what the code keeps in local
variables: the job, `attemptNumber`, the `consecutiveFailures` it read.

| Code | Actions |
|---|---|
| `acceptEvent` and the loop that adds the jobs | `AcceptForAll`, `AcceptForOne`, `Enqueue`, `EnqueueLost` |
| BullMQ: fetch, complete, fail, stalled jobs, lost locks | `Fetch`, `CompleteJob`, `FailJob`, `DetectStalled`, `LoseLock`, `Crash` |
| processor: lookup, destination, PAUSED branch, secret | `FindDelivery`, `LoadDestination`, `Park`, `Sign`, `SignFails` |
| `axios.post` | `Post(s, TRUE)`, `Post(s, FALSE)` |
| success transaction; its failure, which the same catch block handles | `RecordSuccess`, `SuccessAborts` |
| failure transaction, incidents, `moveToDelayed` and the error | `RecordFailure`, `FailureAborts`, `OpenBreakerIncident`, `OpenDeadLetterIncident`, `IncidentFails`, `Requeue` |
| `pauseDestination`, `resumeDestination`, `deleteDestination`, `replayDelivery` | `RequestPause`/`PauseDestination`, `RequestResume`/`ResumeDestination`, `DeleteDestination`, `ReplayDelivery` |

Delays are not timed: a requeued job is waiting at once. Payloads, signatures, headers and
HTTP codes are reduced to "answered below 500" or not. Incidents are resolved by host in the
code and by destination in the model (one host per destination). `MAX_STALLED` is BullMQ's
default of 1. `moveToDelayed` is called without the lock token, which the queue accepts from
any caller while the job is active; `Requeue` models that. `streak` is history: the failures a
destination has logged since its last success or resume; `overtaken` are the slots whose count
was read before that, and `crossed` the destinations such a slot has written to.

`DeliveryContract` is the abstract specification: per delivery a status and a sequence of
outcomes, with no queue, slot or destination. `Delivery!ImplementsContract` is the refinement:
`status` is the row's status, `tries` the attempt rows read as a sequence.

### Billing

One organization; nothing relates two. A request or handler is a task with one action per
await: `VerifyStart`, `CountAttempts`, `CreateAttempt`, `FetchPayment`, `CapturePayment`,
`ApplyRead`, `ApplyCommit`, `FailAttempt`, `FailPayment`, `StillPending`,
`RejectVerification` are `verifyRazorpayPayment`; `HookStart`, `HookFind`, `HookLog`,
`HookFail` and the two `Apply` steps are `handleRazorpayWebhook`. `applyCaptured`'s transaction
is two steps because it writes `currentPeriodEnd` from its own earlier plain read; in between
it holds the row lock of its payment (`Locked`). The `catch` around the branch that captured
the payment itself is `Throw`. Razorpay is external: `Pay`, `Conclude`, and the set `sent` of
events it goes on sending until one handler answers 200. `payment.id` is taken to be in the
webhook's payload, as the code's types say. Amounts, audit snapshots, `completedSteps` and
`deleteOrganization` are left out.

### RateLimiter

One client and the configurations that match it, chosen by `Init` among the lists in `Chains`.
A check is two steps: `Stamp` reads the clock, `Script` runs the Lua script, which is atomic.
`Tick` does not run past `MAX_DELAY` after a stamp whose script is outstanding; stamps of
several API processes, and their clocks, may differ by that much, and it must not exceed
`GRACE`, the second added to every `PEXPIRE`. A script answers with one number whose sign is
the verdict, as in the code. Keys expire by the time in `expires`. `CheckFails` is the
fail-open `catch` (the script may or may not have run), `FailOpen` the middleware's.

### AuditLog

`batch` and `timer` are the module variables of the worker; a call of `processBatch` that
waits is a writer. `Collect` is the job handler, `TimerFires` the timeout, `WriteOk` and
`WriteFails` the two ends of `createMany`, `Requeue` and `RequeueFails` the entries of
`Promise.allSettled`. `Stop`, `Close`, `Exit` are `stopWorkers` and the shutdown of
`workers.ts`; `Crash` is any other end of the process. `Writers` bounds the calls of
`processBatch` in progress.

### Membership

A request is a task with one action per await that another request can overtake: it reads what
its checks need, and commits what it computed from the read. Interactive transactions read and
write at separate steps, as under READ COMMITTED; a single `update` or a transaction of fixed
writes is one step.

| Code | Actions |
|---|---|
| `createOrganization`, `inviteMember` | `StartCreate`, `CreateOrg`; `StartInvite`, `InviteMember`, `InvitePending`, `InviteCreate` |
| `removeMember`, `updateMemberRole` | `StartRemove`, `RemoveRead`, `RemoveWrite`; `StartSetRole`, `SetRoleRead`, `SetRoleWrite` |
| `revokeInvitation`, `resendInvitation` | `StartRevoke`, `RevokeRead`, `RevokeWrite`; `StartResend`, `ResendRead`, `ResendWrite` |
| `userRespondToInvitation` | `StartRespond`, `Decline`, `AcceptRead`, `AcceptMark`, `AcceptJoin`, `AcceptNew`, `AcceptGrant` |
| `auth.service.ts` | `StartRegister`, `RegisterInvited`, `RegisterOther`, `RegisterToken`, `VerifyEmail` |
| administrators; time; faults | `DeleteOrganization`, `UpdateUserStatus`; `InvitationExpires`, `TokenExpires`; `Dies` |

`Dies` ends a request between two commits. `AnswersOverlap`
says whether one invitee may have two answers under way; the instance takes FALSE:
`InvitePage.tsx` disables its buttons with `busy` while an answer is out, and a person who
answers two invitations on two pages at once is left out. Names,
e-mail bodies, hashing and permission checks that depend on nothing another request changes
are left out. A deleted invitation keeps its organization and invitee, so that an answer that
read it earlier can be told from one to another invitation; `Stored` says which are rows.

### Settings

Three small tables whose requests have the shape of those of `Membership`. MFA codes: a code is
its time step; `verifyMfaOtp` accepts a step in the window that is above `lastMfaTimeStep`, and
the callers record it with a later write (`StartWithCode`, `VerifyCode`, then `Login`,
`Setup` or `Complete`; `StartEnable`, `CreateMfa`, `SetFlag`, `DisableUserMfa`). API keys: a key's
hash is a number, the number of its rotation (`CreateApiKey`, `FindKey`, `RotateApiKey`,
`RevokeApiKey`). Destinations: a count that is compared with the limit of the FREE plan, then a row
(`StartDestination`, `CountDestinations`, `CreateDestination`, `DeleteDestination`). `Tick` is the
clock of the codes, `Dies` and `Aborts` are the faults.

### Caches

One cached value of the kind `kind`: a signing secret (`sign-secret:<id>`, life 86400 seconds,
nothing deletes it) or the list of configurations (`relayo:rl:configs`, 60 seconds, deleted by
the jobs of the sync worker). A value is its version. A reader is `BeginSigning` or
`BeginLookup`, `Get`, on a miss `LoadMissing` and `Store`, then `Use`; it holds what it read between
the query and the `SET` (`ReaderFails` is an error on the way). `Load` is the start of the
worker, `RotateSecret` the rotation, `Invalidate` the job of the sync worker, `JobLost` and
`RedisLosesCopies` the faults, `DeleteDestination` the end of a secret. `ChangeConfigurations` is
external: nothing in the repository writes configurations or adds a job to the queue whose worker
it has, so what is shown of configurations holds for a producer that does both at once.
`Tick` does not run past `DELAY`
after an outstanding read; that is the time a reader may spend between its query and its `SET`.

### Onboarding

The server is `completedSteps`, the plan and the orders of one organization, each for one of `Plans`; a tab is the tenant
it has read, the page it shows and the checkout its modal belongs to. `Route` is the guards of
`RequireTenant` and the pages, a function of what the tab has read. A task is
one request with the handlers of its answer.

| Code | Actions |
|---|---|
| `TenantContext` | `LoadReads`, `LoadAnswers`, `LoadFails` |
| `OnboardingPage.tsx`, `OnboardingDetailsPage.tsx` | `StartForm`, `ReadOrganization`, `CreateOrganization`, `ReadForDetails`, `WriteDetails`, `Answered`, `RequestFails` |
| `OnboardingPaymentPage.tsx`, `useRazorpayCheckout.ts` | `ChooseFree`, `StartCheckout`, `FindOrder`, `CreateOrder`, `AwaitSdk`, `SdkLoads`, `SdkFails`, `OpenModal`, `CheckoutFails`, `Dismiss`, `PaymentFails`, `Verify`, `Resolved` |
| Razorpay, its webhook | `Pay`, `Apply`, `Webhook`, `WebhookFailed` |
| the browser | `Navigate`, `Browse`, `Reload` |

`createRazorpayOrder` takes an open order of the plan asked for again (`Waiting`) and creates one if
there is none. Razorpay's modal may report a failure and still succeed later, and a webhook applies a
payment that no tab reports. Applying a captured payment is one step here and two in `Billing`.
Left out: overlapping creations of an organization (`Membership`), its deletion by an
administrator, logging out and signing in as another account in the same tab, resuming the
organization of another account with the progress of that one (whose organization a tab shows is
`Sessions`), and the loads that fill the details form.

### PageKinds and Pages

Twenty-eight pages of administrators, members and readers follow one protocol, written once in
`Pages`; `PageKinds` says what each of them
is made of (30 descriptions, for two pages have two independent lists), as two records: the list
its service answers (what it selects by, what it hides, whether it is paged, what else it counts) and the
page (what it offers for which status, which buttons wait, what follows a success, a failure, an
answer for a former filter). The operations of the services are functions from the statuses they
accept to the status they write; those of a page come from the same service functions the
modules above model in full.

| Code | Actions |
|---|---|
| search, filters, `Pagination` | `Move`, `Turn` |
| effect, service, `.then`, `.catch` | `ReadRows`, `ReadTotal` (two statements, in either order), `ShowLoad`, `LoadFails` |
| a button or its dialog, `busyId`, `isLoading` | `Click` |
| the service: `findUnique` and refusals, `update` or `delete` by identity | `Check`, `Write` |
| the handler's answer, `catch` and `finally` | `Succeed`, `Refused`, `LoseAnswer` |
| other browsers, workers, forms that create rows | `BeginElsewhere`, `Create` |

A dialog is opened and confirmed in one step; a page of a list holds one row. Page sizes,
password-reset mails, notes, plan changes, extensions of a period and what a page shows of other
tables are left out. Of the statistics of overview, revenue, usage and health pages only the rows
they show are kept and one count that another statement takes. `own` and `mixed` are history: the
newest version the reader was told is written, and where the code lets an older answer win, which
the properties exempt (a list read before the change and answered after it, on a page that patches
its rows; an answer that comes after that to a later request for the same row; two lists asked for
by a page that cancels none).

### Sessions

The storage is one for all tabs of a browser and holds a token, a user and whether the token is
still good; a tab remembers what it read when it was opened or what it signed in as, and the
organization it loaded. `area` is the application or the administrators' part, which store the
same things under their own keys. A request carries the token stored when it is sent, so `tab`
and `stored` may differ. `SignedIn`, `Logout`, `Reload` and `Saved` write the storage; `LoadReads`
and `LoadAnswers` are the effect of `TenantProvider` and its cleanup; `StartSignIn`,
`PasswordChecked`, `CodeChecked` and `RequestRefused` the sign-in form, `StartSave` and
`SaveWrites` a saved name; `TokenExpires` is the hour. An account has at most one organization,
named by its account.

Besides the effect, five handlers set the organization of a tab, and nothing cancels them: the
provider's `refresh` (`StartRefresh`, `RefreshReads`), creation (`StartOnboarding`,
`CreateWrites`), resumption by identifier (`StartOnboarding`, `ResumeReads`, which answers with any
organization, as `getOrganizationDetails` does), and the payment and details forms
(`StartSubmit`, `SubmitWrites`), which set the organization of their closure; `TenantSet` is
their answer. History: `crossed` are the tabs another sign-in has overtaken, `foreign` those whose
organization was resumed, came from a tab that was `crossed` or `foreign`, or was set by an
answer for an account the tab has left since; `torn` says that a name was saved in a tab whose
account is not the stored one. There the code promises nothing.

`Browser` puts the two side by side, with the bounds and names they share, and states their
properties; `MCBrowser` checks a page or the sign-ins, one or the other from `MCInit` on: they share no
variable and no property, so interleaving them would only multiply their states. On a page that
searches for no single row the two rows are interchangeable, and `MCInit` takes "a" as the first.

## 3. What the runs check

All runs disable the deadlock check: events, requests, entries and time are bounded, so every
model may come to rest. What must not come to rest is stated as liveness.

| Run | Instance | Properties | Shows |
|---|---|---|---|
| `delivery_concurrent` | 2 events, 1 destination, 2 slots, 1 lost lock or aborted transaction | `BreakerNotEarly`, `PendingHasJobWithoutFaults` | the breaker opens after as many consecutive failures as its threshold, unless a slot wrote back a count read before a success or a resume; without faults no delivery is without a job |
| `delivery_faulty` | 1 delivery, 3 slots, 2 faults of any kind | `IInv`, `BoundedDuplicates`, `SlotsBounded`, `SettledStays`, `ImplementsContract` | log, counter and status agree when three slots hold one delivery; the contract is implemented; duplicates, and the slots that hold one delivery, are paid for by faults, and `moveToDelayed` without a token adds none |
| `delivery_live` | 2 events, 1 slot, 1 fault, fair | `JobSettles` | a job in the queue is settled or set aside |
| `billing_safety` | 1 order, 2 payments, 1 request, 1 handler, every administrator operation, 1 fault | `GrantedOnce`, `GrantIsCaptured`, `EntitledHasPaid`, `PeriodIsPaidFor` | one captured payment grants one period; only a paid, running period passes the plan guard; no race gives time away |
| `billing_live` | 1 order, a failed and a good payment, 2 plans, fair | `PaidIsGranted`, `LapsedReturnsToFree` | without faults captured money is applied and lapses are noticed |
| `limiter` | 4 requests, each strategy and a chain of two, scripts up to 1 late | `LimitsKept`, `RetryAfterSuffices`, `RefusedOnlyAtLimit` | every strategy keeps its limit with stale stamps, and refusals and waits are right |
| `caches` | both kinds of value, 3 readers, 3 versions, 2 jobs, 1 fault | `StaleBounded`, `InvalidatedIsGone` | nothing older than one life of a copy and one delay is used; an undisturbed invalidation is final |
| `audit` | 3 entries, batches of 2, 2 writers, 2 faults, fair | `Inv`, `NothingLost`, `BoundedCopies`, `AuditSettles` | no entry waits without a timer; a failing database loses none; only faults copy |
| `membership` | owner, administrator and guest, 3 organizations, 3 invitations, 4 requests, 2 at a time, 1 fault | `Inv`, `CreationsBounded`, `AcceptedHasJoined`, `PasswordlessHasToken`, `LaterMembershipSpared` | the owner stays, checks overshoot by the overlap only, an accepted invitation has joined its invitee, stale writes spare later memberships |
| `settings` | 2 users, 1 key, limit 1, 5 requests, 2 at a time, 1 fault | `Inv`, `CodeOnce`, `RevocationIsFinal`, `DestinationsBounded` | only a proved secret is enabled; codes are accepted once and revocations final unless requests cross; the limit is passed by the overlap only |
| `onboarding` | 2 tabs, 2 plans, 3 requests, 2 at a time, 2 orders, 1 fault | `Inv`, `ActivationIsChosen`, `ToldIsGranted`, `OneOpenOrder` | no tab passes onboarding ahead of the server, the server not ahead of a choice; no page reports a payment that was not granted; one order of a plan is open unless two requests crossed |
| `browser` | 27 page descriptions, 2 rows, 2 requests, 2 lists, 3 moves or requests, 1 fault; 2 tabs, 2 accounts, 4 sign-ins, forms, saves, sign-outs or reloads, 2 at a time | `ButtonsComeBack`, `ShownIsAnswered`, `ShownIsSession`, `FinalStays` | a page shows what its controls say and not what was before its reader's change, and frees its buttons; a tab speaks for the account it shows, about an organization of that account unless it is `foreign`; a final status is left only by a crossing |

### Bounds, and why they are enough

* Attempts 2 instead of 5, breaker threshold 2 or 3 instead of 10: both constants are only
  compared with a count that grows by one. With two attempts a delivery has a first, a last
  and a late one.
* Two slots are enough to read the same row; the third is there for jobs the queue gives back
  twice. Two faults are the lost lock and one more on the slot that took over. The one fault of
  `delivery_concurrent` is a lost lock or an aborted transaction, the two that let a slot go on with
  an old count; the other kinds are in `delivery_faulty`. The proofs do without these bounds.
* Two payments of one order are the failed one and its repetition; a request and a handler are
  the two ways one payment is applied twice. `PERIOD = 1` and a clock to 2 let a period start and
  end. More orders, requests and handlers at once are left to the theorems, which hold for any
  number. `CapturedIsGranted` is a theorem only; no run checks it.
* Windows of 3, buckets of 2 tokens refilled in 2 units and a clock to 5 let a window end, a
  key expire and a bucket fill; four requests exceed every limit, twice the delay. The proofs
  do without these bounds.
* A copy lives 2 (secret) or 1 (configurations) and a reader may take 1, so that a copy can
  expire, be replaced by a slow reader and expire again before `MaxTime` = 4. The proofs do
  without these bounds.
* Batches of 2 of 3 entries: one full batch and one the timer writes. `Inv` and `NothingLost`
  are proved without these bounds.
* `membership`, `settings`, `onboarding`: two requests at a time are the smallest overlap, and
  every property that an overlap weakens counts the overlaps (`crossed`, `OwnedBounded`,
  `DestinationsBounded`), so that it is not vacuous with two and would be refuted by a check
  that is missing. Four or five requests in all let the result of an overlap be used by a
  later request. Two time steps let a code be used late or again. Two plans let an order of
  one be open while one of the other is begun. The proofs about `Membership`, `Settings` and
  `Onboarding` do without these bounds.
* `browser`: a row the reader acts on and one more, so that a page can be turned, emptied or
  searched; two lists and two requests are the smallest overlaps. The three descriptions whose
  record another page has too (`admin_events`, `admin_event`, `admin_deliveries`) are not run
  twice. Two tabs, two accounts and four begun steps allow sign-in, a form or `refresh`, sign-out,
  sign-in and a late answer to the first account. The proofs do without these bounds.
* Symmetry is used for sets of interchangeable model values in runs without liveness only.

### Fairness

`Delivery`: the worker's process runs (weak fairness of each slot), BullMQ hands out waiting
jobs and notices expired locks, and the loop that adds jobs goes on. Nothing is assumed of
tenants or administrators. `Billing`: tasks run, the daily scan runs, and Razorpay repeats a
webhook until it is answered 200. That repetition is strongly fair because a handler is always
free in the code, `Hooks` being a bound of the model. `AuditLog`: the worker takes jobs, its
timer fires, PostgreSQL answers, a shutdown goes on. No fairness is given to faults, so an
assumption of the kind "PostgreSQL fails for ever" is outside the models; the injected faults
are bounded by `MaxFaults`.

## 4. What is proved

`DeliveryProofs` proves, for all sets of events, destinations and slots, all attempt limits and
thresholds, and any number of faults:

| Theorem | Statement |
|---|---|
| `TypeCorrect` | `Spec => []TypeOK` |
| `Invariant` | `Spec => []IInv` |
| `LogMatchesCounterAlways` | attempt rows are exactly `1..attempts` |
| `SuccessIsLastAlways` | nothing follows a success; a pending delivery has attempts left |
| `DeadLetterIsExhaustedAlways` | only a full budget of failures dead-letters |
| `NoFalseSuccessAlways` | SUCCESS means some POST was answered below 500 |
| `SettledStaysAlways` | a settled delivery never changes to the other outcome |
| `SlotsBoundedAlways` | the slots that hold a delivery and the waiting run of its job are at most `1 + faults` |
| `PendingHasJobAlways` | without faults, a pending delivery has a job |
| `BoundedDuplicatesAlways` | `posts[d] <= MAX_RETRIES_PER_JOB * (1 + faults)` |
| `BreakerNotEarlyAlways` | where no overtaken slot wrote its count back, the stored count is at most the failures since the last success or resume, and the breaker opened after its threshold of them |
| `PipelineImplementsContract` | `Spec => ImplementsContract` |

They rest on `ConstantsAssumption` only. The argument: a slot writes an attempt number it
computed from a counter read before the HTTP call, so the properties alone are not inductive.
`IInv` adds what such a snapshot is worth: `SnapshotIsCurrent` says the number is at most one
more than the counter, and if it is one more then no attempt has succeeded yet. The unique key
on delivery and attempt number then makes every stale write abort: `RecordableIsNext` shows
that a transaction which commits writes exactly the next attempt of an unsettled delivery.
`WellLogged` says what a row and its log look like, `Accounted` that nothing touches an event
before it is accepted (which `Accept` needs to create rows afresh). `SlotStepKeepsRows`,
`AcceptKeeps`, `DeletionKeeps` and `OtherKeeps` take the actions one by one. For the refinement,
`RowSteps` reduces every step to what it does to rows and log, and `LogGrows` reads one more
attempt row as `Append`.

The other four need to know who works on a delivery or what a slot remembers. Without faults (`Undisturbed`) a slot owns
the job of the delivery it holds, and what it read is still true. With faults, `Budget` counts,
per delivery, the runs of its job: the slots that hold it and the copy in the queue are at most
one more than the faults, which is `SlotsBounded`. A run posts each attempt once at most, so that what has been posted,
what late slots may still post again, and the runs that may post the next attempt stay within
the product of runs and attempts while the row is PENDING. `Breaker` says that the count a slot
read and will write back is at most the present run of failures, unless a success or a resume has
overtaken the slot; the write adds one to both, and a slot that reads the row again has caught up. `ReadsRow` to `Leaves` say what a step of a slot may do,
and `SlotEffects` that every step does one of these.

`BillingProofs` proves, for all orders, payments, requests and handlers, all periods and any
number of faults:

| Theorem | Statement |
|---|---|
| `BillingType` | `Spec => []TypeOK` |
| `PaymentGrantsOnce` | `Spec => []GrantedOnce`: no order grants two periods |
| `OnlyCapturedGrants` | `Spec => []GrantIsCaptured`: a grant is money Razorpay holds |
| `CapturedRowIsGranted` | `Spec => []CapturedIsGranted`, if no administrator uses `retryPayment` |
| `PeriodIsBounded` | `Spec => []PeriodIsPaidFor`: the end of a period is paid for |
| `EntitlementIsPaid` | `Spec => []EntitledHasPaid`: the plan guard passes paid plans only |

They rest on `BillingAssumption` only. None of the properties is inductive: whether a
commit may grant depends on what its handler has read and fetched several awaits earlier. The
invariant is `TasksOK` (a task works for a payment of its own order, and what it holds was once
true and still is as far as it needs), `ProviderOK` (what Razorpay has concluded stays), `RowsOK`
and `LedgerOK` (a period is granted exactly when its `verified_` event is logged, which the
unique key and the row lock allow once), and `MoneyOK` (the end of the period is at most the
clock's plus `PERIOD` for each captured grant and each extension). `OneCommit` is the row lock;
`TaskMoves` and `QuietStep` dispose of the steps that only move a task, `ProviderMoves` of
Razorpay's, and `CommitKeeps` is the step that matters.

`CachesProofs` proves, for any number of readers, jobs, changes and faults, any lives and delay:

| Theorem | Statement |
|---|---|
| `CachesType` | `Spec => []TypeOK` |
| `BoundedStaleness` | `Spec => StaleBounded` |
| `InvalidationIsFinal` | `Spec => InvalidatedIsGone` |

They rest on `CachesAssumption` only. The age of what a reader uses is bounded because a copy is
as young as the reader that stored it (`CopyFresh`) and a reader holds what was present when it
asked (`Fresh`); both are about the past, which `replaced` records. `ReplacedKeeps`,
`DroppedKeeps`, `ReaderMoves` and `TickKeeps` take the kinds of steps one by one.

`AuditLogProofs` proves, for any entries, writers, batch size and number of faults of any kind:

| Theorem | Statement |
|---|---|
| `BatchAlwaysTimed` | `Spec => []Inv`: a batch has a timer exactly when it holds an entry |
| `NothingIsLost` | `Spec => []NothingLost`: failures of PostgreSQL lose no entry |
| `CopiesStayBounded` | `Spec => []BoundedCopies`: only faults copy, and slowly |

They rest on `AuditAssumption` only. `AuditInv` adds to the two properties that a writer is busy
exactly when it holds entries (`WritersBusy`) and that the worker runs unless it was stopped
(`RunsUnlessStopped`); the second is what lets a job be collected. The lemmas follow an entry from
the job (`CollectKeeps`) through the batch (`BatchIsTaken`, `FlushKeeps`), the call of
`createMany` (`WriteKeeps`) and back to the queue (`RequeueKeeps`); `OccurrencesCounted`,
`AppendElements` and `TailElements` are the facts about lists they need.

The bound on copies is not inductive: a lost answer adds a row for each copy in flight, so what is
in flight has to be bounded on its own. `CopyInv` says of each entry that for some c and d with
c + d <= faults, at most 1 + c copies are in flight and at most (1 + c)(1 + d) exist
(`FewCopies`); a crash raises c, because the queue gives back one job of an entry, a lost answer
raises d. An entry that was not logged has no copy, and the job a call holds belongs to one that
was (`JobsLogged`). `CallChanges` splits what the calls hold into one call and the others.

`SettingsProofs` proves, for any users, keys, limits, requests and faults:

| Theorem | Statement |
|---|---|
| `SettingsType` | `Spec => []TypeOK` |
| `RevokedStaysRevoked` | `Spec => []RevocationIsFinal` |
| `DestinationsStayBounded` | `Spec => []DestinationsBounded` |
| `AccountsAgree` | `Spec => []Inv`: an enabled secret was proved, and the flag has its row |
| `CodesAcceptedOnce` | `Spec => []CodeOnce` |

They rest on `SettingsAssumption` only. Each property has an invariant of its own beside the types
(`TypeInv`). `RevocationInv`: no rotation under way holds a key that was revoked undisturbed.
`DestinationsInv`: destinations, and requests that have counted and not yet created, together stay
below the bound. `AccountInv`: what a request read of a secret is still true of the row, or the
user's requests have crossed (`Promised`). `OnceInv`, for a user who is neither in `lax` nor in
`crossed`: the codes accepted for an enabled secret are not above `lastMfaTimeStep` (`UsedOnce`),
at most one request of the user has a verified code to record, and that code is above it
(`Accepted`).

`MembershipProofs` proves, for any users, organizations, invitations and
requests, any seed of memberships, and any number of requests that die:

| Theorem | Statement |
|---|---|
| `MembershipType` | `Spec => []TypeOK` |
| `OneOwnerAlways` | `Spec => []Inv`: a live organization has exactly one owner |
| `AcceptanceIsKept` | `Spec => []AcceptedHasJoined` |
| `LaterMemberSpared` | `Spec => LaterMembershipSpared` |
| `CreationsStayBounded` | `Spec => []CreationsBounded` |
| `TokenOutlivesAnswer` | `Spec => []PasswordlessHasToken`, if `AnswersOverlap` is FALSE |

They rest on `MembershipAssumption` only (its finite set of requests is what the bounds count).
`OneOwner` is not inductive: a role change or a removal writes by the id of a row it read several
awaits earlier. `MemberInv` says what such a read is worth: the row it names was not the owner's,
and a later membership of the same user has a larger key (`Decided`); an answer names the
organization and invitee of its invitation (`Answered`). `Evolves` says what every step does to
the rows (keys only grow, only a new row becomes an owner's, an account once made stays), and `HoldsStill`
that requests which do not move keep `Decided` and `Answered` under it; every other lemma shows
that some actions evolve. For `CreationsBounded` the invariant `Bounds` counts what exists together
with the requests that have passed the check and not yet written, at most one per request in all
(`CountedWithin`). For `PasswordlessHasToken`, `TokenInv` says that a user has
at most one answer under way (`Alone`), that an answer which has still to create the token finds
no membership in its way (`Backed`), and that tokens, links and memberships belong to accounts
(`Grounded`).

`RateLimiterProofs` proves, for all lists of configurations, any number of requests, any delay
up to the grace of the keys, and any number of ticks and failed checks:

| Theorem | Statement |
|---|---|
| `LimitsAlwaysKept` | `Spec => []LimitsKept`: `TypeOK`, `SlidingBound`, `FixedBound`, `BucketBound` |
| `RefusalsAreDue` | `Spec => []RefusedOnlyAtLimit` |
| `RetryAfterIsEnough` | `Spec => []RetryAfterSuffices` |

They rest on `LimiterAssumption` only. The bounds speak of admissions, a history, while a script
sees a key that other scripts have cut, and which may have expired; each strategy has an invariant
that says what its key still knows. `SlidingInv`: an admission stamped less than a window ago
is in the sorted set, and the key outlives it, so that one that is admitted finds fewer than the
limit (`SlidingLimit`). `Counter`: a counter is never behind the admissions stamped in its
window, and outlives the scripts that are late for it. `Drained`: the level a bucket would have at
time zero (`Base`) loses a token by each admission, whatever the order of the stamps, and is not
reset while it would still matter: a bucket that is forgotten had been full again before the
scripts to come were stamped. For the refusals it is the other way round: `Traced` says that what
a key holds are admissions or lost answers, one for each fault, and `Full` and `NotAhead` that
it holds no more than the limit and nothing of a window to come, which is also why the time to
wait suffices. `StepKinds` and `StepOutcomes` reduce a step to a tick, a script that ran, or
nothing.

`BrowserProofs` proves, for any tabs, requests, orders, accounts and number of lost answers:

| Theorem | Statement |
|---|---|
| `GateIsBackedAlways` | `Spec => []Inv` of `Onboarding`: `TypeOK`, `GateIsBacked` |
| `ActivationIsChosenAlways` | `Spec => []ActivationIsChosen` |
| `ToldIsGrantedAlways` | `Spec => []ToldIsGranted` |
| `OneOpenOrderAlways` | `Spec => []OneOpenOrder`: of each plan, unless two requests crossed |
| `ShownIsSessionAlways` | `Session!Spec => []ShownIsSession`: types, `TenantIsOwn`, `TokenIsOwn`, `StoredIsOne` |
| `ButtonsComeBackAlways` | `Paging!Spec => []ButtonsComeBack`: types, `BusyIsReleased` |
| `ShownIsAnsweredAlways` | `Paging!Spec => []ShownIsAnswered`: `OwnWriteIsShown`, `QuietIsAnswered` |
| `FinalStaysAlways` | `Paging!Spec => FinalStays` |

They rest on `OnboardingAssumption` and `BrowserAssumption` only. That no page runs ahead of the server is not
inductive, because a page is chosen from the steps a tab remembers, and those come from answers
that may be old. `Safe` says what an old answer is worth: whatever number of steps a tab or a
request holds, if it is 2 or more the server has 2 or more (`Behind`); steps never go back.
`SoundTab` adds what the guards achieve (a tab that is not loading shows a gated page only if it
remembers 2 steps), so that a request for details starts only when the server has 2
(`SoundTask`), which is why a server that does not look activates nobody too early. A checkout
that says "verified" has its order among the applied ones. `OneCheckout`, for each plan: until two requests have
crossed, at most one is between finding no open order of the plan and adding one, and none while
such an order is open. For `Sessions`, `SessionSafe` says that a tab nobody has overtaken asks for,
and is answered with, the organization of its own account (`OwnWindow`), that it shows that one or
none unless it is `foreign` (`OwnTenant`), that a request marked `ours` can only bring the
organization of the account it was sent for (`SoundCall`), and that a tab nobody has overtaken, if
signed in, agrees with the storage.

For `Pages` the two rows and the 30 descriptions are what they are; the requests, the lists under
way, the moves and the lost answers are any number. `SoundPages` goes through the descriptions and
keeps what the protocol needs of them (`SoundPage`): no operation leads out of a final status, a
page that turns or falls back to its first page ignores answers for a former filter, and one that
awaits a list after a success neither ignores answers nor closes. `PageSafe` then says what a list
under way may be. It was asked for what the controls say now, or "list" is mixed (`Current`). What
it has read is not older than what the reader was told, row by row, or the row is mixed (`Recent`).
There is at most one where the effect cancels (`OneLoad`). That is what the page becomes when the
last of them is answered (`Settled`), which no property of a page at rest could say by itself. What
the reader was told is at most what is written (`OwnIsWritten`). A held button has a request that
holds it, or a list that is awaited (`HeldFor`), so that an action of `free` releases nothing. For
the bound on versions in `TypeOK`, the requests still to write and the writes of a row together
count at most what was begun (`Begun`). `FinalStays` needs that a checked request remembers a
status its operation accepts (`IsRequest`); the service writes what it decided on that one.

Only model-checked: liveness (`JobSettles`, `PaidIsGranted`, `LapsedReturnsToFree`,
`AuditSettles`), which is out of the prover's reach.

## 5. Divergences met

Between what the code does and what the repository says of it, or between two parts of the
code. The models contain what the code does, and the properties are stated so that they hold
of it; none of these has a run of its own.

Delivery

* A Redis error or an exit between the commit of an event and `deliveryQueue.add` leaves
  PENDING deliveries without a job (`event.service.ts:79`; README.md:214 says an event is
  "persisted and queued for delivery"). In the model: `EnqueueLost`.
* A job that stalls twice is failed by the queue while its delivery is PENDING
  (`deliveryWorker.ts:298`; FeaturesPage.tsx:12).
* `replayDelivery` asks for status `FAILED`, which no code writes: a dead-lettered delivery
  cannot be replayed (`delivery.service.ts:186`; README.md:252, Features.tsx:35). The list of
  failed deliveries asks for it too (`delivery.service.ts:12-24`) and stays empty.
* Two slots write back the same count of failures, so the threshold is passed with the
  destination active (`deliveryWorker.ts:172`; README.md:32).
* The breaker may open early: a slot that read 9 failures, and fails after another delivery has
  succeeded or the destination was resumed, writes 10 over the reset and pauses the destination at
  its first failure in a row (`deliveryWorker.ts:172-175`; README.md:32, :251 "after 10 consecutive
  failures"). `BreakerNotEarly` excepts these destinations by name (`crossed`).
* A second slot can get a job only by a lost lock, and then `moveToDelayed` without a token moves
  the job under it (`deliveryWorker.ts:291`): one delivery is in as many hands as there were such
  faults, plus one (`SlotsBounded`).
* Deliveries set aside during a pause are not queued again after a resume
  (`destination.service.ts:173,186`; HowItWorksPage.tsx:10-11).
* `resumeDestination` leaves `breakerOpenedAt` set (`destination.service.ts:188`), and
  `adminOps.service.ts:446-448` reads it as an open breaker.
* When the success transaction aborts, an answered delivery is retried, and dead-lettered at
  the last attempt (`deliveryWorker.ts:117`).
* Rotating a signing secret does not touch its copy in Redis, which lives a day
  (`destination.service.ts:204`, `deliveryWorker.ts:66-73`; DestinationDetailPage.tsx:311 "The
  old secret stops working immediately").

Billing and onboarding

* A handler logs the event, fails, and the repeated webhook is taken for a duplicate
  (`payment.service.ts:408`; README.md:211-212). `billing_live` therefore has no faults.
* Two payments applied at once extend the same end: one period is lost
  (`payment.service.ts:573`; README.md:178). `PeriodIsPaidFor` is an upper bound only.
* `retryPayment` checks no status, marks a payment CAPTURED and grants nothing
  (`admin.service.ts:609-630`), which is why `CapturedIsGranted` is proved without
  that operation; `FailPayment` may overwrite a row that was captured meanwhile
  (`payment.service.ts:329`).
* ENTERPRISE never lapses (`billingWorker.ts:14`; README.md:178-179).
* After `payment.failed` Razorpay's modal stays open; if the user then pays, the status remains
  "verifying", the buttons stay disabled and the result is ignored
  (`useRazorpayCheckout.ts:102-138`). A script that failed to load stays failed until a reload
  (`useRazorpayCheckout.ts:14-15`).
* The "post-create success state" of `OnboardingPage.tsx:107` is never shown, because setting
  the tenant redirects at once (`:44`). "Skip for now" (`OnboardingPaymentPage.tsx:146`) leads
  back to the payment page through `OnboardingDetailsPage.tsx:80`. Links to
  `/dashboard/onboarding/:slug` have no route. `handleCreate` assumes one completed step even
  for an existing organization (`OnboardingPage.tsx:72-78`).
* An open order is used again for its own plan only (`payment.service.ts:66-72`): a PRO checkout
  that is closed and a SCALE one begun leave two orders that can both be paid, each granting a
  period. `OneOpenOrder` is stated of each plan.
* Choosing FREE overrides a paid plan (`org.service.ts:298`), and a late save of the details
  sets `completedSteps` back from 3 to 2 (`org.service.ts:379`).

Accounts, organizations and settings

* "An accepted invitation cannot be cancelled." (`org.service.ts`, `revokeInvitation`), but a
  revocation or a refusal that crosses an acceptance overwrites ACCEPTED, and an acceptance in
  flight overrides a revocation. Overlapping acceptances strand a pre-created account.
* Registration with another address than the invited one mails a link that matches no account
  and un-verifies the invited one (`auth.service.ts:124`); the flagged branch of `verifyEmail`
  needs `user.metadata`, which nothing writes. Expired invitations still count as pending, and
  member rows are updated by id only (`org.service.ts:877`, `:934`).
* A rotation answers two overlapping callers with two keys, of which the last works;
  `rotateApiKey` writes `revokedAt: null` (`apiKey.service.ts:158`) and so revives a key whose
  revocation it crosses.
* `lastMfaTimeStep` is set back by setup, completion and stale writes; a reset with MFA throws
  after it has updated the password and does not record the step (`auth.service.ts:617-624`);
  the reset link an administrator sends never matches.

Rate limiter and audit log

* `sync_all` does not refresh a cached list, and a crossing reader stores the old list for
  another minute (`config-sync.worker.ts`; RateLimiterDetails.md:120, :160 "up to 60 seconds").
* The audit worker acknowledges a job before its entry is written, and flushes before it stops
  taking jobs: a crash or a shutdown loses the batch (`audit-log.worker.ts:71`,
  `workers/index.ts:22`; RateLimiterDetails.md:136 says another worker picks up unfinished jobs).
* Sliding-window requests with the same millisecond and the same random number are one member
  of the sorted set and count once (`sliding-window.ts:20`). `SlidingBound` counts members.
* A token bucket checked with a stale stamp may refuse a client who has tokens: `elapsed` is
  negative. `RefusedOnlyAtLimit` is stated of the two window strategies.
* Each strategy keeps the SHA of its script for the life of the process
  (`fixed-window.ts:36`) and calls `EVALSHA` without a fallback. After a restart of Redis the
  script cache is empty, every check fails, and `rate-limiter.service.ts:54-57` skips the
  configuration until the API restarts; RateLimiterDetails.md:158 speaks of "a brief period of
  slightly-excessive traffic". `RateLimiter` takes failed checks as bounded faults.

Pages of the web frontend

* `AdminOrganizationDetailPage.tsx:77,81` tests `cancelled` the wrong way round, so loaded notes
  are shown only after the page is left. `AdminBillingPage.tsx:65-72` and
  `DestinationsPage.tsx:148-152` do not cancel or await the load after an action.
* Lists and their totals are two queries; the inbox stays empty with a positive total after the
  last row of a page is deleted; `FailedDeliveriesPage` has no way back to its first page.
  `busyId` is one slot: a second click frees the buttons of the first row early.
* "Archived messages cannot be marked as read" (`admin.service.ts`, `markContactRead`), but a
  request that crosses an archiving writes READ back.
* `PaymentsPage` (`AdminBillingPage.tsx`) does not cancel the load of a former filter: the last
  answer wins, whatever the filter says.
* `ContactPage.tsx:74-80` sets `sent` even when the request failed.
* `TenantContext.tsx:124` does not cancel a refresh at logout; a sign-in answered late in a tab
  that is signed in already keeps the former organization, because the effect depends on
  `isAuthenticated` only (`TenantContext.tsx:109`).
* "Resume" shows the organization of any identifier: `handleResumeFetch` sets the tenant to what
  `GET /orgs/:identifier` returns (`OnboardingPage.tsx:82-97`), and `getOrganizationDetails` asks for
  no membership (`org.service.ts:97-141`; `routes/org.ts:32`). The other handlers that set the
  tenant set that of their closure, whoever is signed in when they are answered. `TenantIsOwn`
  excepts both by name (`foreign`).
* A sign-in in one tab changes the account of every other tab's requests (`axios.ts:9-15`) while
  they go on showing the former one, and a name saved in such a tab leaves one account's user
  beside the other's token in storage.

## 6. Not modelled, and why

* E-mail (`email.service.ts` and its templates), file uploads, the HTTP layer (routes, validators,
  error handler), logging: no state of their own; a request that fails there is a request that
  fails in the models. Conversions are modelled where a property depends on them (status filters
  in `PageKinds`, codes in `Settings`).
* Process start and shutdown, apart from the audit worker's: they wire the parts together.
* `audit-cleanup` of the rate limiter deletes rows by age; nothing reads them afterwards.
* The schema beyond the rows and keys named above, migrations and seeds: data, not steps.
* Static pages, navigation, layout and charts: they show what they are given. Forms that create
  rows are `Create` in `Pages`; the fields they validate are left out.
* `tools/load`, the scripts that produce traffic: clients of the system.
* Permission checks that depend only on the request and on rows no other request changes.
* Password reset and the details of registration mails: the divergences in section 5 say where
  they go wrong; no property of two pieces of state rests on them.

What could be added next: a composition of `Sessions` and `Onboarding`, which today share
the tenant of a tab only by description.

