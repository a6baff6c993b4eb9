------------------------------ MODULE Delivery ------------------------------
(***************************************************************************)
(* The delivery pipeline of Relayo: an accepted event fans out to the      *)
(* organization's active destinations, a job per delivery goes through the *)
(* BullMQ queue "relayo_deliveries", and the concurrent slots of the       *)
(* delivery worker sign, POST and record the outcome in PostgreSQL, while  *)
(* administrators pause, resume and delete destinations.                   *)
(*                                                                         *)
(* Each await of the worker is a step of its own; each prisma.$transaction *)
(* is one step (it only writes blindly by id, so it takes effect at its    *)
(* commit).  The queue is external: what it does is taken from how         *)
(* deliveryQueue.ts and deliveryWorker.ts use it.                          *)
(***************************************************************************)
EXTENDS Integers, FiniteSets

CONSTANTS
  Events,                   \* webhook events the tenants may post
  Destinations,
  Slots,                    \* concurrent job slots over all worker processes
  MAX_RETRIES_PER_JOB,      \* 5 in the code
  PAUSE_DESTINATION_AFTER,  \* 10 in the code
  JOB_ATTEMPTS,             \* "attempts: 50" of the queue's job options
  MAX_STALLED,              \* stalls the queue forgives a job
  FaultKinds,               \* which of AllFaults the environment may inject
  MaxFaults,                \* how many of them (bound)
  NoDelivery, NoSlot

AllFaults == {"enqueue", "crash", "lock", "db", "redis"}

ASSUME ConstantsAssumption ==
  /\ MAX_RETRIES_PER_JOB \in Nat \ {0}
  /\ PAUSE_DESTINATION_AFTER \in Nat \ {0}
  /\ JOB_ATTEMPTS \in Nat \ {0}
  /\ MAX_STALLED \in Nat
  /\ FaultKinds \subseteq AllFaults
  /\ MaxFaults \in Nat
  /\ NoDelivery \notin Events \X Destinations
  /\ NoSlot \notin Slots
  /\ Events # {} /\ Destinations # {}

(* One delivery row per event and destination, and one job for it. *)
Deliveries == Events \X Destinations

VARIABLES
  accepted,   \* events whose transaction has committed
  dest,       \* destination rows
  delivery,   \* delivery rows
  log,        \* delivery_attempt rows, by delivery and attempt number
  incidents,  \* open incidents
  job,        \* the queue's record of each delivery's job
  slot,       \* what each worker slot is doing, with the rows it has read
  admin,      \* a pause or resume request that has read the destination
  faults,     \* faults injected so far
  posts,      \* history: POSTs sent for each delivery
  acked,      \* history: deliveries some POST of which was answered below 500
  streak,     \* history: failures recorded since the last success or resume
  overtaken,  \* history: slots that hold a count read before that
  crossed     \* history: destinations whose count such a slot has overwritten

rows == <<dest, delivery, log, incidents>>
history == <<streak, overtaken, crossed>>
vars == <<accepted, dest, delivery, log, incidents, job, slot, admin, faults,
          posts, acked, history>>

AttemptNumbers == 1..MAX_RETRIES_PER_JOB

(* "FAILED" is a value of the column that only replayDelivery asks for;    *)
(* "ABSENT" and "DELETED" stand for a row that is not there yet or any more.*)
DeliveryStatus ==
  {"ABSENT", "PENDING", "SUCCESS", "FAILED", "DEAD_LETTER", "PAUSED", "DELETED"}

DestinationRow ==
  [status : {"ACTIVE", "PAUSED", "DELETED"}, failures : Nat, breaker : BOOLEAN,
   reason : {"none", "manual", "auto"}]

JobRecord ==
  [state : {"none", "adding", "waiting", "active", "finished"},
   tries : Nat, stalls : Nat, owner : Slots \cup {NoSlot}]

WorkerPc == {"idle", "find", "load", "park", "sign", "post", "success",
             "failure", "breakerIncident", "deadIncident", "requeue"}

SlotRecord ==
  [pc : WorkerPc, d : Deliveries \cup {NoDelivery}, attempt : Nat, failures : Nat]

Incident == [kind : {"breaker", "deadLetter"}, d : Deliveries]

IdleSlot == [pc |-> "idle", d |-> NoDelivery, attempt |-> 0, failures |-> 0]
NewJob   == [state |-> "none", tries |-> 0, stalls |-> 0, owner |-> NoSlot]
NoLog    == [n \in AttemptNumbers |-> "none"]

TypeOK ==
  /\ accepted \subseteq Events
  /\ dest \in [Destinations -> DestinationRow]
  /\ delivery \in [Deliveries -> [status : DeliveryStatus, attempts : Nat]]
  /\ log \in [Deliveries -> [AttemptNumbers -> {"none", "SUCCESS", "FAILED"}]]
  /\ incidents \subseteq Incident
  /\ job \in [Deliveries -> JobRecord]
  /\ slot \in [Slots -> SlotRecord]
  /\ \A s \in Slots : slot[s].d = NoDelivery => slot[s].pc = "idle"
  /\ admin \in [Destinations -> {"idle", "pause", "resume"}]
  /\ faults \in Nat
  /\ posts \in [Deliveries -> Nat]
  /\ acked \subseteq Deliveries
  /\ streak \in [Destinations -> Nat]
  /\ overtaken \subseteq Slots
  /\ crossed \subseteq Destinations

Init ==
  /\ accepted = {}
  /\ dest = [c \in Destinations |-> [status |-> "ACTIVE", failures |-> 0,
                                     breaker |-> FALSE, reason |-> "none"]]
  /\ delivery = [d \in Deliveries |-> [status |-> "ABSENT", attempts |-> 0]]
  /\ log = [d \in Deliveries |-> NoLog]
  /\ incidents = {}
  /\ job = [d \in Deliveries |-> NewJob]
  /\ slot = [s \in Slots |-> IdleSlot]
  /\ admin = [c \in Destinations |-> "idle"]
  /\ faults = 0
  /\ posts = [d \in Deliveries |-> 0]
  /\ acked = {}
  /\ streak = [c \in Destinations |-> 0]
  /\ overtaken = {}
  /\ crossed = {}

-----------------------------------------------------------------------------
(* Faults.  Every injected fault is counted against MaxFaults. *)

Fault(kind) ==
  /\ kind \in FaultKinds
  /\ faults < MaxFaults
  /\ faults' = faults + 1

-----------------------------------------------------------------------------
(* Accepting an event. *)

(* acceptEvent: the event and one PENDING delivery per target commit        *)
(* together; the jobs are only added after the commit.                      *)
Accept(e, targets) ==
  LET created == {<<e, c>> : c \in targets}
  IN
  /\ e \notin accepted
  /\ accepted' = accepted \cup {e}
  /\ delivery' = [d \in Deliveries |->
                    IF d \in created THEN [status |-> "PENDING", attempts |-> 0]
                                     ELSE delivery[d]]
  /\ job' = [d \in Deliveries |->
               IF d \in created THEN [job[d] EXCEPT !.state = "adding"] ELSE job[d]]
  /\ UNCHANGED <<dest, log, incidents, slot, admin, faults, posts, acked, history>>

(* Without a destinationId: every ACTIVE destination, possibly none. *)
AcceptForAll(e) ==
  Accept(e, {c \in Destinations : dest[c].status = "ACTIVE"})

(* With a destinationId: unless that destination is ACTIVE the transaction  *)
(* throws and the event is not stored either.                               *)
AcceptForOne(e, c) ==
  /\ dest[c].status = "ACTIVE"
  /\ Accept(e, {c})

(* deliveryQueue.add of the fire-and-forget loop reaches Redis. *)
Enqueue(d) ==
  /\ job[d].state = "adding"
  /\ job' = [job EXCEPT ![d].state = "waiting"]
  /\ UNCHANGED <<accepted, rows, slot, admin, faults, posts, acked, history>>

(* The add rejects (the error is only logged) or the API process stops     *)
(* before it: nothing ever adds the job again.                             *)
EnqueueLost(d) ==
  /\ job[d].state = "adding"
  /\ Fault("enqueue")
  /\ job' = [job EXCEPT ![d].state = "finished"]
  /\ UNCHANGED <<accepted, rows, slot, admin, posts, acked, history>>

-----------------------------------------------------------------------------
(* The queue, as the worker uses it. *)

OwnsJob(s) ==
  /\ job[slot[s].d].state = "active"
  /\ job[slot[s].d].owner = s

Fetch(s, d) ==
  /\ slot[s].pc = "idle"
  /\ job[d].state = "waiting"
  /\ job' = [job EXCEPT ![d] = [@ EXCEPT !.state = "active", !.owner = s]]
  /\ slot' = [slot EXCEPT ![s] = [IdleSlot EXCEPT !.pc = "find", !.d = d]]
  /\ UNCHANGED <<accepted, rows, admin, faults, posts, acked, history>>

(* The processor returns: the job completes if this slot still holds its lock. *)
CompleteJob(s) ==
  /\ slot' = [slot EXCEPT ![s] = IdleSlot]
  /\ job' = IF OwnsJob(s)
              THEN [job EXCEPT ![slot[s].d] =
                      [@ EXCEPT !.state = "finished", !.owner = NoSlot]]
              ELSE job

(* Variant: a job that throws is never retried ("attempts: 1"). *)
FailJobOnce(s) == CompleteJob(s)

(* The processor throws: the queue retries at once, no backoff being        *)
(* configured, until the job has failed JOB_ATTEMPTS times.                 *)
FailJob(s) ==
  LET tries == job[slot[s].d].tries + 1
  IN
  /\ slot' = [slot EXCEPT ![s] = IdleSlot]
  /\ job' = IF OwnsJob(s)
              THEN [job EXCEPT ![slot[s].d] =
                      [@ EXCEPT !.state = IF tries < JOB_ATTEMPTS THEN "waiting"
                                                                  ELSE "finished",
                                !.tries = tries, !.owner = NoSlot]]
              ELSE job

(* Variant: the error alone ends the job, as if the delay had been dropped. *)
RequeueDropped(s) ==
  /\ slot[s].pc = "requeue"
  /\ CompleteJob(s)
  /\ UNCHANGED <<accepted, rows, admin, faults, posts, acked, history>>

(* job.moveToDelayed(ts) is called without the lock token, so the queue     *)
(* moves any active job, whoever holds it, and the error thrown next finds  *)
(* no active job to fail.                                                   *)
Requeue(s) ==
  LET tries == job[slot[s].d].tries + 1
  IN
  /\ slot[s].pc = "requeue"
  /\ slot' = [slot EXCEPT ![s] = IdleSlot]
  /\ job' = IF job[slot[s].d].state = "active"
              THEN [job EXCEPT ![slot[s].d] =
                      [@ EXCEPT !.state = "waiting", !.tries = tries, !.owner = NoSlot]]
              ELSE job
  /\ UNCHANGED <<accepted, rows, admin, faults, posts, acked, history>>

(* The stalled-job checker: a job whose lock has expired goes back to the   *)
(* queue, or fails for good once it has stalled more than MAX_STALLED times.*)
Stalled(d) ==
  LET stalls == job[d].stalls + 1
  IN  job' = [job EXCEPT ![d] =
                [@ EXCEPT !.state = IF stalls <= MAX_STALLED THEN "waiting" ELSE "finished",
                          !.stalls = stalls, !.owner = NoSlot]]

(* A worker process dies and takes the slots in S with it: what they had    *)
(* read is lost, their jobs stay active until the locks expire.             *)
Crash(S) ==
  /\ \E s \in S : slot[s].pc # "idle"
  /\ Fault("crash")
  /\ slot' = [s \in Slots |-> IF s \in S THEN IdleSlot ELSE slot[s]]
  /\ job' = [d \in Deliveries |->
               IF job[d].owner \in S THEN [job[d] EXCEPT !.owner = NoSlot] ELSE job[d]]
  /\ UNCHANGED <<accepted, rows, admin, posts, acked, history>>

DetectStalled(d) ==
  /\ job[d].state = "active" /\ job[d].owner = NoSlot
  /\ Stalled(d)
  /\ UNCHANGED <<accepted, rows, slot, admin, faults, posts, acked, history>>

(* The lock of a live slot expires (its event loop or Redis was blocked):   *)
(* the slot goes on with a job another slot may now take.                   *)
LoseLock(d) ==
  /\ job[d].state = "active" /\ job[d].owner # NoSlot
  /\ Fault("lock")
  /\ Stalled(d)
  /\ UNCHANGED <<accepted, rows, slot, admin, posts, acked, history>>

-----------------------------------------------------------------------------
(* The processor of deliveryWorker.ts, one action per await. *)

Goto(s, pc) == slot' = [slot EXCEPT ![s].pc = pc]

(* The slot has read the destination's count and may still write it back. *)
HoldsCount(s) == slot[s].pc \in {"sign", "post", "success", "failure"}

(* History of the count of failures: a success or a resume starts a new run   *)
(* of failures and overtakes the slots, of those given, that hold a count of *)
(* the destination; a slot that reads the row catches up, and the failure it *)
(* records adds to the run.                                                  *)
StartRun(c, S) ==
  /\ streak' = [streak EXCEPT ![c] = 0]
  /\ overtaken' = overtaken \cup {s \in S : HoldsCount(s) /\ slot[s].d[2] = c}
  /\ crossed' = crossed \ {c}

CatchUp(s) ==
  /\ overtaken' = overtaken \ {s}
  /\ UNCHANGED <<streak, crossed>>

AddToRun(s) ==
  LET c == slot[s].d[2]
  IN
  /\ streak' = [streak EXCEPT ![c] = @ + 1]
  /\ crossed' = IF s \in overtaken THEN crossed \cup {c} ELSE crossed
  /\ overtaken' = overtaken \ {s}

RowExists(d) == delivery[d].status \notin {"ABSENT", "DELETED"}

(* currentDelivery: only a PENDING row is processed; its attempts counter   *)
(* is read here and used when the outcome is recorded.                      *)
FindDelivery(s) ==
  LET d == slot[s].d
  IN
  /\ slot[s].pc = "find"
  /\ IF delivery[d].status = "PENDING"
       THEN /\ slot' = [slot EXCEPT ![s] =
                          [@ EXCEPT !.pc = "load", !.attempt = delivery[d].attempts + 1]]
            /\ UNCHANGED job
       ELSE CompleteJob(s)
  /\ UNCHANGED <<accepted, rows, admin, faults, posts, acked, history>>

(* The destination row is read once: its status decides whether to send,    *)
(* its consecutiveFailures is the base of the count written back later.     *)
LoadDestination(s) ==
  LET row == dest[slot[s].d[2]]
  IN
  /\ slot[s].pc = "load"
  /\ CASE row.status = "DELETED" -> FailJob(s)
       [] row.status = "PAUSED" -> Goto(s, "park") /\ UNCHANGED job
       [] row.status = "ACTIVE" ->
            /\ slot' = [slot EXCEPT ![s] =
                          [@ EXCEPT !.pc = "sign", !.failures = row.failures]]
            /\ UNCHANGED job
  /\ CatchUp(s)
  /\ UNCHANGED <<accepted, rows, admin, faults, posts, acked>>

(* The delivery is set aside as PAUSED, by id, whatever its status is now. *)
Park(s) ==
  LET d == slot[s].d
  IN
  /\ slot[s].pc = "park"
  /\ IF RowExists(d)
       THEN /\ delivery' = [delivery EXCEPT ![d].status = "PAUSED"]
            /\ CompleteJob(s)
       ELSE /\ FailJob(s)
            /\ UNCHANGED delivery
  /\ UNCHANGED <<accepted, dest, log, incidents, admin, faults, posts, acked, history>>

(* The secret comes from Redis, or from the row that was read, and the      *)
(* payload is signed.                                                       *)
Sign(s) ==
  /\ slot[s].pc = "sign"
  /\ Goto(s, "post")
  /\ UNCHANGED <<accepted, rows, job, admin, faults, posts, acked, history>>

(* Redis is unreachable or the cached secret does not decrypt. *)
SignFails(s) ==
  /\ slot[s].pc = "sign"
  /\ Fault("redis")
  /\ FailJob(s)
  /\ UNCHANGED <<accepted, rows, admin, posts, acked, history>>

(* axios.post: an answer below 500 is a success, a 5xx answer, a timeout or *)
(* a network error a failure.                                               *)
Post(s, answered) ==
  LET d == slot[s].d
  IN
  /\ slot[s].pc = "post"
  /\ posts' = [posts EXCEPT ![d] = @ + 1]
  /\ acked' = IF answered THEN acked \cup {d} ELSE acked
  /\ Goto(s, IF answered THEN "success" ELSE "failure")
  /\ UNCHANGED <<accepted, rows, job, admin, faults, history>>

(* Variant: the attempt table without its unique key. *)
RecordableWithoutKey(s) == RowExists(slot[s].d)

(* Both transactions abort when a row they update by id is gone, or when    *)
(* the attempt row would break @@unique([deliveryId, attemptNumber]).       *)
Recordable(s) ==
  /\ RowExists(slot[s].d)
  /\ log[slot[s].d][slot[s].attempt] = "none"

AppendLog(s, outcome) == log' = [log EXCEPT ![slot[s].d][slot[s].attempt] = outcome]

RecordSuccess(s) ==
  LET d == slot[s].d
      c == d[2]
  IN
  /\ slot[s].pc = "success"
  /\ Recordable(s)
  /\ delivery' = [delivery EXCEPT ![d] = [status |-> "SUCCESS", attempts |-> slot[s].attempt]]
  /\ AppendLog(s, "SUCCESS")
  /\ dest' = [dest EXCEPT ![c] = [@ EXCEPT !.failures = 0, !.breaker = FALSE]]
  /\ incidents' = {i \in incidents : i.d[2] # c}
  /\ CompleteJob(s)
  /\ StartRun(c, Slots \ {s})
  /\ UNCHANGED <<accepted, admin, faults, posts, acked>>

(* The try block also covers the success transaction: when it aborts, the   *)
(* delivery the destination has accepted is treated as a failed attempt.    *)
SuccessAborts(s) ==
  /\ slot[s].pc = "success"
  /\ IF Recordable(s) THEN Fault("db") ELSE UNCHANGED faults
  /\ Goto(s, "failure")
  /\ UNCHANGED <<accepted, rows, job, admin, posts, acked, history>>

(* nextConsecutiveFailures and breakerJustOpened, from the row as read. *)
NextConsecutiveFailures(s) == slot[s].failures + 1

(* Variant: the breaker opens one failure early. *)
BreakerOneEarly(s) ==
  /\ NextConsecutiveFailures(s) >= PAUSE_DESTINATION_AFTER - 1
  /\ slot[s].failures < PAUSE_DESTINATION_AFTER - 1

BreakerJustOpened(s) ==
  /\ NextConsecutiveFailures(s) >= PAUSE_DESTINATION_AFTER
  /\ slot[s].failures < PAUSE_DESTINATION_AFTER

Exhausted(s) == slot[s].attempt >= MAX_RETRIES_PER_JOB

CountFailure(s) ==
  dest' = [dest EXCEPT ![slot[s].d[2]] =
             IF BreakerJustOpened(s)
               THEN [@ EXCEPT !.failures = NextConsecutiveFailures(s),
                              !.status = "PAUSED", !.breaker = TRUE, !.reason = "auto"]
               ELSE [@ EXCEPT !.failures = NextConsecutiveFailures(s)]]

(* After the transaction: the incidents to open, then the delay. *)
AfterBreakerIncident(s) == IF Exhausted(s) THEN "deadIncident" ELSE "requeue"

(* Variant: the failed attempt is logged but not counted. *)
RecordFailureUncounted(s) ==
  LET d == slot[s].d
  IN
  /\ slot[s].pc = "failure"
  /\ Recordable(s)
  /\ delivery' = IF Exhausted(s) THEN [delivery EXCEPT ![d].status = "DEAD_LETTER"]
                                 ELSE delivery
  /\ AppendLog(s, "FAILED")
  /\ CountFailure(s)
  /\ Goto(s, IF BreakerJustOpened(s) THEN "breakerIncident" ELSE AfterBreakerIncident(s))
  /\ AddToRun(s)
  /\ UNCHANGED <<accepted, incidents, job, admin, faults, posts, acked>>

(* Variant: the job is delayed before its failure is recorded. *)
RecordFailureDelayed(s) ==
  LET d == slot[s].d
  IN
  /\ slot[s].pc = "failure"
  /\ Recordable(s)
  /\ delivery' = [delivery EXCEPT ![d] =
                    [status |-> IF Exhausted(s) THEN "DEAD_LETTER" ELSE @.status,
                     attempts |-> slot[s].attempt]]
  /\ AppendLog(s, "FAILED")
  /\ CountFailure(s)
  /\ job' = [job EXCEPT ![d] = [@ EXCEPT !.state = "waiting", !.owner = NoSlot]]
  /\ Goto(s, IF BreakerJustOpened(s) THEN "breakerIncident" ELSE AfterBreakerIncident(s))
  /\ AddToRun(s)
  /\ UNCHANGED <<accepted, incidents, admin, faults, posts, acked>>

RecordFailure(s) ==
  LET d == slot[s].d
  IN
  /\ slot[s].pc = "failure"
  /\ Recordable(s)
  /\ delivery' = [delivery EXCEPT ![d] =
                    [status |-> IF Exhausted(s) THEN "DEAD_LETTER" ELSE @.status,
                     attempts |-> slot[s].attempt]]
  /\ AppendLog(s, "FAILED")
  /\ CountFailure(s)
  /\ Goto(s, IF BreakerJustOpened(s) THEN "breakerIncident" ELSE AfterBreakerIncident(s))
  /\ AddToRun(s)
  /\ UNCHANGED <<accepted, incidents, job, admin, faults, posts, acked>>

FailureAborts(s) ==
  /\ slot[s].pc = "failure"
  /\ IF Recordable(s) THEN Fault("db") ELSE UNCHANGED faults
  /\ FailJob(s)
  /\ UNCHANGED <<accepted, rows, admin, posts, acked, history>>

OpenBreakerIncident(s) ==
  /\ slot[s].pc = "breakerIncident"
  /\ incidents' = incidents \cup {[kind |-> "breaker", d |-> slot[s].d]}
  /\ Goto(s, AfterBreakerIncident(s))
  /\ UNCHANGED <<accepted, dest, delivery, log, job, admin, faults, posts, acked, history>>

OpenDeadLetterIncident(s) ==
  /\ slot[s].pc = "deadIncident"
  /\ incidents' = incidents \cup {[kind |-> "deadLetter", d |-> slot[s].d]}
  /\ CompleteJob(s)
  /\ UNCHANGED <<accepted, dest, delivery, log, admin, faults, posts, acked, history>>

(* openIncident is awaited outside any catch: a database error fails the job. *)
IncidentFails(s) ==
  /\ slot[s].pc \in {"breakerIncident", "deadIncident"}
  /\ Fault("db")
  /\ FailJob(s)
  /\ UNCHANGED <<accepted, rows, admin, posts, acked, history>>

-----------------------------------------------------------------------------
(* Administrators.  Pausing and resuming read the row, then write it. *)

RequestPause(c) ==
  /\ admin[c] = "idle"
  /\ dest[c].status = "ACTIVE"
  /\ admin' = [admin EXCEPT ![c] = "pause"]
  /\ UNCHANGED <<accepted, rows, job, slot, faults, posts, acked, history>>

RequestResume(c) ==
  /\ admin[c] = "idle"
  /\ dest[c].status = "PAUSED"
  /\ admin' = [admin EXCEPT ![c] = "resume"]
  /\ UNCHANGED <<accepted, rows, job, slot, faults, posts, acked, history>>

PauseDestination(c) ==
  /\ admin[c] = "pause"
  /\ admin' = [admin EXCEPT ![c] = "idle"]
  /\ dest' = IF dest[c].status = "DELETED" THEN dest
             ELSE [dest EXCEPT ![c] = [@ EXCEPT !.status = "PAUSED", !.reason = "manual"]]
  /\ UNCHANGED <<accepted, delivery, log, incidents, job, slot, faults, posts, acked, history>>

(* resumeDestination leaves breakerOpenedAt as it is. *)
ResumeDestination(c) ==
  /\ admin[c] = "resume"
  /\ admin' = [admin EXCEPT ![c] = "idle"]
  /\ IF dest[c].status = "DELETED"
       THEN UNCHANGED <<dest, history>>
       ELSE /\ dest' = [dest EXCEPT ![c] =
                          [@ EXCEPT !.status = "ACTIVE", !.reason = "none", !.failures = 0]]
            /\ StartRun(c, Slots)
  /\ UNCHANGED <<accepted, delivery, log, incidents, job, slot, faults, posts, acked>>

(* The delete cascades to the deliveries and their attempt rows. *)
DeleteDestination(c) ==
  LET gone(d) == d[2] = c /\ RowExists(d)
  IN
  /\ dest[c].status # "DELETED"
  /\ dest' = [dest EXCEPT ![c] = [status |-> "DELETED", failures |-> 0,
                                  breaker |-> FALSE, reason |-> "none"]]
  /\ delivery' = [d \in Deliveries |->
                    IF gone(d) THEN [status |-> "DELETED", attempts |-> 0] ELSE delivery[d]]
  /\ log' = [d \in Deliveries |-> IF gone(d) THEN NoLog ELSE log[d]]
  /\ UNCHANGED <<accepted, incidents, job, slot, admin, faults, posts, acked, history>>

(* replayDelivery: the row is read and must be "FAILED", a status nothing   *)
(* in the program writes; the request is refused otherwise.                 *)
ReplayDelivery(d) ==
  /\ RowExists(d)
  /\ IF delivery[d].status = "FAILED"
       THEN /\ delivery' = [delivery EXCEPT ![d] = [status |-> "PENDING", attempts |-> 0]]
            /\ job' = [job EXCEPT ![d] = [NewJob EXCEPT !.state = "adding"]]
       ELSE UNCHANGED <<delivery, job>>
  /\ UNCHANGED <<accepted, dest, log, incidents, slot, admin, faults, posts, acked, history>>

-----------------------------------------------------------------------------

SlotStep(s) ==
  \/ FindDelivery(s) \/ LoadDestination(s) \/ Park(s)
  \/ Sign(s) \/ SignFails(s)
  \/ Post(s, TRUE) \/ Post(s, FALSE)
  \/ RecordSuccess(s) \/ SuccessAborts(s)
  \/ RecordFailure(s) \/ FailureAborts(s)
  \/ OpenBreakerIncident(s) \/ OpenDeadLetterIncident(s) \/ IncidentFails(s)
  \/ Requeue(s)

AdminStep(c) ==
  \/ RequestPause(c) \/ RequestResume(c)
  \/ PauseDestination(c) \/ ResumeDestination(c) \/ DeleteDestination(c)

Next ==
  \/ \E e \in Events : AcceptForAll(e)
  \/ \E e \in Events, c \in Destinations : AcceptForOne(e, c)
  \/ \E d \in Deliveries :
       Enqueue(d) \/ EnqueueLost(d) \/ DetectStalled(d) \/ LoseLock(d) \/ ReplayDelivery(d)
  \/ \E s \in Slots, d \in Deliveries : Fetch(s, d)
  \/ \E s \in Slots : SlotStep(s)
  \/ \E S \in SUBSET Slots : Crash(S)
  \/ \E c \in Destinations : AdminStep(c)

Spec == Init /\ [][Next]_vars

(* Worker processes run, the queue hands out waiting jobs and notices       *)
(* expired locks; nothing obliges an administrator or a tenant to act.      *)
Fairness ==
  /\ \A s \in Slots : WF_vars(SlotStep(s))
  /\ \A d \in Deliveries :
       /\ WF_vars(Enqueue(d))
       /\ WF_vars(\E s \in Slots : Fetch(s, d))
       /\ WF_vars(DetectStalled(d))

FairSpec == Spec /\ Fairness

-----------------------------------------------------------------------------
(* Properties. *)

Tries(d) == {n \in AttemptNumbers : log[d][n] # "none"}

(* The attempt log of a delivery has no gap and no attempt beyond the       *)
(* counter: the rows are exactly 1..attempts, although every slot computes  *)
(* its attempt number from a counter it read before the HTTP call.          *)
LogMatchesCounter == \A d \in Deliveries : Tries(d) = 1..delivery[d].attempts

(* A SUCCESS attempt is the last one ever logged for its delivery, and a    *)
(* delivery still to be tried has neither a SUCCESS row nor used up its     *)
(* attempts: a late slot never reopens or re-counts a settled delivery.     *)
SuccessIsLast ==
  \A d \in Deliveries :
    /\ \A n \in Tries(d) : log[d][n] = "SUCCESS" => n = delivery[d].attempts
    /\ delivery[d].status = "SUCCESS" => log[d][delivery[d].attempts] = "SUCCESS"
    /\ delivery[d].status = "PENDING" =>
         /\ delivery[d].attempts < MAX_RETRIES_PER_JOB
         /\ \A n \in Tries(d) : log[d][n] = "FAILED"

(* A delivery is dead-lettered only when its whole budget of attempts has   *)
(* been logged as failed.                                                   *)
DeadLetterIsExhausted ==
  \A d \in Deliveries : delivery[d].status = "DEAD_LETTER" =>
    \A n \in AttemptNumbers : log[d][n] = "FAILED"

(* A delivery is reported delivered only if its destination answered one of *)
(* its POSTs below 500.                                                     *)
NoFalseSuccess ==
  \A d \in Deliveries : delivery[d].status = "SUCCESS" => d \in acked

(* Once settled, a delivery is never sent back to the queue nor moved to    *)
(* the other outcome; only a late Park or a deletion can still touch it.    *)
SettledStays ==
  [][\A d \in Deliveries : delivery[d].status \in {"SUCCESS", "DEAD_LETTER"} =>
       delivery'[d].status \in {delivery[d].status, "PAUSED", "DELETED"}]_vars

(* Duplicates cost faults: each attempt is posted once, and once more per   *)
(* injected fault at most.                                                  *)
BoundedDuplicates ==
  \A d \in Deliveries : posts[d] <= MAX_RETRIES_PER_JOB * (1 + faults)

(* The queue holds a run of the job: to add, to hand out or to find stalled. *)
Queued(j) ==
  IF j.state \in {"adding", "waiting"} \/ (j.state = "active" /\ j.owner = NoSlot) THEN 1 ELSE 0

(* Hands cost faults: the slots that work on a delivery, together with the     *)
(* run the queue may still hand out, are at most one more than the injected *)
(* faults.  moveToDelayed without a lock token, called by a slot that lost   *)
(* its lock, takes the job from its new owner but never multiplies it.      *)
SlotsBounded ==
  \A d \in Deliveries :
    Cardinality({s \in Slots : slot[s].d = d}) + Queued(job[d]) <= 1 + faults

(* The breaker opens only after PAUSE_DESTINATION_AFTER consecutive failures: *)
(* the stored consecutiveFailures is at most the failures recorded since the *)
(* last success or resume, and a breaker opened since then has seen that     *)
(* many.  Excepted, until the next success or resume, is a destination whose *)
(* count was overwritten by a slot that had read it before: the transaction  *)
(* writes the stale count plus one, and may open the breaker early.         *)
BreakerNotEarly ==
  \A c \in Destinations \ crossed :
    /\ dest[c].failures <= streak[c]
    /\ dest[c].reason = "auto" /\ dest[c].breaker => streak[c] >= PAUSE_DESTINATION_AFTER

(* Without faults a delivery that is still PENDING has a live job: no path   *)
(* of the processor ends the job and leaves the delivery to be tried.       *)
PendingHasJobWithoutFaults ==
  faults = 0 => \A d \in Deliveries :
    delivery[d].status = "PENDING" => job[d].state \notin {"none", "finished"}

(* A job that has reached the queue is settled or set aside: its delivery   *)
(* does not stay PENDING for ever.                                          *)
JobSettles ==
  \A d \in Deliveries : job[d].state = "waiting" ~> delivery[d].status # "PENDING"

(* A slot whose processor has read a delivery row and not yet recorded. *)
Working(s) == slot[s].pc \in {"load", "park", "sign", "post", "success", "failure"}

(* Every event, job or slot that a delivery has touched belongs to an       *)
(* accepted event; a row that is absent or deleted has an empty counter.    *)
Accounted ==
  /\ \A d \in Deliveries :
       delivery[d].status # "ABSENT" \/ job[d].state # "none" => d[1] \in accepted
  /\ \A s \in Slots : slot[s].d # NoDelivery => slot[s].d[1] \in accepted

(* The log is a run of failures, ended by at most one success, as long as    *)
(* the counter says; the status agrees with it.                             *)
WellLogged(d) ==
  /\ delivery[d].attempts \in 0..MAX_RETRIES_PER_JOB
  /\ \A n \in AttemptNumbers :
       /\ n > delivery[d].attempts <=> log[d][n] = "none"
       /\ n < delivery[d].attempts => log[d][n] = "FAILED"
  /\ delivery[d].status \in {"ABSENT", "DELETED"} => delivery[d].attempts = 0
  /\ delivery[d].status = "SUCCESS" =>
       /\ delivery[d].attempts > 0
       /\ log[d][delivery[d].attempts] = "SUCCESS"
  /\ delivery[d].status = "PENDING" =>
       /\ delivery[d].attempts < MAX_RETRIES_PER_JOB
       /\ \A n \in AttemptNumbers : log[d][n] # "SUCCESS"
  /\ delivery[d].status = "DEAD_LETTER" =>
       /\ delivery[d].attempts = MAX_RETRIES_PER_JOB
       /\ \A n \in AttemptNumbers : log[d][n] = "FAILED"
  /\ delivery[d].status # "FAILED"

LogShape == \A d \in Deliveries : WellLogged(d)

(* What a slot has read is at most one attempt ahead of the row, and is      *)
(* ahead of it only while the delivery has not succeeded.                   *)
SnapshotIsCurrent(d, n) ==
  /\ n <= delivery[d].attempts + 1
  /\ n = delivery[d].attempts + 1 => \A k \in AttemptNumbers : log[d][k] # "SUCCESS"

Snapshots ==
  \A s \in Slots : Working(s) =>
    /\ slot[s].d \in Deliveries
    /\ slot[s].attempt \in AttemptNumbers
    /\ RowExists(slot[s].d) => SnapshotIsCurrent(slot[s].d, slot[s].attempt)
    /\ slot[s].pc = "success" => slot[s].d \in acked

(* The inductive invariant behind the safety properties above. *)
IInv == TypeOK /\ Accounted /\ LogShape /\ Snapshots /\ NoFalseSuccess

(* The pipeline implements the contract: hide the queue, the slots and the  *)
(* destinations, and read the log as a sequence.                            *)
Contract == INSTANCE DeliveryContract WITH
  MaxAttempts <- MAX_RETRIES_PER_JOB,
  status <- [d \in Deliveries |-> delivery[d].status],
  tries <- [d \in Deliveries |-> [n \in 1..delivery[d].attempts |-> log[d][n]]]

ImplementsContract == Contract!Spec
=============================================================================
