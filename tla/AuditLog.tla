------------------------------- MODULE AuditLog -------------------------------
(***************************************************************************)
(* The audit trail of the rate limiter: denied requests are queued, the    *)
(* audit worker collects the jobs it takes in a batch held in memory, and  *)
(* a batch is written to PostgreSQL when it is full or when its timer      *)
(* fires.  A batch whose write fails goes back through the queue.          *)
(*                                                                         *)
(* The worker is one process with several jobs in progress; a call of      *)
(* processBatch that waits for PostgreSQL is a writer.  `batch' and        *)
(* `timer' are the module variables of the worker.  The queue is BullMQ's. *)
(***************************************************************************)
EXTENDS Integers, Sequences, FiniteSets

CONSTANTS
  Entries,        \* denied requests, one audit entry each
  Writers,        \* calls of processBatch that may be waiting at the same time
  BATCH_SIZE,
  FaultKinds, MaxFaults,      \* injected faults and their bound
  NoEntry

ASSUME AuditAssumption ==
  /\ BATCH_SIZE \in Nat \ {0} /\ IsFiniteSet(Writers)
  /\ FaultKinds \subseteq {"db", "redis", "crash", "stop"}
  /\ MaxFaults \in Nat
  /\ NoEntry \notin Entries

VARIABLES
  logged,     \* entries the middleware has queued
  queue,      \* number of jobs waiting for each entry
  stalled,    \* entries one of whose jobs has stalled
  batch, timer,               \* the worker's variables
  writer,     \* processBatch calls: what they write, and the job that waits for them
  phase,      \* of the worker process: "run", "flush" and "close" while it stops
  rows,       \* number of rows of each entry
  faults, faulted             \* injected faults, and their kinds

vars == <<logged, queue, stalled, batch, timer, writer, phase, rows, faults, faulted>>

Idle == [pc |-> "idle", todo |-> <<>>, job |-> NoEntry, flush |-> FALSE]

WriterRecord == [pc : {"idle", "write", "requeue"}, todo : Seq(Entries),
                 job : Entries \cup {NoEntry}, flush : BOOLEAN]

TypeOK ==
  /\ logged \subseteq Entries /\ stalled \subseteq Entries
  /\ queue \in [Entries -> Nat] /\ rows \in [Entries -> Nat]
  /\ batch \in Seq(Entries) /\ Len(batch) < BATCH_SIZE
  /\ timer \in BOOLEAN
  /\ writer \in [Writers -> WriterRecord]
  /\ phase \in {"run", "flush", "close"}
  /\ faults \in Nat /\ faulted \subseteq FaultKinds

Init ==
  /\ logged = {} /\ stalled = {}
  /\ queue = [e \in Entries |-> 0] /\ rows = [e \in Entries |-> 0]
  /\ batch = <<>> /\ timer = FALSE
  /\ writer = [w \in Writers |-> Idle]
  /\ phase = "run"
  /\ faults = 0 /\ faulted = {}

Fault(kind) ==
  /\ kind \in FaultKinds /\ faults < MaxFaults
  /\ faults' = faults + 1
  /\ faulted' = faulted \cup {kind}

NoFault == UNCHANGED <<faults, faulted>>

Elements(s) == {s[i] : i \in 1..Len(s)}

Occurrences(e, s) == Cardinality({i \in 1..Len(s) : s[i] = e})

-----------------------------------------------------------------------------
(* rateLimit middleware, auditDenied: enqueueAuditLog; its errors are        *)
(* swallowed, and such an entry is never logged.                            *)
Log(e) ==
  /\ e \notin logged
  /\ logged' = logged \cup {e}
  /\ queue' = [queue EXCEPT ![e] = @ + 1]
  /\ UNCHANGED <<stalled, batch, timer, writer, phase, rows, faults, faulted>>

Waiting(todo, job, flush) == [pc |-> "write", todo |-> todo, job |-> job, flush |-> flush]

(* Variant: the timer that has fired stays set. *)
ProcessBatchKeepingTimer(todo, job, flush) ==
  \E w \in Writers :
    /\ writer[w].pc = "idle"
    /\ writer' = [writer EXCEPT ![w] = Waiting(todo, job, flush)]
    /\ batch' = <<>> /\ UNCHANGED timer

(* Variant: the entries that are written stay in the batch. *)
ProcessBatchKeepingBatch(todo, job, flush) ==
  \E w \in Writers :
    /\ writer[w].pc = "idle"
    /\ writer' = [writer EXCEPT ![w] = Waiting(todo, job, flush)]
    /\ timer' = FALSE /\ UNCHANGED batch

(* processBatch up to its await. *)
ProcessBatch(todo, job, flush) ==
  \E w \in Writers :
    /\ writer[w].pc = "idle"
    /\ writer' = [writer EXCEPT ![w] = Waiting(todo, job, flush)]
    /\ batch' = <<>> /\ timer' = FALSE

Full(todo) == Len(todo) >= BATCH_SIZE

(* The worker takes a job.  The job that fills the batch waits for its rows; *)
(* any other is acknowledged at once.                                       *)
Collect(e) ==
  LET todo == Append(batch, e)
  IN
  /\ queue[e] > 0
  /\ queue' = [queue EXCEPT ![e] = @ - 1]
  /\ \/ Full(todo) /\ ProcessBatch(todo, e, FALSE)
     \/ ~Full(todo) /\ batch' = todo /\ timer' = TRUE /\ UNCHANGED writer
  /\ UNCHANGED <<logged, stalled, phase, rows>> /\ NoFault

TimerFires ==
  /\ timer
  /\ ProcessBatch(batch, NoEntry, FALSE)
  /\ UNCHANGED <<logged, queue, stalled, phase, rows>> /\ NoFault

Stored(w) == [e \in Entries |-> rows[e] + Occurrences(e, writer[w].todo)]

WriteOk(w) ==
  /\ writer[w].pc = "write"
  /\ rows' = Stored(w)
  /\ writer' = [writer EXCEPT ![w] = Idle]
  /\ UNCHANGED <<logged, queue, stalled, batch, timer, phase>> /\ NoFault

(* Variant: the error is logged and nothing is queued again. *)
WriteFailsForGood(w) ==
  /\ writer[w].pc = "write"
  /\ Fault("db")
  /\ writer' = [writer EXCEPT ![w] = Idle]
  /\ UNCHANGED <<logged, queue, stalled, batch, timer, phase, rows>>

(* createMany rejects: nothing was written, or only the answer is lost. *)
WriteFails(w) ==
  /\ writer[w].pc = "write"
  /\ Fault("db")
  /\ rows' \in {rows, Stored(w)}
  /\ writer' = [writer EXCEPT ![w].pc = "requeue"]
  /\ UNCHANGED <<logged, queue, stalled, batch, timer, phase>>

(* Promise.allSettled: each entry is queued again, or dropped, on its own.  *)
Settle(w) ==
  writer' = [writer EXCEPT ![w] =
    IF Len(writer[w].todo) = 1 THEN Idle ELSE [writer[w] EXCEPT !.todo = Tail(writer[w].todo)]]

Requeue(w) ==
  LET e == Head(writer[w].todo)
  IN
  /\ writer[w].pc = "requeue"
  /\ Settle(w)
  /\ queue' = [queue EXCEPT ![e] = @ + 1]
  /\ stalled' = stalled \ {e}
  /\ UNCHANGED <<logged, batch, timer, phase, rows>> /\ NoFault

RequeueFails(w) ==
  /\ writer[w].pc = "requeue"
  /\ Fault("redis")
  /\ Settle(w)
  /\ UNCHANGED <<logged, queue, stalled, batch, timer, phase, rows>>

-----------------------------------------------------------------------------
(* The process ends and starts again with empty variables; the queue gives  *)
(* the jobs it was processing back once, and fails them the second time.    *)
Active == {writer[w].job : w \in Writers} \ {NoEntry}

Restart ==
  /\ batch' = <<>> /\ timer' = FALSE
  /\ writer' = [w \in Writers |-> Idle]
  /\ phase' = "run"
  /\ queue' = [e \in Entries |-> queue[e] + IF e \in Active \ stalled THEN 1 ELSE 0]
  /\ stalled' = stalled \cup Active

Crash ==
  /\ Fault("crash")
  /\ Restart
  /\ UNCHANGED <<logged, rows>>

(* stopWorkers: flush, wait for it, close the workers, exit.  Closing waits  *)
(* for the jobs in progress and not for the timer or for its writes.        *)
Stop ==
  /\ phase = "run" /\ Fault("stop")
  /\ \/ batch = <<>> /\ phase' = "close" /\ UNCHANGED <<batch, timer, writer>>
     \/ batch # <<>> /\ phase' = "flush" /\ ProcessBatch(batch, NoEntry, TRUE)
  /\ UNCHANGED <<logged, queue, stalled, rows>>

Close ==
  /\ phase = "flush" /\ \A w \in Writers : ~writer[w].flush
  /\ phase' = "close"
  /\ UNCHANGED <<logged, queue, stalled, batch, timer, writer, rows>> /\ NoFault

Exit ==
  /\ phase = "close" /\ Active = {}
  /\ Restart
  /\ UNCHANGED <<logged, rows>> /\ NoFault

-----------------------------------------------------------------------------

Next ==
  \/ TimerFires \/ Crash \/ Stop \/ Close \/ Exit
  \/ \E e \in Entries : Log(e) \/ Collect(e)
  \/ \E w \in Writers : WriteOk(w) \/ WriteFails(w) \/ Requeue(w) \/ RequeueFails(w)

Spec == Init /\ [][Next]_vars

(* The worker takes jobs and its timer fires, PostgreSQL answers, and a      *)
(* shutdown goes on.                                                        *)
Fairness ==
  /\ WF_vars(TimerFires) /\ WF_vars(Close) /\ WF_vars(Exit)
  /\ \A e \in Entries : WF_vars(Collect(e))
  /\ \A w \in Writers : WF_vars(WriteOk(w)) /\ WF_vars(Requeue(w))

FairSpec == Spec /\ Fairness

-----------------------------------------------------------------------------
(* Properties. *)

(* What is held in memory has a timer that will write it, whatever           *)
(* processBatch calls, timeouts and shutdowns overlap: no entry waits for   *)
(* the next denied request to come along.                                   *)
BatchHasTimer == batch # <<>> <=> timer

(* The worker's state is well formed, and a batch never lacks its timer       *)
(* (audit-log.worker.ts).                                                    *)
Inv == TypeOK /\ BatchHasTimer

Held(e) ==
  \/ queue[e] > 0 \/ rows[e] > 0 \/ e \in Elements(batch)
  \/ \E w \in Writers : e \in Elements(writer[w].todo)

(* "Never lose audit data on a transient DB failure": as long as only        *)
(* PostgreSQL fails, every logged entry is queued, held or stored.          *)
NothingLost == faulted \subseteq {"db"} => \A e \in logged : Held(e)

(* The copies of an entry that calls of processBatch hold, one by one.       *)
WrittenBy(calls, e) ==
  {x \in Writers \X (1..BATCH_SIZE) :
     x[2] <= Len(calls[x[1]].todo) /\ calls[x[1]].todo[x[2]] = e}

InFlight(e) ==
  queue[e] + Occurrences(e, batch) + Cardinality(WrittenBy(writer, e))

Copies(e) == rows[e] + InFlight(e)

(* Only faults multiply an entry, and slowly: a crash gives back one job,    *)
(* and a lost answer adds a row for each copy in flight, so that after c     *)
(* crashes and d other faults there are at most (1+c)*(1+d) copies, which is *)
(* at most the square of 1 + faults/2.  Without a fault the audit trail      *)
(* counts no denial twice.                                                  *)
BoundedCopies ==
  \A e \in Entries : 4 * Copies(e) <= (faults + 2) * (faults + 2)

(* A logged entry reaches the table, or some process or Redis failed.       *)
AuditSettles ==
  \A e \in Entries :
    e \in logged ~> rows[e] > 0 \/ ~(faulted \subseteq {"db"})
=============================================================================
