--------------------------- MODULE DeliveryProofs ---------------------------
(***************************************************************************)
(* Machine-checked proofs about Delivery, for all sets of events,          *)
(* destinations and slots and all values of the limits.                    *)
(***************************************************************************)
EXTENDS Delivery, SequenceTheorems, FiniteSetTheorems, TLAPS

-----------------------------------------------------------------------------

(* Updating fields of a row, a job or a slot with values of their types      *)
(* gives one again.                                                         *)
LEMMA JobUpdates ==
  ASSUME NEW r \in JobRecord, NEW k \in Nat, NEW o \in Slots \cup {NoSlot},
         NEW st \in {"none", "adding", "waiting", "active", "finished"}
  PROVE  /\ [r EXCEPT !.state = st] \in JobRecord
         /\ [r EXCEPT !.owner = o] \in JobRecord
         /\ [r EXCEPT !.state = st, !.owner = o] \in JobRecord
         /\ [r EXCEPT !.state = st, !.tries = k, !.owner = o] \in JobRecord
         /\ [r EXCEPT !.state = st, !.stalls = k, !.owner = o] \in JobRecord
BY Zenon DEF JobRecord

LEMMA DestinationUpdates ==
  ASSUME NEW r \in DestinationRow, NEW k \in Nat, NEW b \in BOOLEAN,
         NEW st \in {"ACTIVE", "PAUSED", "DELETED"}, NEW why \in {"none", "manual", "auto"}
  PROVE  /\ [r EXCEPT !.failures = k] \in DestinationRow
         /\ [r EXCEPT !.failures = k, !.breaker = b] \in DestinationRow
         /\ [r EXCEPT !.status = st, !.reason = why] \in DestinationRow
         /\ [r EXCEPT !.status = st, !.reason = why, !.failures = k] \in DestinationRow
         /\ [r EXCEPT !.failures = k, !.status = st, !.breaker = b, !.reason = why]
              \in DestinationRow
BY Zenon DEF DestinationRow

LEMMA SlotMoves ==
  ASSUME NEW r \in SlotRecord, NEW pc \in WorkerPc
  PROVE  [r EXCEPT !.pc = pc] \in SlotRecord /\ [r EXCEPT !.pc = pc].d = r.d
BY Zenon DEF SlotRecord

LEMMA AttemptRead ==
  ASSUME NEW r \in SlotRecord, NEW k \in Nat
  PROVE  /\ [r EXCEPT !.pc = "load", !.attempt = k] \in SlotRecord
         /\ [r EXCEPT !.pc = "load", !.attempt = k].d = r.d
<1>1. "load" \in WorkerPc BY DEF WorkerPc
<1> QED BY <1>1, Zenon DEF SlotRecord

LEMMA FailuresRead ==
  ASSUME NEW r \in SlotRecord, NEW k \in Nat
  PROVE  /\ [r EXCEPT !.pc = "sign", !.failures = k] \in SlotRecord
         /\ [r EXCEPT !.pc = "sign", !.failures = k].d = r.d
<1>1. "sign" \in WorkerPc BY DEF WorkerPc
<1> QED BY <1>1, Zenon DEF SlotRecord

(* Every variable keeps its type. *)
THEOREM TypeCorrect == Spec => []TypeOK
<1> USE ConstantsAssumption DEF history
<1>1. Init => TypeOK
  BY DEF Init, TypeOK, DestinationRow, DeliveryStatus, JobRecord, SlotRecord, WorkerPc,
         IdleSlot, NewJob, NoLog, AttemptNumbers
<1>2. TypeOK /\ [Next]_vars => TypeOK'
  <2> SUFFICES ASSUME TypeOK, [Next]_vars PROVE TypeOK'
    OBVIOUS
  <2>t. /\ job \in [Deliveries -> JobRecord]
        /\ slot \in [Slots -> SlotRecord]
        /\ dest \in [Destinations -> DestinationRow]
        /\ delivery \in [Deliveries -> [status : DeliveryStatus, attempts : Nat]]
        /\ log \in [Deliveries -> [AttemptNumbers -> {"none", "SUCCESS", "FAILED"}]]
        /\ faults \in Nat /\ incidents \subseteq Incident
        /\ \A s \in Slots : slot[s].d = NoDelivery => slot[s].pc = "idle"
    BY DEF TypeOK
  <2>f. ASSUME NEW kind, Fault(kind) PROVE faults' \in Nat
    BY <2>t, <2>f DEF Fault
  <2> DEFINE HistoryOK == /\ streak \in [Destinations -> Nat]
                          /\ overtaken \subseteq Slots /\ crossed \subseteq Destinations
  <2>h. /\ \A c \in Destinations, S \in SUBSET Slots : StartRun(c, S) => HistoryOK'
        /\ \A s \in Slots : CatchUp(s) => HistoryOK'
        /\ \A s \in Slots : AddToRun(s) /\ slot[s].d \in Deliveries => HistoryOK'
    <3>1. HistoryOK BY DEF TypeOK
    <3>2. ASSUME NEW s \in Slots, AddToRun(s), slot[s].d \in Deliveries PROVE HistoryOK'
      <4>1. slot[s].d[2] \in Destinations BY <3>2 DEF Deliveries
      <4> QED BY <3>1, <3>2, <4>1 DEF AddToRun
    <3>3. ASSUME NEW s \in Slots, CatchUp(s) PROVE HistoryOK'
      BY <3>1, <3>3 DEF CatchUp
    <3>4. ASSUME NEW c \in Destinations, NEW S \in SUBSET Slots, StartRun(c, S) PROVE HistoryOK'
      BY <3>1, <3>4 DEF StartRun
    <3> QED BY <3>2, <3>3, <3>4
  <2>1. ASSUME NEW e \in Events, NEW targets \in SUBSET Destinations, Accept(e, targets)
        PROVE TypeOK'
    <3>1. delivery' \in [Deliveries -> [status : DeliveryStatus, attempts : Nat]]
      BY <2>t, <2>1 DEF Accept, DeliveryStatus
    <3>0. \A d \in Deliveries : [job[d] EXCEPT !.state = "adding"] \in JobRecord
      BY <2>t, JobUpdates
    <3>2. job' \in [Deliveries -> JobRecord]
      BY <2>t, <2>1, <3>0 DEF Accept
    <3> QED BY <2>1, <3>1, <3>2 DEF TypeOK, Accept
  <2>2. ASSUME NEW d \in Deliveries, Stalled(d) PROVE job' \in [Deliveries -> JobRecord]
    <3>1. \A st \in {"waiting", "finished"} :
            [job[d] EXCEPT !.state = st, !.stalls = job[d].stalls + 1, !.owner = NoSlot]
              \in JobRecord
      <4>1. job[d].stalls + 1 \in Nat BY <2>t DEF JobRecord
      <4> QED BY <2>t, <4>1, JobUpdates
    <3> QED BY <2>t, <2>2, <3>1 DEF Stalled
  <2>3. ASSUME NEW d \in Deliveries, Enqueue(d) PROVE TypeOK'
    <3>1. job' \in [Deliveries -> JobRecord]
      <4>1. [job[d] EXCEPT !.state = "waiting"] \in JobRecord
        BY <2>t, JobUpdates
      <4> QED BY <2>t, <2>3, <4>1 DEF Enqueue
    <3> QED BY <2>3, <3>1 DEF TypeOK, Enqueue, rows
  <2>4. ASSUME NEW d \in Deliveries, EnqueueLost(d) PROVE TypeOK'
    <3>1. job' \in [Deliveries -> JobRecord]
      <4>1. [job[d] EXCEPT !.state = "finished"] \in JobRecord
        BY <2>t, JobUpdates
      <4> QED BY <2>t, <2>4, <4>1 DEF EnqueueLost
    <3> QED BY <2>4, <2>f, <3>1 DEF TypeOK, EnqueueLost, rows
  <2>5. ASSUME NEW d \in Deliveries, DetectStalled(d) PROVE TypeOK'
    BY <2>2, <2>5 DEF TypeOK, DetectStalled, rows
  <2>6. ASSUME NEW d \in Deliveries, LoseLock(d) PROVE TypeOK'
    BY <2>2, <2>f, <2>6 DEF TypeOK, LoseLock, rows
  <2>7. ASSUME NEW d \in Deliveries, ReplayDelivery(d) PROVE TypeOK'
    <3>1. job' \in [Deliveries -> JobRecord]
      <4>1. [NewJob EXCEPT !.state = "adding"] \in JobRecord
        <5>1. NewJob \in JobRecord BY DEF NewJob, JobRecord
        <5> QED BY <5>1, JobUpdates
      <4> QED BY <2>t, <2>7, <4>1 DEF ReplayDelivery
    <3>2. delivery' \in [Deliveries -> [status : DeliveryStatus, attempts : Nat]]
      BY <2>t, <2>7 DEF ReplayDelivery, DeliveryStatus
    <3> QED BY <2>7, <3>1, <3>2 DEF TypeOK, ReplayDelivery
  <2>8. ASSUME NEW s \in Slots, NEW d \in Deliveries, Fetch(s, d) PROVE TypeOK'
    <3>0. [job[d] EXCEPT !.state = "active", !.owner = s] \in JobRecord
      BY <2>t, JobUpdates
    <3>1. job' \in [Deliveries -> JobRecord]
      BY <2>t, <2>8, <3>0 DEF Fetch
    <3>2. slot' \in [Slots -> SlotRecord]
      BY <2>t, <2>8 DEF Fetch, SlotRecord, IdleSlot, WorkerPc
    <3>3. \A t \in Slots : slot'[t].d = NoDelivery => slot'[t].pc = "idle"
      BY <2>t, <2>8, ConstantsAssumption DEF Fetch, IdleSlot, Deliveries
    <3> QED BY <2>8, <3>1, <3>2, <3>3 DEF TypeOK, Fetch, rows
  <2>9. ASSUME NEW S \in SUBSET Slots, Crash(S) PROVE TypeOK'
    <3>0. \A d \in Deliveries : [job[d] EXCEPT !.owner = NoSlot] \in JobRecord
      BY <2>t, JobUpdates
    <3>1. job' \in [Deliveries -> JobRecord]
      BY <2>t, <2>9, <3>0 DEF Crash
    <3>2. /\ slot' \in [Slots -> SlotRecord]
          /\ \A t \in Slots : slot'[t].d = NoDelivery => slot'[t].pc = "idle"
      BY <2>t, <2>9 DEF Crash, SlotRecord, IdleSlot, WorkerPc
    <3> QED BY <2>9, <2>f, <3>1, <3>2 DEF TypeOK, Crash, rows
  <2>10. ASSUME NEW c \in Destinations, AdminStep(c) PROVE TypeOK'
    <3>1. CASE RequestPause(c) BY <3>1 DEF TypeOK, RequestPause, rows
    <3>2. CASE RequestResume(c) BY <3>2 DEF TypeOK, RequestResume, rows
    <3>3. CASE PauseDestination(c)
      <4>0. [dest[c] EXCEPT !.status = "PAUSED", !.reason = "manual"] \in DestinationRow
        BY <2>t, DestinationUpdates
      <4>1. dest' \in [Destinations -> DestinationRow]
        BY <2>t, <3>3, <4>0 DEF PauseDestination
      <4> QED BY <3>3, <4>1 DEF TypeOK, PauseDestination
    <3>4. CASE ResumeDestination(c)
      <4>0. [dest[c] EXCEPT !.status = "ACTIVE", !.reason = "none", !.failures = 0]
              \in DestinationRow
        BY <2>t, DestinationUpdates
      <4>1. dest' \in [Destinations -> DestinationRow]
        BY <2>t, <3>4, <4>0 DEF ResumeDestination
      <4>2. HistoryOK'
        <5>1. Slots \in SUBSET Slots OBVIOUS
        <5>2. StartRun(c, Slots) => HistoryOK' BY <2>h, <5>1
        <5>3. HistoryOK BY DEF TypeOK
        <5> QED BY <3>4, <5>2, <5>3 DEF ResumeDestination
      <4> QED BY <3>4, <4>1, <4>2 DEF TypeOK, ResumeDestination
    <3>5. CASE DeleteDestination(c)
      <4>1. dest' \in [Destinations -> DestinationRow]
        BY <2>t, <3>5 DEF DeleteDestination, DestinationRow
      <4>2. delivery' \in [Deliveries -> [status : DeliveryStatus, attempts : Nat]]
        BY <2>t, <3>5 DEF DeleteDestination, DeliveryStatus
      <4>3. log' \in [Deliveries -> [AttemptNumbers -> {"none", "SUCCESS", "FAILED"}]]
        BY <2>t, <3>5 DEF DeleteDestination, NoLog
      <4> QED BY <3>5, <4>1, <4>2, <4>3 DEF TypeOK, DeleteDestination
    <3> QED BY <2>10, <3>1, <3>2, <3>3, <3>4, <3>5 DEF AdminStep
  <2>11. ASSUME NEW s \in Slots, SlotStep(s) PROVE TypeOK'
    <3>p. slot[s].pc # "idle"
      BY <2>11 DEF SlotStep, FindDelivery, LoadDestination, Park, Sign, SignFails, Post,
           RecordSuccess, SuccessAborts, RecordFailure, FailureAborts, OpenBreakerIncident,
           OpenDeadLetterIncident, IncidentFails, Requeue
    <3>s. slot[s].d \in Deliveries
      BY <2>t, <3>p DEF SlotRecord
    <3>a. CompleteJob(s) \/ FailJob(s) =>
            /\ job' \in [Deliveries -> JobRecord]
            /\ slot' \in [Slots -> SlotRecord]
            /\ \A t \in Slots : slot'[t].d = NoDelivery => slot'[t].pc = "idle"
      <4>1. [job[slot[s].d] EXCEPT !.state = "finished", !.owner = NoSlot] \in JobRecord
        BY <2>t, <3>s, JobUpdates
      <4>2. [job[slot[s].d] EXCEPT
               !.state = IF job[slot[s].d].tries + 1 < JOB_ATTEMPTS THEN "waiting"
                                                                    ELSE "finished",
               !.tries = job[slot[s].d].tries + 1, !.owner = NoSlot] \in JobRecord
        <5>1. job[slot[s].d].tries + 1 \in Nat BY <2>t, <3>s DEF JobRecord
        <5> QED BY <2>t, <3>s, <5>1, JobUpdates
      <4>3. CompleteJob(s) \/ FailJob(s) => slot' = [slot EXCEPT ![s] = IdleSlot]
        BY DEF CompleteJob, FailJob
      <4>4. CompleteJob(s) => job' \in [Deliveries -> JobRecord]
        BY <2>t, <3>s, <4>1 DEF CompleteJob
      <4>5. FailJob(s) => job' \in [Deliveries -> JobRecord]
        BY <2>t, <3>s, <4>2 DEF FailJob
      <4>6. IdleSlot \in SlotRecord /\ IdleSlot.pc = "idle"
        BY DEF SlotRecord, IdleSlot, WorkerPc
      <4>7. CompleteJob(s) \/ FailJob(s) =>
              /\ slot' \in [Slots -> SlotRecord]
              /\ \A t \in Slots : slot'[t].d = NoDelivery => slot'[t].pc = "idle"
        BY <2>t, <4>3, <4>6
      <4> QED BY <4>4, <4>5, <4>7
    <3>b. ASSUME NEW pc \in WorkerPc, slot[s].pc # "idle", Goto(s, pc)
          PROVE  /\ slot' \in [Slots -> SlotRecord]
                 /\ \A t \in Slots : slot'[t].d = NoDelivery => slot'[t].pc = "idle"
      <4>1. [slot[s] EXCEPT !.pc = pc] \in SlotRecord /\ [slot[s] EXCEPT !.pc = pc].d = slot[s].d
        <5>1. slot[s] \in SlotRecord BY <2>t
        <5> QED BY <3>b, <5>1, SlotMoves, Zenon
      <4> QED BY <2>t, <3>b, <4>1 DEF Goto
    <3>1. CASE FindDelivery(s)
      <4>1. /\ job' \in [Deliveries -> JobRecord]
            /\ slot' \in [Slots -> SlotRecord]
            /\ \A t \in Slots : slot'[t].d = NoDelivery => slot'[t].pc = "idle"
        <5>1. CASE delivery[slot[s].d].status = "PENDING"
          <6>1. delivery[slot[s].d].attempts + 1 \in Nat
            BY <2>t, <3>1, <3>s DEF FindDelivery
          <6>2. slot[s] \in SlotRecord
            BY <2>t
          <6>3. /\ [slot[s] EXCEPT !.pc = "load", !.attempt = delivery[slot[s].d].attempts + 1]
                     \in SlotRecord
                /\ [slot[s] EXCEPT !.pc = "load", !.attempt = delivery[slot[s].d].attempts + 1].d
                     = slot[s].d
            BY <6>1, <6>2, AttemptRead, Zenon
          <6> QED BY <2>t, <3>1, <3>s, <5>1, <6>3 DEF FindDelivery
        <5>2. CASE delivery[slot[s].d].status # "PENDING"
          BY <3>1, <3>a, <5>2 DEF FindDelivery
        <5> QED BY <5>1, <5>2
      <4> QED BY <3>1, <4>1 DEF TypeOK, FindDelivery, rows
    <3>2. CASE LoadDestination(s)
      <4>0. dest[slot[s].d[2]] \in DestinationRow
        BY <2>t, <3>2, <3>s DEF LoadDestination, Deliveries
      <4>1. /\ job' \in [Deliveries -> JobRecord]
            /\ slot' \in [Slots -> SlotRecord]
            /\ \A t \in Slots : slot'[t].d = NoDelivery => slot'[t].pc = "idle"
        <5>1. CASE dest[slot[s].d[2]].status = "DELETED"
          BY <3>2, <3>a, <5>1 DEF LoadDestination
        <5>2. CASE dest[slot[s].d[2]].status = "PAUSED"
          BY <2>t, <3>2, <3>b, <5>2 DEF LoadDestination, WorkerPc
        <5>3. CASE dest[slot[s].d[2]].status = "ACTIVE"
          <6>1. dest[slot[s].d[2]].failures \in Nat
            BY <4>0 DEF DestinationRow
          <6>2. slot[s] \in SlotRecord
            BY <2>t
          <6>3. /\ [slot[s] EXCEPT !.pc = "sign", !.failures = dest[slot[s].d[2]].failures]
                     \in SlotRecord
                /\ [slot[s] EXCEPT !.pc = "sign", !.failures = dest[slot[s].d[2]].failures].d
                     = slot[s].d
            BY <6>1, <6>2, FailuresRead, Zenon
          <6> QED BY <2>t, <3>2, <3>s, <5>3, <6>3 DEF LoadDestination
        <5> QED BY <4>0, <5>1, <5>2, <5>3 DEF DestinationRow
      <4>2. HistoryOK' BY <2>h, <3>2 DEF LoadDestination
      <4> QED BY <3>2, <4>1, <4>2 DEF TypeOK, LoadDestination, rows
    <3>3. CASE Park(s)
      <4>1. delivery' \in [Deliveries -> [status : DeliveryStatus, attempts : Nat]]
        BY <2>t, <3>3 DEF Park, DeliveryStatus
      <4> QED BY <3>3, <3>a, <4>1 DEF TypeOK, Park
    <3>4. CASE Sign(s) BY <3>4, <3>b DEF TypeOK, Sign, WorkerPc, rows
    <3>5. CASE SignFails(s) BY <3>5, <3>a, <2>f DEF TypeOK, SignFails, rows
    <3>6. ASSUME NEW b \in BOOLEAN, Post(s, b) PROVE TypeOK'
      <4>1. slot[s].d \in Deliveries
        BY <3>s, <3>6 DEF Post
      <4>2. acked' \subseteq Deliveries /\ posts' \in [Deliveries -> Nat]
        BY <3>6, <4>1 DEF TypeOK, Post
      <4>3. /\ slot' \in [Slots -> SlotRecord]
            /\ \A t \in Slots : slot'[t].d = NoDelivery => slot'[t].pc = "idle"
        BY <3>6, <3>b DEF Post, WorkerPc
      <4> QED BY <3>6, <4>2, <4>3 DEF TypeOK, Post, rows
    <3>7. CASE RecordSuccess(s)
      <4>1. slot[s].attempt \in Nat
        BY <2>t DEF SlotRecord
      <4>2. delivery' \in [Deliveries -> [status : DeliveryStatus, attempts : Nat]]
        BY <2>t, <3>7, <4>1 DEF RecordSuccess, DeliveryStatus
      <4>3. log' \in [Deliveries -> [AttemptNumbers -> {"none", "SUCCESS", "FAILED"}]]
        BY <2>t, <3>7 DEF RecordSuccess, AppendLog
      <4>4. dest' \in [Destinations -> DestinationRow]
        <5>1. \A c \in Destinations :
                [dest[c] EXCEPT !.failures = 0, !.breaker = FALSE] \in DestinationRow
          BY <2>t, DestinationUpdates
        <5> QED BY <2>t, <3>7, <5>1 DEF RecordSuccess
      <4>5. incidents' \subseteq Incident
        BY <2>t, <3>7 DEF RecordSuccess
      <4>6. HistoryOK'
        <5>1. slot[s].d[2] \in Destinations BY <3>s DEF Deliveries
        <5> QED BY <2>h, <3>7, <5>1 DEF RecordSuccess
      <4> QED BY <3>7, <3>a, <4>2, <4>3, <4>4, <4>5, <4>6 DEF TypeOK, RecordSuccess
    <3>8. CASE SuccessAborts(s)
      <4>1. faults' \in Nat
        BY <2>t, <2>f, <3>8 DEF SuccessAborts
      <4> QED BY <3>8, <3>b, <4>1 DEF TypeOK, SuccessAborts, WorkerPc, rows
    <3>9. CASE RecordFailure(s)
      <4>1. slot[s].attempt \in Nat /\ slot[s].failures \in Nat /\ slot[s].d \in Deliveries
        BY <2>t, <3>s, <3>9 DEF SlotRecord, RecordFailure
      <4>2. delivery' \in [Deliveries -> [status : DeliveryStatus, attempts : Nat]]
        BY <2>t, <3>9, <4>1 DEF RecordFailure, DeliveryStatus
      <4>3. log' \in [Deliveries -> [AttemptNumbers -> {"none", "SUCCESS", "FAILED"}]]
        BY <2>t, <3>9 DEF RecordFailure, AppendLog
      <4>4. dest' \in [Destinations -> DestinationRow]
        <5>0. slot[s].failures + 1 \in Nat BY <4>1
        <5>1. \A c \in Destinations :
                [dest[c] EXCEPT !.failures = slot[s].failures + 1] \in DestinationRow
          BY <2>t, <5>0, DestinationUpdates
        <5>2. \A c \in Destinations :
                [dest[c] EXCEPT !.failures = slot[s].failures + 1,
                                !.status = "PAUSED", !.breaker = TRUE, !.reason = "auto"]
                  \in DestinationRow
          BY <2>t, <5>0, DestinationUpdates
        <5> QED BY <2>t, <3>9, <5>1, <5>2
          DEF RecordFailure, CountFailure, NextConsecutiveFailures
      <4>5. /\ slot' \in [Slots -> SlotRecord]
            /\ \A t \in Slots : slot'[t].d = NoDelivery => slot'[t].pc = "idle"
        <5>1. PICK pc \in WorkerPc : Goto(s, pc)
          BY <3>9 DEF RecordFailure, AfterBreakerIncident, WorkerPc
        <5> QED BY <3>9, <3>b, <5>1 DEF RecordFailure
      <4>6. HistoryOK' BY <2>h, <3>s, <3>9 DEF RecordFailure
      <4> QED BY <3>9, <4>2, <4>3, <4>4, <4>5, <4>6 DEF TypeOK, RecordFailure
    <3>10. CASE FailureAborts(s)
      <4>1. faults' \in Nat
        BY <2>t, <2>f, <3>10 DEF FailureAborts
      <4> QED BY <3>10, <3>a, <4>1 DEF TypeOK, FailureAborts, rows
    <3>11. CASE OpenBreakerIncident(s)
      <4>1. incidents' \subseteq Incident
        BY <2>t, <3>s, <3>11 DEF OpenBreakerIncident, Incident
      <4>2. PICK pc \in WorkerPc : Goto(s, pc)
        BY <3>11 DEF OpenBreakerIncident, AfterBreakerIncident, WorkerPc
      <4> QED BY <3>11, <3>b, <4>1, <4>2 DEF TypeOK, OpenBreakerIncident
    <3>12. CASE OpenDeadLetterIncident(s)
      <4>1. incidents' \subseteq Incident
        BY <2>t, <3>s, <3>12 DEF OpenDeadLetterIncident, Incident
      <4> QED BY <3>12, <3>a, <4>1 DEF TypeOK, OpenDeadLetterIncident
    <3>13. CASE IncidentFails(s) BY <3>13, <3>a, <2>f DEF TypeOK, IncidentFails, rows
    <3>14. CASE Requeue(s)
      <4>1. job' \in [Deliveries -> JobRecord]
        <5>1. \A e \in Deliveries :
                [job[e] EXCEPT !.state = "waiting", !.tries = job[e].tries + 1,
                               !.owner = NoSlot] \in JobRecord
          <6>1. \A e \in Deliveries : job[e].tries + 1 \in Nat BY <2>t DEF JobRecord
          <6> QED BY <2>t, <6>1, JobUpdates
        <5> QED BY <2>t, <3>14, <5>1 DEF Requeue
      <4>2. /\ slot' \in [Slots -> SlotRecord]
            /\ \A t \in Slots : slot'[t].d = NoDelivery => slot'[t].pc = "idle"
        BY <2>t, <3>14 DEF Requeue, SlotRecord, IdleSlot, WorkerPc
      <4> QED BY <3>14, <4>1, <4>2 DEF TypeOK, Requeue, rows
    <3> QED
      BY <2>11, <3>1, <3>2, <3>3, <3>4, <3>5, <3>6, <3>7, <3>8, <3>9, <3>10, <3>11,
         <3>12, <3>13, <3>14 DEF SlotStep
  <2>12. CASE UNCHANGED vars BY <2>12 DEF TypeOK, vars
  <2> QED
    <3>1. ASSUME NEW e \in Events, AcceptForAll(e) PROVE TypeOK'
      BY <3>1, <2>1 DEF AcceptForAll
    <3>2. ASSUME NEW e \in Events, NEW c \in Destinations, AcceptForOne(e, c) PROVE TypeOK'
      BY <3>2, <2>1 DEF AcceptForOne
    <3> QED
      BY <3>1, <3>2, <2>3, <2>4, <2>5, <2>6, <2>7, <2>8, <2>9, <2>10, <2>11, <2>12 DEF Next
<1> QED BY <1>1, <1>2, PTL DEF Spec

-----------------------------------------------------------------------------
(* The inductive invariant. *)

(* A step that leaves the rows alone, and gives no slot a new snapshot,      *)
(* keeps the invariants about rows and snapshots.                           *)
LEMMA RowsKept ==
  ASSUME LogShape, Snapshots, NoFalseSuccess,
         delivery' = delivery, log' = log, acked \subseteq acked',
         \A t \in Slots : Working(t)' =>
           /\ Working(t)
           /\ slot'[t].d = slot[t].d
           /\ slot'[t].attempt = slot[t].attempt
           /\ slot'[t].pc = "success" => slot[t].pc = "success" \/ slot'[t].d \in acked'
  PROVE  LogShape' /\ Snapshots' /\ NoFalseSuccess'
<1>1. LogShape'
  BY DEF LogShape, WellLogged
<1>2. NoFalseSuccess'
  BY DEF NoFalseSuccess
<1>3. Snapshots'
  <2> SUFFICES ASSUME NEW t \in Slots, Working(t)'
               PROVE  (/\ slot[t].d \in Deliveries
                       /\ slot[t].attempt \in AttemptNumbers
                       /\ RowExists(slot[t].d) =>
                            SnapshotIsCurrent(slot[t].d, slot[t].attempt)
                       /\ slot[t].pc = "success" => slot[t].d \in acked)'
    BY DEF Snapshots
  <2>1. /\ slot[t].d \in Deliveries
        /\ slot[t].attempt \in AttemptNumbers
        /\ RowExists(slot[t].d) => SnapshotIsCurrent(slot[t].d, slot[t].attempt)
        /\ slot[t].pc = "success" => slot[t].d \in acked
    BY DEF Snapshots
  <2> QED BY <2>1 DEF RowExists, SnapshotIsCurrent
<1> QED BY <1>1, <1>2, <1>3

(* An outcome that can still be recorded is the next one: the unique key on   *)
(* the attempt number refuses every slot whose snapshot is out of date.      *)
LEMMA RecordableIsNext ==
  ASSUME TypeOK, LogShape, Snapshots, NEW s \in Slots, Working(s), Recordable(s)
  PROVE  /\ slot[s].d \in Deliveries
         /\ slot[s].attempt \in AttemptNumbers
         /\ slot[s].attempt = delivery[slot[s].d].attempts + 1
         /\ \A k \in AttemptNumbers :
              /\ k < slot[s].attempt => log[slot[s].d][k] = "FAILED"
              /\ k >= slot[s].attempt <=> log[slot[s].d][k] = "none"
         /\ delivery[slot[s].d].attempts \in Nat
         /\ delivery[slot[s].d].status \in {"PENDING", "PAUSED"}
         /\ slot[s].pc = "success" => slot[s].d \in acked
<1> DEFINE d == slot[s].d
           n == slot[s].attempt
<1> USE ConstantsAssumption
<1>1. /\ d \in Deliveries /\ n \in AttemptNumbers
      /\ n <= delivery[d].attempts + 1
      /\ n = delivery[d].attempts + 1 => \A k \in AttemptNumbers : log[d][k] # "SUCCESS"
      /\ slot[s].pc = "success" => d \in acked
      /\ log[d][n] = "none"
      /\ delivery[d].status \notin {"ABSENT", "DELETED"}
  BY DEF Snapshots, SnapshotIsCurrent, Recordable, RowExists
<1>2. /\ delivery[d].attempts \in 0..MAX_RETRIES_PER_JOB
      /\ \A k \in AttemptNumbers :
           /\ k > delivery[d].attempts <=> log[d][k] = "none"
           /\ k < delivery[d].attempts => log[d][k] = "FAILED"
  BY <1>1 DEF LogShape, WellLogged
<1>3. /\ n = delivery[d].attempts + 1
      /\ \A k \in AttemptNumbers : log[d][k] # "SUCCESS"
  BY <1>1, <1>2 DEF AttemptNumbers
<1>4. \A k \in AttemptNumbers : k < n => log[d][k] = "FAILED"
  <2> SUFFICES ASSUME NEW k \in AttemptNumbers, k < n PROVE log[d][k] = "FAILED"
    OBVIOUS
  <2>1. log[d][k] \in {"none", "SUCCESS", "FAILED"}
    BY <1>1 DEF TypeOK
  <2> QED BY <1>1, <1>2, <1>3, <2>1 DEF AttemptNumbers
<1>5. delivery[d].status \in {"PENDING", "PAUSED"}
  <2>1. delivery[d].status = "SUCCESS" =>
          delivery[d].attempts > 0 /\ log[d][delivery[d].attempts] = "SUCCESS"
    BY <1>1 DEF LogShape, WellLogged
  <2>2. delivery[d].status = "DEAD_LETTER" => delivery[d].attempts = MAX_RETRIES_PER_JOB
    BY <1>1 DEF LogShape, WellLogged
  <2>3. delivery[d].status # "FAILED"
    BY <1>1 DEF LogShape, WellLogged
  <2>4. delivery[d].status \in DeliveryStatus
    BY <1>1 DEF TypeOK
  <2>5. delivery[d].status # "SUCCESS"
    BY <1>2, <1>3, <2>1 DEF AttemptNumbers
  <2>6. delivery[d].status # "DEAD_LETTER"
    BY <1>1, <1>3, <2>2 DEF AttemptNumbers
  <2> QED BY <1>1, <2>3, <2>4, <2>5, <2>6 DEF DeliveryStatus
<1>6. \A k \in AttemptNumbers : k >= n <=> log[d][k] = "none"
  BY <1>2, <1>3 DEF AttemptNumbers
<1> QED BY <1>1, <1>2, <1>3, <1>4, <1>5, <1>6

(* Recording an outcome extends the log by one row, past everything any      *)
(* other slot has read.                                                     *)
LEMMA OutcomeRecorded ==
  ASSUME TypeOK, LogShape, Snapshots, NoFalseSuccess,
         NEW s \in Slots, Working(s), Recordable(s),
         NEW outcome \in {"SUCCESS", "FAILED"}, AppendLog(s, outcome),
         NEW st,
         delivery' = [delivery EXCEPT ![slot[s].d] =
                        [status |-> st, attempts |-> slot[s].attempt]],
         outcome = "SUCCESS" => st = "SUCCESS" /\ slot[s].pc = "success",
         outcome = "FAILED" =>
           st = IF Exhausted(s) THEN "DEAD_LETTER" ELSE delivery[slot[s].d].status,
         acked' = acked,
         \A t \in Slots : Working(t)' => t # s /\ slot'[t] = slot[t] /\ Working(t)
  PROVE  LogShape' /\ Snapshots' /\ NoFalseSuccess'
<1> DEFINE d == slot[s].d
           n == slot[s].attempt
<1> USE ConstantsAssumption
<1>1. /\ d \in Deliveries /\ n \in AttemptNumbers
      /\ n = delivery[d].attempts + 1
      /\ \A k \in AttemptNumbers :
           /\ k < n => log[d][k] = "FAILED"
           /\ k >= n <=> log[d][k] = "none"
      /\ delivery[d].attempts \in Nat
      /\ delivery[d].status \in {"PENDING", "PAUSED"}
      /\ slot[s].pc = "success" => d \in acked
  BY RecordableIsNext
<1>2. \A k \in AttemptNumbers : k > n <=> k # n /\ log[d][k] = "none"
  BY <1>1 DEF AttemptNumbers
<1>3. \A k \in AttemptNumbers : log[d][k] # "SUCCESS"
  BY <1>1 DEF AttemptNumbers
<1>4. /\ delivery'[d] = [status |-> st, attempts |-> n]
      /\ \A e \in Deliveries : e # d => delivery'[e] = delivery[e]
  BY <1>1 DEF TypeOK
<1>5. /\ log'[d][n] = outcome
      /\ \A k \in AttemptNumbers : k # n => log'[d][k] = log[d][k]
      /\ \A e \in Deliveries : e # d => log'[e] = log[e]
  BY <1>1 DEF TypeOK, AppendLog
<1>6. LogShape'
  <2> SUFFICES ASSUME NEW e \in Deliveries PROVE WellLogged(e)'
    BY DEF LogShape
  <2>1. CASE e # d
    BY <1>4, <1>5, <2>1 DEF LogShape, WellLogged
  <2>2. CASE e = d
    <3>1. /\ delivery'[e].attempts = n /\ delivery'[e].status = st
          /\ n \in 1..MAX_RETRIES_PER_JOB
      BY <1>1, <1>4, <2>2 DEF AttemptNumbers
    <3>2. \A k \in AttemptNumbers : k > n <=> log'[e][k] = "none"
      BY <1>1, <1>2, <1>3, <1>5, <2>2 DEF AttemptNumbers
    <3>3. \A k \in AttemptNumbers : k < n => log'[e][k] = "FAILED"
      BY <1>1, <1>5, <2>2 DEF AttemptNumbers
    <3>4. CASE outcome = "SUCCESS"
      BY <1>5, <2>2, <3>1, <3>2, <3>3, <3>4 DEF WellLogged
    <3>5. CASE outcome = "FAILED"
      <4>1. \A k \in AttemptNumbers : log'[e][k] # "SUCCESS"
        BY <1>3, <1>5, <2>2, <3>5
      <4>2. CASE Exhausted(s)
        <5>1. n = MAX_RETRIES_PER_JOB
          BY <3>1, <4>2 DEF Exhausted
        <5>2. \A k \in AttemptNumbers : log'[e][k] = "FAILED"
          BY <1>5, <2>2, <3>3, <3>5, <5>1 DEF AttemptNumbers
        <5> QED BY <3>1, <3>2, <3>3, <3>5, <4>2, <5>1, <5>2 DEF WellLogged
      <4>3. CASE ~Exhausted(s)
        <5>1. n < MAX_RETRIES_PER_JOB
          BY <3>1, <4>3 DEF Exhausted
        <5>2. st = delivery[d].status
          BY <3>5, <4>3
        <5>3. delivery'[e].status \in {"PENDING", "PAUSED"}
          BY <1>1, <3>1, <5>2
        <5>4. delivery'[e].attempts \in 0..MAX_RETRIES_PER_JOB
          BY <3>1
        <5> QED BY <3>1, <3>2, <3>3, <4>1, <5>1, <5>3, <5>4 DEF WellLogged
      <4> QED BY <4>2, <4>3
    <3> QED BY <3>4, <3>5
  <2> QED BY <2>1, <2>2
<1>7. NoFalseSuccess'
  BY <1>1, <1>4 DEF NoFalseSuccess, Exhausted
<1>8. Snapshots'
  <2> SUFFICES ASSUME NEW t \in Slots, Working(t)'
               PROVE  (/\ slot[t].d \in Deliveries
                       /\ slot[t].attempt \in AttemptNumbers
                       /\ RowExists(slot[t].d) =>
                            SnapshotIsCurrent(slot[t].d, slot[t].attempt)
                       /\ slot[t].pc = "success" => slot[t].d \in acked)'
    BY DEF Snapshots
  <2>1. /\ slot'[t] = slot[t]
        /\ slot[t].d \in Deliveries
        /\ slot[t].attempt \in AttemptNumbers
        /\ RowExists(slot[t].d) => SnapshotIsCurrent(slot[t].d, slot[t].attempt)
        /\ slot[t].pc = "success" => slot[t].d \in acked
    BY DEF Snapshots
  <2>2. CASE slot[t].d = d
    <3>1. slot[t].attempt <= n
      BY <1>1, <2>1, <2>2 DEF RowExists, SnapshotIsCurrent
    <3>2. slot[t].attempt \in Nat /\ n \in Nat
      BY <1>1, <2>1 DEF AttemptNumbers
    <3>3. delivery'[slot'[t].d].attempts = n
      BY <1>4, <2>1, <2>2
    <3>4. slot[t].attempt # n + 1 BY <3>1, <3>2
    <3>5. slot[t].attempt <= n + 1 BY <3>1, <3>2
    <3> QED BY <2>1, <3>3, <3>4, <3>5 DEF SnapshotIsCurrent
  <2>3. CASE slot[t].d # d
    BY <1>4, <1>5, <2>1, <2>3 DEF RowExists, SnapshotIsCurrent
  <2> QED BY <2>2, <2>3
<1> QED BY <1>6, <1>7, <1>8

(* How a job and its slot end: the slot is free, and no job comes into being. *)
LEMMA JobEnds ==
  ASSUME TypeOK, NEW s \in Slots, CompleteJob(s) \/ FailJob(s)
  PROVE  /\ slot' = [slot EXCEPT ![s] = IdleSlot]
         /\ \A d \in Deliveries : job[d].state = "none" => job'[d].state = "none"
<1>1. CASE CompleteJob(s)
  BY <1>1 DEF CompleteJob, OwnsJob, TypeOK
<1>2. CASE FailJob(s)
  BY <1>2 DEF FailJob, OwnsJob, TypeOK
<1> QED BY <1>1, <1>2

(* What no step of a slot does: accept an event, create a row or a job, or   *)
(* touch another slot.                                                      *)
LEMMA SlotFrame ==
  ASSUME TypeOK, NEW s \in Slots, SlotStep(s)
  PROVE  /\ accepted' = accepted
         /\ \A t \in Slots : t # s => slot'[t] = slot[t]
         /\ slot'[s].d \in {slot[s].d, NoDelivery}
         /\ \A d \in Deliveries : job[d].state = "none" => job'[d].state = "none"
         /\ \A d \in Deliveries : delivery[d].status = "ABSENT" => delivery'[d].status = "ABSENT"
<1> USE DEF TypeOK
<1> DEFINE SlotOnly == /\ \A t \in Slots : t # s => slot'[t] = slot[t]
                       /\ slot'[s].d \in {slot[s].d, NoDelivery}
<1>0. CompleteJob(s) \/ FailJob(s) => SlotOnly
  BY JobEnds DEF IdleSlot
<1>g. ASSUME NEW pc, Goto(s, pc) PROVE SlotOnly
  BY <1>g DEF Goto
<1>1. CASE FindDelivery(s)
  <2>1. CASE delivery[slot[s].d].status = "PENDING"
    <3>1. [slot[s] EXCEPT !.pc = "load", !.attempt = delivery[slot[s].d].attempts + 1].d
            = slot[s].d
      <4>1. delivery[slot[s].d].attempts + 1 \in Nat
        BY <1>1 DEF FindDelivery, SlotRecord
      <4>2. slot[s] \in SlotRecord OBVIOUS
      <4> HIDE DEF TypeOK
      <4> QED BY <4>1, <4>2, AttemptRead, Zenon
    <3> QED BY <1>1, <2>1, <3>1 DEF FindDelivery, rows
  <2>2. CASE delivery[slot[s].d].status # "PENDING"
    BY <1>0, <1>1, <2>2, JobEnds DEF FindDelivery, rows
  <2> QED BY <2>1, <2>2
<1>2. CASE LoadDestination(s)
  <2>1. CASE FailJob(s)
    BY <1>0, <1>2, <2>1, JobEnds DEF LoadDestination, rows
  <2>2. CASE UNCHANGED job /\ SlotOnly
    BY <1>2, <2>2 DEF LoadDestination, rows
  <2>3. slot[s].d[2] \in Destinations
    <3>1. slot[s].d \in Deliveries
      BY <1>2 DEF LoadDestination, SlotRecord
    <3> QED BY <3>1 DEF Deliveries
  <2>4. dest[slot[s].d[2]].status \in {"ACTIVE", "PAUSED", "DELETED"}
    BY <2>3 DEF DestinationRow
  <2>5. CASE dest[slot[s].d[2]].status = "DELETED"
    BY <1>2, <2>1, <2>5 DEF LoadDestination
  <2>6. CASE dest[slot[s].d[2]].status = "PAUSED"
    BY <1>2, <1>g, <2>2, <2>6 DEF LoadDestination
  <2>7. CASE dest[slot[s].d[2]].status = "ACTIVE"
    <3>1. [slot[s] EXCEPT !.pc = "sign", !.failures = dest[slot[s].d[2]].failures].d
            = slot[s].d
      <4>1. dest[slot[s].d[2]].failures \in Nat BY <2>3 DEF DestinationRow
      <4>2. slot[s] \in SlotRecord OBVIOUS
      <4> HIDE DEF TypeOK
      <4> QED BY <4>1, <4>2, FailuresRead, Zenon
    <3> QED BY <1>2, <2>2, <2>7, <3>1 DEF LoadDestination
  <2> QED BY <2>4, <2>5, <2>6, <2>7
<1>3. CASE Park(s)
  BY <1>0, <1>3, JobEnds DEF Park, RowExists
<1>4. CASE Sign(s)
  BY <1>4, <1>g DEF Sign, rows
<1>5. CASE SignFails(s)
  BY <1>0, <1>5, JobEnds DEF SignFails, rows
<1>6. ASSUME NEW b \in BOOLEAN, Post(s, b)
      PROVE  /\ accepted' = accepted /\ SlotOnly /\ UNCHANGED <<job, delivery>>
  BY <1>6, <1>g DEF Post, rows
<1>7. CASE RecordSuccess(s)
  <2>1. \A d \in Deliveries : delivery[d].status = "ABSENT" => delivery'[d].status = "ABSENT"
    BY <1>7 DEF RecordSuccess, Recordable, RowExists
  <2> QED BY <1>0, <1>7, <2>1, JobEnds DEF RecordSuccess
<1>8. CASE SuccessAborts(s)
  BY <1>8, <1>g DEF SuccessAborts, rows
<1>9. CASE RecordFailure(s)
  <2>1. \A d \in Deliveries : delivery[d].status = "ABSENT" => delivery'[d].status = "ABSENT"
    BY <1>9 DEF RecordFailure, Recordable, RowExists
  <2> QED BY <1>9, <1>g, <2>1 DEF RecordFailure
<1>10. CASE FailureAborts(s)
  BY <1>0, <1>10, JobEnds DEF FailureAborts, rows
<1>11. CASE OpenBreakerIncident(s)
  BY <1>11, <1>g DEF OpenBreakerIncident
<1>12. CASE OpenDeadLetterIncident(s)
  BY <1>0, <1>12, JobEnds DEF OpenDeadLetterIncident
<1>13. CASE IncidentFails(s)
  BY <1>0, <1>13, JobEnds DEF IncidentFails, rows
<1>14. CASE Requeue(s)
  BY <1>14 DEF Requeue, rows, IdleSlot
<1> QED
  BY <1>1, <1>2, <1>3, <1>4, <1>5, <1>6, <1>7, <1>8, <1>9, <1>10, <1>11, <1>12, <1>13,
     <1>14 DEF SlotStep

(* No step of a slot breaks the invariants about rows and snapshots. *)
LEMMA SlotStepKeepsRows ==
  ASSUME TypeOK, LogShape, Snapshots, NoFalseSuccess, NEW s \in Slots, SlotStep(s)
  PROVE  LogShape' /\ Snapshots' /\ NoFalseSuccess'
<1> USE ConstantsAssumption
<1> DEFINE KeptBy(t) ==
      Working(t)' =>
        /\ Working(t)
        /\ slot'[t].d = slot[t].d
        /\ slot'[t].attempt = slot[t].attempt
        /\ slot'[t].pc = "success" => slot[t].pc = "success" \/ slot'[t].d \in acked'
<1>t. /\ slot \in [Slots -> SlotRecord]
      /\ delivery \in [Deliveries -> [status : DeliveryStatus, attempts : Nat]]
      /\ \A t \in Slots : slot[t].d = NoDelivery => slot[t].pc = "idle"
  BY DEF TypeOK
<1>o. \A t \in Slots : t # s => slot'[t] = slot[t]
  BY SlotFrame
<1>a. \A t \in Slots : t # s => (Working(t)' <=> Working(t)) /\ KeptBy(t)
  BY <1>o DEF Working
<1>k. ASSUME KeptBy(s), UNCHANGED <<delivery, log>>, acked \subseteq acked'
      PROVE  LogShape' /\ Snapshots' /\ NoFalseSuccess'
  <2>1. \A t \in Slots : KeptBy(t) BY <1>a, <1>k
  <2> QED BY <1>k, <2>1, RowsKept
<1>0. ASSUME CompleteJob(s) \/ FailJob(s) PROVE ~Working(s)'
  BY <1>0, <1>t, JobEnds DEF IdleSlot, Working
<1>g. ASSUME NEW pc, Goto(s, pc)
      PROVE  slot'[s].pc = pc /\ slot'[s].d = slot[s].d /\ slot'[s].attempt = slot[s].attempt
  BY <1>g, <1>t DEF Goto, SlotRecord
<1>1. CASE FindDelivery(s)
  <2>1. CASE delivery[slot[s].d].status = "PENDING"
    <3> DEFINE d == slot[s].d
               n == delivery[d].attempts + 1
    <3>1. /\ d \in Deliveries /\ ~Working(s)
          /\ delivery[d].attempts \in Nat
      BY <1>1, <1>t DEF FindDelivery, SlotRecord, Working
    <3>2. slot'[s].pc = "load" /\ slot'[s].d = d /\ slot'[s].attempt = n
      <4>1. slot' = [slot EXCEPT ![s] = [slot[s] EXCEPT !.pc = "load", !.attempt = n]]
        BY <1>1, <2>1 DEF FindDelivery
      <4> QED BY <4>1, <1>t, Zenon DEF SlotRecord
    <3>3. UNCHANGED <<delivery, log, acked>>
      BY <1>1 DEF FindDelivery, rows
    <3>4. LogShape' /\ NoFalseSuccess'
      BY <3>3 DEF LogShape, WellLogged, NoFalseSuccess
    <3>5. /\ delivery[d].attempts < MAX_RETRIES_PER_JOB
          /\ \A k \in AttemptNumbers : log[d][k] # "SUCCESS"
      BY <2>1, <3>1 DEF LogShape, WellLogged
    <3>6. n \in AttemptNumbers
      BY <3>1, <3>5 DEF AttemptNumbers
    <3>7. Snapshots'
      <4> SUFFICES ASSUME NEW t \in Slots, Working(t)'
                   PROVE  (/\ slot[t].d \in Deliveries
                           /\ slot[t].attempt \in AttemptNumbers
                           /\ RowExists(slot[t].d) =>
                                SnapshotIsCurrent(slot[t].d, slot[t].attempt)
                           /\ slot[t].pc = "success" => slot[t].d \in acked)'
        BY DEF Snapshots
      <4>1. CASE t = s
        <5>1. slot'[t].d = d /\ slot'[t].attempt = n /\ slot'[t].pc = "load"
          BY <3>2, <4>1
        <5>2. SnapshotIsCurrent(slot[t].d, slot[t].attempt)'
          <6>1. n <= delivery'[d].attempts + 1 BY <3>1, <3>3
          <6>2. \A k \in AttemptNumbers : log'[d][k] # "SUCCESS" BY <3>3, <3>5
          <6> QED BY <5>1, <6>1, <6>2 DEF SnapshotIsCurrent
        <5> QED BY <3>1, <3>6, <5>1, <5>2
      <4>2. CASE t # s
        <5>1. Working(t) /\ slot'[t] = slot[t]
          BY <1>a, <1>o, <4>2
        <5> QED BY <3>3, <5>1 DEF Snapshots, RowExists, SnapshotIsCurrent
      <4> QED BY <4>1, <4>2
    <3> QED BY <3>4, <3>7
  <2>2. CASE delivery[slot[s].d].status # "PENDING"
    BY <1>0, <1>1, <1>k, <2>2 DEF FindDelivery, rows
  <2> QED BY <2>1, <2>2
<1>2. CASE LoadDestination(s)
  <2>0. UNCHANGED <<delivery, log, acked>> /\ Working(s)
    BY <1>2 DEF LoadDestination, rows, Working
  <2>1. dest[slot[s].d[2]] \in DestinationRow
    <3>1. slot[s].d \in Deliveries
      BY <1>2, <1>t DEF LoadDestination, SlotRecord
    <3> QED BY <3>1 DEF Deliveries, TypeOK
  <2>2. CASE dest[slot[s].d[2]].status = "DELETED"
    BY <1>0, <1>2, <1>k, <2>0, <2>2 DEF LoadDestination
  <2>3. CASE dest[slot[s].d[2]].status = "PAUSED"
    <3>1. Goto(s, "park") BY <1>2, <2>3 DEF LoadDestination
    <3> QED BY <1>g, <1>k, <2>0, <3>1
  <2>4. CASE dest[slot[s].d[2]].status = "ACTIVE"
    <3> DEFINE f == dest[slot[s].d[2]].failures
    <3>1. slot' = [slot EXCEPT ![s] = [slot[s] EXCEPT !.pc = "sign", !.failures = f]]
      BY <1>2, <2>4 DEF LoadDestination
    <3>2. /\ slot'[s].pc = "sign" /\ slot'[s].d = slot[s].d
          /\ slot'[s].attempt = slot[s].attempt
      BY <3>1, <1>t, Zenon DEF SlotRecord
    <3> QED BY <1>k, <2>0, <3>2
  <2> QED BY <2>1, <2>2, <2>3, <2>4 DEF DestinationRow
<1>3. CASE Park(s)
  <2>1. CASE ~RowExists(slot[s].d)
    BY <1>0, <1>3, <1>k, <2>1 DEF Park
  <2>2. CASE RowExists(slot[s].d)
    <3>1. /\ UNCHANGED <<log, acked>>
          /\ delivery' = [delivery EXCEPT ![slot[s].d].status = "PAUSED"]
          /\ CompleteJob(s)
      BY <1>3, <2>2 DEF Park
    <3>2. \A d \in Deliveries :
            /\ delivery'[d].attempts = delivery[d].attempts
            /\ delivery'[d].status = delivery[d].status
                 \/ (RowExists(d) /\ delivery'[d].status = "PAUSED")
      BY <1>t, <2>2, <3>1
    <3>3. LogShape'
      <4> SUFFICES ASSUME NEW e \in Deliveries PROVE WellLogged(e)'
        BY DEF LogShape
      <4>1. CASE delivery'[e].status = delivery[e].status
        BY <3>1, <3>2, <4>1 DEF LogShape, WellLogged
      <4>2. CASE delivery'[e].status = "PAUSED"
        BY <3>1, <3>2, <4>2 DEF LogShape, WellLogged
      <4> QED BY <3>2, <4>1, <4>2
    <3>4. NoFalseSuccess'
      BY <3>1, <3>2 DEF NoFalseSuccess
    <3>5. Snapshots'
      <4> SUFFICES ASSUME NEW t \in Slots, Working(t)'
                   PROVE  (/\ slot[t].d \in Deliveries
                           /\ slot[t].attempt \in AttemptNumbers
                           /\ RowExists(slot[t].d) =>
                                SnapshotIsCurrent(slot[t].d, slot[t].attempt)
                           /\ slot[t].pc = "success" => slot[t].d \in acked)'
        BY DEF Snapshots
      <4>1. Working(t) /\ slot'[t] = slot[t]
        BY <1>0, <1>a, <1>o, <3>1
      <4> QED BY <3>1, <3>2, <4>1 DEF Snapshots, RowExists, SnapshotIsCurrent
    <3> QED BY <3>3, <3>4, <3>5
  <2> QED BY <2>1, <2>2
<1>4. CASE Sign(s)
  BY <1>4, <1>g, <1>k DEF Sign, rows, Working
<1>5. CASE SignFails(s)
  BY <1>0, <1>5, <1>k DEF SignFails, rows
<1>6. ASSUME NEW b \in BOOLEAN, Post(s, b)
      PROVE  LogShape' /\ Snapshots' /\ NoFalseSuccess'
  <2>1. /\ UNCHANGED <<delivery, log>> /\ acked \subseteq acked' /\ Working(s)
        /\ b => slot[s].d \in acked'
        /\ Goto(s, IF b THEN "success" ELSE "failure")
    BY <1>6 DEF Post, rows, Working
  <2> QED BY <1>g, <1>k, <2>1
<1>7. CASE RecordSuccess(s)
  <2>1. \A t \in Slots : Working(t)' => t # s /\ slot'[t] = slot[t] /\ Working(t)
    BY <1>0, <1>7, <1>a, <1>o DEF RecordSuccess
  <2> QED BY <1>7, <2>1, OutcomeRecorded DEF RecordSuccess, Working
<1>8. CASE SuccessAborts(s)
  BY <1>8, <1>g, <1>k DEF SuccessAborts, rows, Working
<1>9. CASE RecordFailure(s)
  <2>0. PICK pc : Goto(s, pc) /\ pc \in {"breakerIncident", "deadIncident", "requeue"}
    BY <1>9 DEF RecordFailure, AfterBreakerIncident
  <2>1. \A t \in Slots : Working(t)' => t # s /\ slot'[t] = slot[t] /\ Working(t)
    BY <1>g, <1>a, <1>o, <2>0 DEF Working
  <2>2. slot[s].d \in Deliveries
    BY <1>9 DEF Snapshots, RecordFailure, Working
  <2>3. delivery' = [delivery EXCEPT ![slot[s].d] =
                       [status |-> IF Exhausted(s) THEN "DEAD_LETTER"
                                                   ELSE delivery[slot[s].d].status,
                        attempts |-> slot[s].attempt]]
    BY <1>9 DEF RecordFailure
  <2> HIDE DEF KeptBy
  <2> QED BY <1>9, <2>1, <2>3, OutcomeRecorded DEF RecordFailure, Working
<1>10. CASE FailureAborts(s)
  BY <1>0, <1>10, <1>k DEF FailureAborts, rows
<1>11. CASE OpenBreakerIncident(s)
  <2>1. PICK pc : Goto(s, pc) /\ pc \in {"deadIncident", "requeue"}
    BY <1>11 DEF OpenBreakerIncident, AfterBreakerIncident
  <2> QED BY <1>11, <1>g, <1>k, <2>1 DEF OpenBreakerIncident, Working
<1>12. CASE OpenDeadLetterIncident(s)
  BY <1>0, <1>12, <1>k DEF OpenDeadLetterIncident
<1>13. CASE IncidentFails(s)
  BY <1>0, <1>13, <1>k DEF IncidentFails, rows
<1>14. CASE Requeue(s)
  <2>1. ~Working(s)'
    BY <1>14, <1>t DEF Requeue, IdleSlot, Working
  <2> QED BY <1>14, <1>k, <2>1 DEF Requeue, rows
<1> QED
  BY <1>1, <1>2, <1>3, <1>4, <1>5, <1>6, <1>7, <1>8, <1>9, <1>10, <1>11, <1>12, <1>13,
     <1>14 DEF SlotStep

(* A new event creates rows and jobs that nothing has touched before. *)
LEMMA AcceptKeeps ==
  ASSUME IInv, NEW e \in Events, NEW targets \in SUBSET Destinations, Accept(e, targets)
  PROVE  Accounted' /\ LogShape' /\ Snapshots' /\ NoFalseSuccess'
<1> USE ConstantsAssumption
<1>1. /\ e \notin accepted /\ accepted' = accepted \cup {e}
      /\ UNCHANGED <<log, slot, acked>>
  BY DEF Accept
<1>2. \A d \in Deliveries :
        \/ /\ delivery'[d] = delivery[d] /\ job'[d] = job[d]
        \/ /\ d[1] = e
           /\ delivery'[d] = [status |-> "PENDING", attempts |-> 0]
  BY DEF Accept, Deliveries
<1>3. Accounted'
  BY <1>1, <1>2 DEF Accounted, IInv
<1>4. \A d \in Deliveries : d[1] = e =>
        /\ delivery[d].status = "ABSENT" /\ delivery[d].attempts = 0
        /\ \A k \in AttemptNumbers : log[d][k] = "none"
  BY <1>1 DEF IInv, Accounted, LogShape, WellLogged, AttemptNumbers
<1>5. LogShape'
  <2> SUFFICES ASSUME NEW d \in Deliveries PROVE WellLogged(d)'
    BY DEF LogShape
  <2>1. CASE delivery'[d] = delivery[d]
    BY <1>1, <2>1 DEF IInv, LogShape, WellLogged
  <2>2. CASE d[1] = e /\ delivery'[d] = [status |-> "PENDING", attempts |-> 0]
    <3>1. /\ delivery'[d].status = "PENDING" /\ delivery'[d].attempts = 0
          /\ \A k \in AttemptNumbers : log'[d][k] = "none" /\ k > 0 /\ ~(k < 0)
      BY <1>1, <1>4, <2>2 DEF AttemptNumbers
    <3> QED BY <3>1 DEF WellLogged
  <2> QED BY <1>2, <2>1, <2>2
<1>6. Snapshots'
  <2> SUFFICES ASSUME NEW t \in Slots, Working(t)'
               PROVE  (/\ slot[t].d \in Deliveries
                       /\ slot[t].attempt \in AttemptNumbers
                       /\ RowExists(slot[t].d) =>
                            SnapshotIsCurrent(slot[t].d, slot[t].attempt)
                       /\ slot[t].pc = "success" => slot[t].d \in acked)'
    BY DEF Snapshots
  <2>1. Working(t) /\ slot'[t] = slot[t]
    BY <1>1 DEF Working
  <2>2. slot[t].d \in Deliveries
    BY <2>1 DEF IInv, Snapshots
  <2>3. slot[t].d[1] # e
    <3>1. slot[t].d # NoDelivery
      BY <2>2 DEF Deliveries
    <3> QED BY <1>1, <3>1 DEF IInv, Accounted
  <2>4. delivery'[slot[t].d] = delivery[slot[t].d]
    BY <1>2, <2>2, <2>3
  <2> QED BY <1>1, <2>1, <2>4 DEF IInv, Snapshots, RowExists, SnapshotIsCurrent
<1>7. NoFalseSuccess'
  BY <1>1, <1>2 DEF IInv, NoFalseSuccess
<1> QED BY <1>3, <1>5, <1>6, <1>7

(* A deletion takes the rows of a destination with their logs. *)
LEMMA DeletionKeeps ==
  ASSUME IInv, NEW c \in Destinations, DeleteDestination(c)
  PROVE  Accounted' /\ LogShape' /\ Snapshots' /\ NoFalseSuccess'
<1> USE ConstantsAssumption
<1>1. UNCHANGED <<accepted, job, slot, acked>>
  BY DEF DeleteDestination
<1>2. \A d \in Deliveries :
        \/ delivery'[d] = delivery[d] /\ log'[d] = log[d]
        \/ /\ RowExists(d)
           /\ delivery'[d] = [status |-> "DELETED", attempts |-> 0]
           /\ log'[d] = NoLog
  BY DEF DeleteDestination
<1>3. Accounted'
  BY <1>1, <1>2 DEF IInv, Accounted, RowExists
<1>4. LogShape'
  <2> SUFFICES ASSUME NEW d \in Deliveries PROVE WellLogged(d)'
    BY DEF LogShape
  <2>1. CASE delivery'[d] = delivery[d] /\ log'[d] = log[d]
    BY <2>1 DEF IInv, LogShape, WellLogged
  <2>2. CASE delivery'[d] = [status |-> "DELETED", attempts |-> 0] /\ log'[d] = NoLog
    <3>1. /\ delivery'[d].status = "DELETED" /\ delivery'[d].attempts = 0
          /\ \A k \in AttemptNumbers : log'[d][k] = "none" /\ k > 0 /\ ~(k < 0)
      BY <2>2 DEF NoLog, AttemptNumbers
    <3> QED BY <3>1 DEF WellLogged
  <2> QED BY <1>2, <2>1, <2>2
<1>5. Snapshots'
  <2> SUFFICES ASSUME NEW t \in Slots, Working(t)'
               PROVE  (/\ slot[t].d \in Deliveries
                       /\ slot[t].attempt \in AttemptNumbers
                       /\ RowExists(slot[t].d) =>
                            SnapshotIsCurrent(slot[t].d, slot[t].attempt)
                       /\ slot[t].pc = "success" => slot[t].d \in acked)'
    BY DEF Snapshots
  <2>1. Working(t) /\ slot'[t] = slot[t]
    BY <1>1 DEF Working
  <2>2. slot[t].d \in Deliveries
    BY <2>1 DEF IInv, Snapshots
  <2> QED BY <1>1, <1>2, <2>1, <2>2 DEF IInv, Snapshots, RowExists, SnapshotIsCurrent
<1>6. NoFalseSuccess'
  BY <1>1, <1>2 DEF IInv, NoFalseSuccess
<1> QED BY <1>3, <1>4, <1>5, <1>6

(* A step that touches neither rows nor slots, and no job that is not there  *)
(* yet, keeps everything.                                                   *)
LEMMA OtherKeeps ==
  ASSUME IInv, UNCHANGED <<accepted, delivery, log, acked>>,
         \A t \in Slots :
           slot'[t] = slot[t] \/ (slot'[t].pc \in {"idle", "find"}
                                  /\ (slot'[t].d = NoDelivery \/ slot'[t].d[1] \in accepted)),
         \A d \in Deliveries : job[d].state = "none" => job'[d].state = "none"
  PROVE  Accounted' /\ LogShape' /\ Snapshots' /\ NoFalseSuccess'
<1>1. Accounted'
  BY DEF IInv, Accounted
<1>2. LogShape' /\ Snapshots' /\ NoFalseSuccess'
  <2>1. \A t \in Slots : Working(t)' => Working(t) /\ slot'[t] = slot[t]
    BY DEF Working
  <2> QED BY <2>1, RowsKept DEF IInv
<1> QED BY <1>1, <1>2

(* The inductive invariant holds: the log of every delivery is a run of      *)
(* failures ended by at most one success, the counter is its length, the    *)
(* status agrees with it, and no slot is more than one attempt ahead.       *)
THEOREM Invariant == Spec => []IInv
<1> USE ConstantsAssumption
<1>1. Init => IInv
  <2> SUFFICES ASSUME Init PROVE IInv
    OBVIOUS
  <2>1. TypeOK
    BY DEF Init, TypeOK, DestinationRow, DeliveryStatus, JobRecord, SlotRecord, WorkerPc,
           IdleSlot, NewJob, NoLog, AttemptNumbers
  <2>2. Accounted /\ Snapshots /\ NoFalseSuccess
    BY DEF Init, Accounted, Snapshots, NoFalseSuccess, Working, IdleSlot, NewJob
  <2>3. LogShape
    BY DEF Init, LogShape, WellLogged, NoLog, AttemptNumbers
  <2> QED BY <2>1, <2>2, <2>3 DEF IInv
<1>2. IInv /\ TypeOK' /\ [Next]_vars => IInv'
  <2> SUFFICES ASSUME IInv, [Next]_vars
               PROVE  Accounted' /\ LogShape' /\ Snapshots' /\ NoFalseSuccess'
    BY DEF IInv
  <2>t. /\ job \in [Deliveries -> JobRecord]
        /\ slot \in [Slots -> SlotRecord]
    BY DEF IInv, TypeOK
  <2>1. ASSUME NEW e \in Events, AcceptForAll(e) PROVE Accounted' /\ LogShape' /\ Snapshots' /\ NoFalseSuccess'
    BY <2>1, AcceptKeeps DEF AcceptForAll
  <2>2. ASSUME NEW e \in Events, NEW c \in Destinations, AcceptForOne(e, c)
        PROVE  Accounted' /\ LogShape' /\ Snapshots' /\ NoFalseSuccess'
    BY <2>2, AcceptKeeps DEF AcceptForOne
  <2>3. ASSUME NEW d \in Deliveries,
               Enqueue(d) \/ EnqueueLost(d) \/ DetectStalled(d) \/ LoseLock(d)
        PROVE  Accounted' /\ LogShape' /\ Snapshots' /\ NoFalseSuccess'
    <3>1. UNCHANGED <<accepted, delivery, log, acked, slot>>
      BY <2>3 DEF Enqueue, EnqueueLost, DetectStalled, LoseLock, rows
    <3>2. \A g \in Deliveries : job[g].state = "none" => job'[g].state = "none"
      BY <2>3, <2>t DEF Enqueue, EnqueueLost, DetectStalled, LoseLock, Stalled
    <3> QED BY <3>1, <3>2, OtherKeeps
  <2>4. ASSUME NEW s \in Slots, NEW d \in Deliveries, Fetch(s, d)
        PROVE  Accounted' /\ LogShape' /\ Snapshots' /\ NoFalseSuccess'
    <3>1. UNCHANGED <<accepted, delivery, log, acked>>
      BY <2>4 DEF Fetch, rows
    <3>2. \A g \in Deliveries : job[g].state = "none" => job'[g].state = "none"
      BY <2>4, <2>t DEF Fetch
    <3>3. d[1] \in accepted
      BY <2>4 DEF Fetch, IInv, Accounted
    <3>4. \A t \in Slots :
            slot'[t] = slot[t] \/ (slot'[t].pc = "find" /\ slot'[t].d = d)
      BY <2>4, <2>t DEF Fetch, IdleSlot
    <3> QED BY <3>1, <3>2, <3>3, <3>4, OtherKeeps
  <2>5. ASSUME NEW S \in SUBSET Slots, Crash(S)
        PROVE  Accounted' /\ LogShape' /\ Snapshots' /\ NoFalseSuccess'
    <3>1. UNCHANGED <<accepted, delivery, log, acked>>
      BY <2>5 DEF Crash, rows
    <3>2. \A g \in Deliveries : job[g].state = "none" => job'[g].state = "none"
      <4>1. \A g \in Deliveries : job'[g] = job[g] \/ job'[g] = [job[g] EXCEPT !.owner = NoSlot]
        BY <2>5 DEF Crash
      <4>2. \A g \in Deliveries : [job[g] EXCEPT !.owner = NoSlot].state = job[g].state
        BY <2>t DEF JobRecord
      <4> QED BY <4>1, <4>2
    <3>3. \A t \in Slots : slot'[t] = slot[t] \/ slot'[t] = IdleSlot
      BY <2>5 DEF Crash
    <3> QED BY <3>1, <3>2, <3>3, OtherKeeps DEF IdleSlot
  <2>6. ASSUME NEW c \in Destinations, AdminStep(c)
        PROVE  Accounted' /\ LogShape' /\ Snapshots' /\ NoFalseSuccess'
    <3>1. CASE DeleteDestination(c)
      BY <3>1, DeletionKeeps
    <3>2. CASE RequestPause(c) \/ RequestResume(c) \/ PauseDestination(c) \/ ResumeDestination(c)
      <4>1. UNCHANGED <<accepted, delivery, log, acked, slot, job>>
        BY <3>2 DEF RequestPause, RequestResume, PauseDestination, ResumeDestination, rows
      <4> QED BY <4>1, OtherKeeps
    <3> QED BY <2>6, <3>1, <3>2 DEF AdminStep
  <2>7. ASSUME NEW d \in Deliveries, ReplayDelivery(d)
        PROVE  Accounted' /\ LogShape' /\ Snapshots' /\ NoFalseSuccess'
    <3>1. delivery[d].status # "FAILED"
      BY DEF IInv, LogShape, WellLogged
    <3>2. UNCHANGED <<accepted, delivery, log, acked, slot, job>>
      BY <2>7, <3>1 DEF ReplayDelivery
    <3> QED BY <3>2, OtherKeeps
  <2>8. ASSUME NEW s \in Slots, SlotStep(s)
        PROVE  Accounted' /\ LogShape' /\ Snapshots' /\ NoFalseSuccess'
    <3>1. Accounted'
      <4>1. \A t \in Slots : slot'[t].d \in {slot[t].d, NoDelivery}
        BY <2>8, SlotFrame DEF IInv
      <4> QED BY <2>8, <4>1, SlotFrame DEF IInv, Accounted
    <3>2. LogShape' /\ Snapshots' /\ NoFalseSuccess'
      BY <2>8, SlotStepKeepsRows DEF IInv
    <3> QED BY <3>1, <3>2
  <2>9. CASE UNCHANGED vars
    BY <2>9, OtherKeeps DEF vars, rows
  <2> QED
    BY <2>1, <2>2, <2>3, <2>4, <2>5, <2>6, <2>7, <2>8, <2>9 DEF Next
<1> QED BY <1>1, <1>2, TypeCorrect, PTL DEF Spec

-----------------------------------------------------------------------------
(* What the inductive invariant gives. *)

(* The logged attempts of a delivery are exactly 1..attempts. *)
THEOREM LogMatchesCounterAlways == Spec => []LogMatchesCounter
<1>1. IInv => LogMatchesCounter
  <2> SUFFICES ASSUME IInv, NEW d \in Deliveries PROVE Tries(d) = 1..delivery[d].attempts
    BY DEF LogMatchesCounter
  <2>1. /\ delivery[d].attempts \in 0..MAX_RETRIES_PER_JOB
        /\ \A n \in AttemptNumbers : n > delivery[d].attempts <=> log[d][n] = "none"
    BY DEF IInv, LogShape, WellLogged
  <2> QED BY <2>1, ConstantsAssumption DEF Tries, AttemptNumbers
<1> QED BY <1>1, Invariant, PTL

(* A SUCCESS attempt is the last of its delivery, and a delivery still to be *)
(* tried has only failures behind it and attempts left.                     *)
THEOREM SuccessIsLastAlways == Spec => []SuccessIsLast
<1>1. IInv => SuccessIsLast
  <2> SUFFICES ASSUME IInv, NEW d \in Deliveries
      PROVE  /\ \A n \in Tries(d) : log[d][n] = "SUCCESS" => n = delivery[d].attempts
             /\ delivery[d].status = "SUCCESS" => log[d][delivery[d].attempts] = "SUCCESS"
             /\ delivery[d].status = "PENDING" =>
                  /\ delivery[d].attempts < MAX_RETRIES_PER_JOB
                  /\ \A n \in Tries(d) : log[d][n] = "FAILED"
    BY DEF SuccessIsLast
  <2>1. \A n \in AttemptNumbers : log[d][n] \in {"none", "SUCCESS", "FAILED"}
    BY DEF IInv, TypeOK
  <2>2. WellLogged(d)
    BY DEF IInv, LogShape
  <2>3. \A n \in Tries(d) : log[d][n] = "SUCCESS" => n = delivery[d].attempts
    BY <2>2, ConstantsAssumption DEF WellLogged, Tries, AttemptNumbers
  <2> QED BY <2>1, <2>2, <2>3 DEF WellLogged, Tries
<1> QED BY <1>1, Invariant, PTL

(* Only a whole budget of logged failures dead-letters a delivery. *)
THEOREM DeadLetterIsExhaustedAlways == Spec => []DeadLetterIsExhausted
<1>1. IInv => DeadLetterIsExhausted
  BY DEF IInv, LogShape, WellLogged, DeadLetterIsExhausted
<1> QED BY <1>1, Invariant, PTL

(* A delivery is reported delivered only if one of its POSTs was answered    *)
(* below 500.                                                               *)
THEOREM NoFalseSuccessAlways == Spec => []NoFalseSuccess
<1>1. IInv => NoFalseSuccess
  BY DEF IInv
<1> QED BY <1>1, Invariant, PTL

-----------------------------------------------------------------------------
(* What a step does to the rows, and the contract. *)

Created(D) ==
  /\ \A d \in D : delivery[d].status = "ABSENT"
  /\ delivery' = [d \in Deliveries |->
                    IF d \in D THEN [status |-> "PENDING", attempts |-> 0] ELSE delivery[d]]
  /\ UNCHANGED log

Removed(D) ==
  /\ \A d \in D : RowExists(d)
  /\ delivery' = [d \in Deliveries |->
                    IF d \in D THEN [status |-> "DELETED", attempts |-> 0] ELSE delivery[d]]
  /\ log' = [d \in Deliveries |-> IF d \in D THEN NoLog ELSE log[d]]

Parked(d) ==
  /\ RowExists(d)
  /\ delivery' = [delivery EXCEPT ![d].status = "PAUSED"]
  /\ UNCHANGED log

(* Every step of the pipeline leaves the rows alone, creates rows nobody has *)
(* touched, removes rows, sets one aside, or records the next outcome.       *)
LEMMA RowSteps ==
  ASSUME IInv, [Next]_vars
  PROVE  \/ UNCHANGED <<delivery, log>>
         \/ \E D \in SUBSET Deliveries : Created(D) \/ Removed(D)
         \/ \E d \in Deliveries : Parked(d)
         \/ \E s \in Slots : RecordSuccess(s) \/ RecordFailure(s)
<1> DEFINE Goal == \/ UNCHANGED <<delivery, log>>
                   \/ \E D \in SUBSET Deliveries : Created(D) \/ Removed(D)
                   \/ \E d \in Deliveries : Parked(d)
                   \/ \E s \in Slots : RecordSuccess(s) \/ RecordFailure(s)
<1>1. ASSUME NEW e \in Events, NEW targets \in SUBSET Destinations, Accept(e, targets)
      PROVE  Goal
  <2> DEFINE D == {<<e, c>> : c \in targets}
  <2>1. D \in SUBSET Deliveries BY DEF Deliveries
  <2>2. \A d \in D : delivery[d].status = "ABSENT"
    BY <1>1, <2>1 DEF Accept, IInv, Accounted
  <2>3. Created(D) BY <1>1, <2>2 DEF Accept, Created
  <2> QED BY <2>1, <2>3
<1>2. ASSUME NEW d \in Deliveries,
             Enqueue(d) \/ EnqueueLost(d) \/ DetectStalled(d) \/ LoseLock(d)
      PROVE  Goal
  BY <1>2 DEF Enqueue, EnqueueLost, DetectStalled, LoseLock, rows
<1>3. ASSUME NEW d \in Deliveries, ReplayDelivery(d) PROVE Goal
  <2>1. delivery[d].status # "FAILED" BY DEF IInv, LogShape, WellLogged
  <2> QED BY <1>3, <2>1 DEF ReplayDelivery
<1>4. ASSUME NEW s \in Slots, NEW d \in Deliveries, Fetch(s, d) PROVE Goal
  BY <1>4 DEF Fetch, rows
<1>5. ASSUME NEW S \in SUBSET Slots, Crash(S) PROVE Goal
  BY <1>5 DEF Crash, rows
<1>6. ASSUME NEW c \in Destinations, AdminStep(c) PROVE Goal
  <2>1. CASE DeleteDestination(c)
    <3> DEFINE D == {d \in Deliveries : d[2] = c /\ RowExists(d)}
    <3>1. Removed(D) BY <2>1 DEF DeleteDestination, Removed
    <3> QED BY <3>1
  <2> QED BY <1>6, <2>1
          DEF AdminStep, RequestPause, RequestResume, PauseDestination, ResumeDestination, rows
<1>7. ASSUME NEW s \in Slots, SlotStep(s) PROVE Goal
  <2>1. CASE Park(s)
    <3>1. CASE RowExists(slot[s].d)
      <4>1. slot[s].d \in Deliveries
        BY <2>1 DEF Park, IInv, Snapshots, Working
      <4>2. Parked(slot[s].d) BY <2>1, <3>1 DEF Park, Parked
      <4> QED BY <4>1, <4>2
    <3> QED BY <2>1, <3>1 DEF Park
  <2> QED
    BY <1>7, <2>1
    DEF SlotStep, FindDelivery, LoadDestination, Sign, SignFails, Post, SuccessAborts,
        FailureAborts, OpenBreakerIncident, OpenDeadLetterIncident, IncidentFails, Requeue, rows
<1>8. CASE UNCHANGED vars BY <1>8 DEF vars
<1> QED
  <2>1. ASSUME NEW e \in Events, AcceptForAll(e) PROVE Goal
    BY <2>1, <1>1 DEF AcceptForAll
  <2>2. ASSUME NEW e \in Events, NEW c \in Destinations, AcceptForOne(e, c) PROVE Goal
    BY <2>2, <1>1 DEF AcceptForOne
  <2> QED BY <1>2, <1>3, <1>4, <1>5, <1>6, <1>7, <1>8, <2>1, <2>2 DEF Next

(* A settled delivery never goes back to the queue nor to the other outcome. *)
THEOREM SettledStaysAlways == Spec => SettledStays
<1>1. ASSUME IInv, [Next]_vars
      PROVE  \A d \in Deliveries : delivery[d].status \in {"SUCCESS", "DEAD_LETTER"} =>
               delivery'[d].status \in {delivery[d].status, "PAUSED", "DELETED"}
  <2> SUFFICES ASSUME NEW d \in Deliveries, delivery[d].status \in {"SUCCESS", "DEAD_LETTER"}
               PROVE  delivery'[d].status \in {delivery[d].status, "PAUSED", "DELETED"}
    OBVIOUS
  <2>t. delivery \in [Deliveries -> [status : DeliveryStatus, attempts : Nat]]
    BY <1>1 DEF IInv, TypeOK
  <2>1. CASE UNCHANGED <<delivery, log>> BY <2>1
  <2>2. ASSUME NEW D \in SUBSET Deliveries, Created(D) \/ Removed(D)
        PROVE  delivery'[d].status \in {delivery[d].status, "PAUSED", "DELETED"}
    BY <2>2 DEF Created, Removed
  <2>3. ASSUME NEW e \in Deliveries, Parked(e)
        PROVE  delivery'[d].status \in {delivery[d].status, "PAUSED", "DELETED"}
    BY <2>t, <2>3 DEF Parked
  <2>4. ASSUME NEW s \in Slots, RecordSuccess(s) \/ RecordFailure(s)
        PROVE  delivery'[d].status \in {delivery[d].status, "PAUSED", "DELETED"}
    <3>1. Working(s) /\ Recordable(s)
      BY <2>4 DEF RecordSuccess, RecordFailure, Working
    <3>2. slot[s].d # d
      BY <1>1, <3>1, RecordableIsNext DEF IInv
    <3> QED BY <2>t, <2>4, <3>2 DEF RecordSuccess, RecordFailure
  <2> QED BY <1>1, <2>1, <2>2, <2>3, <2>4, RowSteps
<1>2. IInv /\ [Next]_vars =>
        [\A d \in Deliveries : delivery[d].status \in {"SUCCESS", "DEAD_LETTER"} =>
           delivery'[d].status \in {delivery[d].status, "PAUSED", "DELETED"}]_vars
  BY <1>1
<1> QED BY <1>2, Invariant, PTL DEF Spec, SettledStays

(* The logged attempts, read as a sequence: its length, and how it grows.    *)
LEMMA LogAsSequence ==
  ASSUME NEW S, NEW m \in Nat, NEW f, \A k \in 1..m : f[k] \in S
  PROVE  /\ [k \in 1..m |-> f[k]] \in Seq(S)
         /\ Len([k \in 1..m |-> f[k]]) = m
<1> DEFINE q == [k \in 1..m |-> f[k]]
<1>1. q \in [1..m -> S] /\ DOMAIN q = 1..m
  OBVIOUS
<1>2. q \in Seq(S)
  BY <1>1, SeqDef
<1> HIDE DEF q
<1>3. Len(q) \in Nat /\ DOMAIN q = 1..Len(q)
  BY <1>2, LenProperties
<1>4. Len(q) = m
  BY <1>1, <1>3
<1> QED BY <1>2, <1>4 DEF q

LEMMA LogGrows ==
  ASSUME NEW S, NEW m \in Nat, NEW f, NEW g, \A k \in 1..m : f[k] \in S /\ g[k] = f[k],
         g[m + 1] \in S
  PROVE  [k \in 1..(m + 1) |-> g[k]] = Append([k \in 1..m |-> f[k]], g[m + 1])
<1> DEFINE q == [k \in 1..m |-> f[k]]
           r == [k \in 1..(m + 1) |-> g[k]]
           a == Append(q, g[m + 1])
<1>1. q \in Seq(S) /\ Len(q) = m
  BY LogAsSequence
<1>2. m + 1 \in Nat /\ \A k \in 1..(m + 1) : g[k] \in S
  <2>1. \A k \in 1..(m + 1) : k \in 1..m \/ k = m + 1 OBVIOUS
  <2> QED BY <2>1
<1>3. r \in Seq(S) /\ Len(r) = m + 1
  BY <1>2, LogAsSequence
<1>4. /\ a \in Seq(S) /\ Len(a) = m + 1
      /\ \A k \in 1..m : a[k] = q[k]
      /\ a[m + 1] = g[m + 1]
  <2> HIDE DEF q
  <2> QED BY <1>1, AppendProperties
<1>5. \A k \in 1..Len(r) : r[k] = a[k]
  <2> SUFFICES ASSUME NEW k \in 1..(m + 1) PROVE r[k] = a[k]
    BY <1>3
  <2>1. r[k] = g[k] OBVIOUS
  <2>2. CASE k \in 1..m
    <3>1. q[k] = f[k] BY <2>2
    <3> HIDE DEF q, r, a
    <3> QED BY <1>4, <2>1, <2>2, <3>1
  <2>3. CASE k = m + 1
    <3> HIDE DEF q, r, a
    <3> QED BY <1>4, <2>1, <2>3
  <2> QED BY <2>2, <2>3
<1> HIDE DEF r, a
<1>6. r = a
  BY <1>3, <1>4, <1>5, SeqEqual
<1> QED BY <1>6 DEF r, a, q

(* The pipeline implements its contract: whatever the queue and the slots do,*)
(* each delivery is tried in order, at most MAX_RETRIES_PER_JOB times, never *)
(* after a success, and its status is the outcome logged.                    *)
THEOREM PipelineImplementsContract == Spec => ImplementsContract
<1> USE ConstantsAssumption
<1> DEFINE status == [d \in Deliveries |-> delivery[d].status]
           tries == [d \in Deliveries |-> [n \in 1..delivery[d].attempts |-> log[d][n]]]
<1>1. Init => Contract!Init
  <2> SUFFICES ASSUME Init PROVE Contract!Init
    OBVIOUS
  <2>1. status = [d \in Deliveries |-> "ABSENT"]
    BY DEF Init
  <2>2. tries = [d \in Deliveries |-> <<>>]
    <3>1. \A d \in Deliveries : [n \in 1..delivery[d].attempts |-> log[d][n]] = <<>>
      BY DEF Init
    <3> QED BY <3>1
  <2> QED BY <2>1, <2>2 DEF Contract!Init
<1>2. IInv /\ [Next]_vars => [Contract!Next]_<<status, tries>>
  <2> SUFFICES ASSUME IInv, [Next]_vars PROVE Contract!Next \/ UNCHANGED <<status, tries>>
    OBVIOUS
  <2>t. /\ delivery \in [Deliveries -> [status : DeliveryStatus, attempts : Nat]]
        /\ log \in [Deliveries -> [AttemptNumbers -> {"none", "SUCCESS", "FAILED"}]]
    BY DEF IInv, TypeOK
  <2>n. ASSUME NEW e \in Deliveries, Contract!Succeed(e) \/ Contract!Fail(e)
        PROVE  Contract!Next
    BY <2>n DEF Contract!Next
  <2>1. CASE UNCHANGED <<delivery, log>>
    BY <2>1
  <2>2. ASSUME NEW D \in SUBSET Deliveries, Created(D)
        PROVE  Contract!Next \/ UNCHANGED <<status, tries>>
    <3>1. status' = [d \in Deliveries |-> IF d \in D THEN "PENDING" ELSE status[d]]
      BY <2>2 DEF Created
    <3>2. tries' = tries
      <4>1. \A d \in Deliveries : delivery'[d].attempts = delivery[d].attempts
        BY <2>2 DEF Created, IInv, LogShape, WellLogged
      <4> QED BY <2>2, <4>1 DEF Created
    <3>3. CASE D = {}
      BY <3>1, <3>2, <3>3
    <3>4. CASE D # {}
      <4>1. Contract!Create(D)
        BY <2>2, <3>1, <3>2, <3>4 DEF Created, Contract!Create
      <4> QED BY <4>1 DEF Contract!Next
    <3> QED BY <3>3, <3>4
  <2>3. ASSUME NEW D \in SUBSET Deliveries, Removed(D) PROVE Contract!Next
    <3>1. status' = [d \in Deliveries |-> IF d \in D THEN "DELETED" ELSE status[d]]
      BY <2>3 DEF Removed
    <3>2. tries' = [d \in Deliveries |-> IF d \in D THEN <<>> ELSE tries[d]]
      <4>1. \A d \in Deliveries : [n \in 1..delivery'[d].attempts |-> log'[d][n]] =
                                   IF d \in D THEN <<>> ELSE tries[d]
        <5> SUFFICES ASSUME NEW d \in Deliveries
                     PROVE  [n \in 1..delivery'[d].attempts |-> log'[d][n]] =
                                   IF d \in D THEN <<>> ELSE tries[d]
          OBVIOUS
        <5>1. CASE d \in D
          <6>1. delivery'[d].attempts = 0 BY <2>3, <5>1 DEF Removed
          <6> QED BY <5>1, <6>1
        <5>2. CASE d \notin D
          BY <2>3, <5>2 DEF Removed
        <5> QED BY <5>1, <5>2
      <4> QED BY <4>1
    <3>3. \A d \in D : Contract!Live(d)
      BY <2>3 DEF Removed, RowExists, Contract!Live
    <3>4. Contract!Remove(D)
      BY <3>1, <3>2, <3>3 DEF Contract!Remove
    <3> QED BY <3>4 DEF Contract!Next
  <2>4. ASSUME NEW d \in Deliveries, Parked(d) PROVE Contract!Next
    <3>1. status' = [status EXCEPT ![d] = "PAUSED"]
      BY <2>t, <2>4 DEF Parked
    <3>2. tries' = tries
      <4>1. \A e \in Deliveries : delivery'[e].attempts = delivery[e].attempts
        BY <2>t, <2>4 DEF Parked
      <4> QED BY <2>4, <4>1 DEF Parked
    <3>3. Contract!SetAside(d)
      BY <2>4, <3>1, <3>2 DEF Parked, RowExists, Contract!SetAside, Contract!Live
    <3> QED BY <3>3 DEF Contract!Next
  <2>5. ASSUME NEW s \in Slots, RecordSuccess(s) \/ RecordFailure(s) PROVE Contract!Next
    <3>1. Working(s) /\ Recordable(s)
      BY <2>5 DEF RecordSuccess, RecordFailure, Working
    <3>0. PICK d \in Deliveries : d = slot[s].d
      BY <3>1, RecordableIsNext DEF IInv
    <3> DEFINE n == slot[s].attempt
    <3>2. /\ d \in Deliveries /\ n \in AttemptNumbers
          /\ n = delivery[d].attempts + 1 /\ delivery[d].attempts \in Nat
          /\ \A k \in AttemptNumbers : k < n => log[d][k] = "FAILED"
          /\ delivery[d].status \in {"PENDING", "PAUSED"}
      BY <3>0, <3>1, RecordableIsNext DEF IInv
    <3>3. Len(tries[d]) = delivery[d].attempts
      <4>1. \A k \in 1..delivery[d].attempts : log[d][k] \in {"none", "SUCCESS", "FAILED"}
        BY <2>t, <3>2 DEF AttemptNumbers
      <4>2. Len([k \in 1..delivery[d].attempts |-> log[d][k]]) = delivery[d].attempts
        BY <3>2, <4>1, LogAsSequence
      <4> QED BY <3>2, <4>2
    <3>4. Contract!Unsettled(d)
      <4>1. Len(tries[d]) < MAX_RETRIES_PER_JOB
        BY <3>2, <3>3 DEF AttemptNumbers
      <4>2. \A k \in 1..Len(tries[d]) : tries[d][k] = "FAILED"
        BY <3>2, <3>3 DEF AttemptNumbers
      <4> QED BY <3>2, <4>1, <4>2 DEF Contract!Unsettled, Contract!Live
    <3>5. ASSUME NEW outcome \in {"SUCCESS", "FAILED"}, AppendLog(s, outcome),
                 delivery'[d].attempts = n,
                 \A e \in Deliveries : e # d => delivery'[e] = delivery[e]
          PROVE  tries' = [tries EXCEPT ![d] = Append(tries[d], outcome)]
      <4>1. \A e \in Deliveries : e # d => tries'[e] = tries[e]
        BY <2>t, <3>0, <3>2, <3>5 DEF AppendLog
      <4>2. tries'[d] = Append(tries[d], outcome)
        <5>1. log'[d][n] = outcome /\ \A k \in AttemptNumbers : k # n => log'[d][k] = log[d][k]
          BY <2>t, <3>0, <3>2, <3>5 DEF AppendLog
        <5>2. tries'[d] = [k \in 1..(delivery[d].attempts + 1) |-> log'[d][k]]
          BY <3>2, <3>5
        <5>3. \A k \in 1..delivery[d].attempts :
                log[d][k] \in {"none", "SUCCESS", "FAILED"} /\ log'[d][k] = log[d][k]
          BY <2>t, <3>2, <5>1 DEF AttemptNumbers
        <5>4. log'[d][delivery[d].attempts + 1] = outcome
          BY <3>2, <5>1
        <5>5. [k \in 1..(delivery[d].attempts + 1) |-> log'[d][k]] =
                Append([k \in 1..delivery[d].attempts |-> log[d][k]], outcome)
          BY <3>2, <5>3, <5>4, LogGrows
        <5> QED BY <3>2, <5>2, <5>5
      <4> QED BY <3>2, <4>1, <4>2
    <3>6. CASE RecordSuccess(s)
      <4>1. /\ status' = [status EXCEPT ![d] = "SUCCESS"]
            /\ delivery'[d].attempts = n
            /\ \A e \in Deliveries : e # d => delivery'[e] = delivery[e]
        BY <2>t, <3>0, <3>2, <3>6 DEF RecordSuccess
      <4>2. Contract!Succeed(d)
        <5>1. tries' = [tries EXCEPT ![d] = Append(tries[d], "SUCCESS")]
          BY <3>5, <3>6, <4>1 DEF RecordSuccess
        <5> HIDE DEF status, tries
        <5> QED BY <3>4, <4>1, <5>1 DEF Contract!Succeed, status, tries
      <4> QED BY <2>n, <4>2
    <3>7. CASE RecordFailure(s)
      <4>1. /\ status' = [status EXCEPT ![d] = IF Exhausted(s) THEN "DEAD_LETTER" ELSE status[d]]
            /\ delivery'[d].attempts = n
            /\ \A e \in Deliveries : e # d => delivery'[e] = delivery[e]
        BY <2>t, <3>0, <3>2, <3>7 DEF RecordFailure
      <4>2. Exhausted(s) <=> Len(tries[d]) + 1 = MAX_RETRIES_PER_JOB
        BY <3>2, <3>3 DEF Exhausted, AttemptNumbers
      <4>3. Contract!Fail(d)
        <5>1. tries' = [tries EXCEPT ![d] = Append(tries[d], "FAILED")]
          BY <3>5, <3>7, <4>1 DEF RecordFailure
        <5> QED BY <3>4, <4>1, <4>2, <5>1 DEF Contract!Fail
      <4> QED BY <2>n, <4>3
    <3> QED BY <2>5, <3>6, <3>7
  <2> QED BY <2>1, <2>2, <2>3, <2>4, <2>5, RowSteps
<1> QED BY <1>1, <1>2, Invariant, PTL DEF Spec, ImplementsContract, Contract!Spec

-----------------------------------------------------------------------------
(* What a step of a slot does to its job, its delivery and itself. *)

(* The slot reads the delivery it was given and notes the attempt to make. *)
ReadsRow(s) ==
  /\ slot[s].pc = "find" /\ slot'[s].pc = "load"
  /\ delivery[slot[s].d].status = "PENDING"
  /\ slot'[s].attempt = delivery[slot[s].d].attempts + 1
  /\ UNCHANGED <<rows, posts>>

(* It reads the destination and notes its consecutive failures. *)
ReadsDestination(s) ==
  /\ slot[s].pc = "load" /\ slot'[s].pc = "sign"
  /\ slot'[s].attempt = slot[s].attempt
  /\ slot'[s].failures = dest[slot[s].d[2]].failures
  /\ UNCHANGED <<rows, posts>>

(* It goes on with what it has read. *)
Moves(s) ==
  /\ <<slot[s].pc, slot'[s].pc>> \in
       {<<"load", "park">>, <<"sign", "post">>, <<"success", "failure">>,
        <<"breakerIncident", "deadIncident">>, <<"breakerIncident", "requeue">>}
  /\ slot[s].pc = "breakerIncident" => (slot'[s].pc = "deadIncident" <=> Exhausted(s))
  /\ slot'[s].attempt = slot[s].attempt
  /\ slot'[s].failures = slot[s].failures
  /\ UNCHANGED <<dest, delivery, log, posts>>

Posts(s) ==
  /\ slot[s].pc = "post" /\ slot'[s].pc \in {"success", "failure"}
  /\ slot'[s].attempt = slot[s].attempt
  /\ slot'[s].failures = slot[s].failures
  /\ posts' = [posts EXCEPT ![slot[s].d] = @ + 1]
  /\ UNCHANGED rows

Records(s) ==
  /\ RecordFailure(s)
  /\ slot'[s].pc \in {"breakerIncident", "deadIncident", "requeue"}
  /\ slot'[s].pc = "deadIncident" => Exhausted(s)
  /\ slot'[s].attempt = slot[s].attempt
  /\ posts' = posts

Stays(s) ==
  /\ job' = job
  /\ slot'[s].d = slot[s].d
  /\ ReadsRow(s) \/ ReadsDestination(s) \/ Moves(s) \/ Posts(s) \/ Records(s)

(* The slot is done with the job: the job is left alone, or is no longer     *)
(* active.  Where the delivery is still to be tried, its row is untouched,   *)
(* and an outcome that was not recorded was refused or cost a fault.         *)
Leaves(s) ==
  /\ slot'[s] = IdleSlot
  /\ posts' = posts
  /\ \/ job'[slot[s].d] = job[slot[s].d] /\ ~OwnsJob(s)
     \/ /\ job[slot[s].d].state = "active"
        /\ job'[slot[s].d].state \in {"waiting", "finished"}
        /\ job'[slot[s].d].owner = NoSlot
  /\ delivery'[slot[s].d].status = "PENDING" =>
       /\ delivery'[slot[s].d] = delivery[slot[s].d]
       /\ slot[s].pc = "failure" =>
            faults' = faults + 1 \/ log[slot[s].d][slot[s].attempt] # "none"
       /\ slot[s].pc # "success"

(* A step of a slot is one of these, and touches no other job or delivery. *)
LEMMA SlotEffects ==
  ASSUME TypeOK, NEW s \in Slots, SlotStep(s)
  PROVE  /\ slot[s].d \in Deliveries
         /\ faults' \in {faults, faults + 1}
         /\ \A e \in Deliveries : e # slot[s].d =>
              job'[e] = job[e] /\ delivery'[e] = delivery[e] /\ posts'[e] = posts[e]
         /\ Stays(s) \/ Leaves(s)
<1> DEFINE d == slot[s].d
           Others == \A e \in Deliveries : e # d =>
              job'[e] = job[e] /\ delivery'[e] = delivery[e] /\ posts'[e] = posts[e]
           Goal == /\ faults' \in {faults, faults + 1}
                   /\ Others
                   /\ Stays(s) \/ Leaves(s)
<1>t. /\ slot \in [Slots -> SlotRecord]
      /\ job \in [Deliveries -> JobRecord]
      /\ delivery \in [Deliveries -> [status : DeliveryStatus, attempts : Nat]]
      /\ posts \in [Deliveries -> Nat]
      /\ \A t \in Slots : slot[t].d = NoDelivery => slot[t].pc = "idle"
  BY DEF TypeOK
<1>p. slot[s].pc # "idle"
  BY DEF SlotStep, FindDelivery, LoadDestination, Park, Sign, SignFails, Post,
         RecordSuccess, SuccessAborts, RecordFailure, FailureAborts, OpenBreakerIncident,
         OpenDeadLetterIncident, IncidentFails, Requeue
<1>d. slot[s] \in SlotRecord /\ d \in Deliveries
  BY <1>t, <1>p DEF SlotRecord
<1>j. job[d] \in JobRecord BY <1>t, <1>d
<1>f. \A kind : Fault(kind) => faults' = faults + 1
  BY DEF Fault
<1>c. ASSUME CompleteJob(s) \/ FailJob(s)
      PROVE  /\ slot'[s] = IdleSlot
             /\ \A e \in Deliveries : e # d => job'[e] = job[e]
             /\ \/ job'[d] = job[d] /\ ~OwnsJob(s)
                \/ /\ job[d].state = "active"
                   /\ job'[d].state \in {"waiting", "finished"}
                   /\ job'[d].owner = NoSlot
  <2>1. slot'[s] = IdleSlot BY <1>c, <1>t, JobEnds
  <2>2. CASE ~OwnsJob(s)
    BY <1>c, <2>1, <2>2 DEF CompleteJob, FailJob
  <2>3. CASE OwnsJob(s)
    <3>1. job[d].state = "active" BY <2>3 DEF OwnsJob
    <3>2. PICK st \in {"waiting", "finished"}, k \in Nat :
            job' = [job EXCEPT ![d] = [job[d] EXCEPT !.state = st, !.tries = k, !.owner = NoSlot]]
      <4>1. job[d].tries \in Nat /\ job[d].tries + 1 \in Nat BY <1>j DEF JobRecord
      <4>2. [job[d] EXCEPT !.state = "finished", !.owner = NoSlot] =
              [job[d] EXCEPT !.state = "finished", !.tries = job[d].tries, !.owner = NoSlot]
        BY <1>j DEF JobRecord
      <4> QED BY <1>c, <2>3, <4>1, <4>2 DEF CompleteJob, FailJob
    <3>3. job'[d] = [job[d] EXCEPT !.state = st, !.tries = k, !.owner = NoSlot]
      BY <1>t, <1>d, <3>2
    <3>4. job'[d].state = st /\ job'[d].owner = NoSlot
      BY <1>j, <3>3 DEF JobRecord
    <3>5. \A e \in Deliveries : e # d => job'[e] = job[e]
      BY <1>t, <3>2
    <3> QED BY <2>1, <3>1, <3>4, <3>5
  <2> QED BY <2>2, <2>3
<1>g. ASSUME NEW pc, Goto(s, pc)
      PROVE  /\ slot'[s].pc = pc /\ slot'[s].d = d
             /\ slot'[s].attempt = slot[s].attempt /\ slot'[s].failures = slot[s].failures
  BY <1>g, <1>t DEF Goto, SlotRecord
<1>1. ASSUME FindDelivery(s) PROVE Goal
  <2>1. CASE delivery[d].status = "PENDING"
    <3>1. slot' = [slot EXCEPT ![s] = [slot[s] EXCEPT !.pc = "load",
                                           !.attempt = delivery[d].attempts + 1]]
      BY <1>1, <2>1 DEF FindDelivery
    <3>2. /\ slot'[s].pc = "load" /\ slot'[s].d = d
          /\ slot'[s].attempt = delivery[d].attempts + 1
      BY <3>1, <1>t, Zenon DEF SlotRecord
    <3>3. Stays(s)
      BY <1>1, <2>1, <3>2 DEF FindDelivery, Stays, ReadsRow
    <3> QED BY <1>1, <2>1, <3>3 DEF FindDelivery, rows
  <2>2. CASE delivery[d].status # "PENDING"
    <3>1. Leaves(s)
      BY <1>1, <1>c, <2>2 DEF FindDelivery, Leaves, rows
    <3> QED BY <1>1, <1>c, <2>2, <3>1 DEF FindDelivery, rows
  <2> QED BY <2>1, <2>2
<1>2. ASSUME LoadDestination(s) PROVE Goal
  <2>0. dest[d[2]].status \in {"ACTIVE", "PAUSED", "DELETED"}
    <3>1. d[2] \in Destinations BY <1>d DEF Deliveries
    <3> QED BY <3>1 DEF TypeOK, DestinationRow
  <2>1. CASE dest[d[2]].status = "DELETED"
    <3>1. FailJob(s) BY <1>2, <2>1 DEF LoadDestination
    <3>2. Leaves(s)
      BY <1>2, <1>c, <3>1 DEF LoadDestination, Leaves, rows
    <3> QED BY <1>2, <1>c, <3>1, <3>2 DEF LoadDestination, rows
  <2>2. CASE dest[d[2]].status = "PAUSED"
    <3>1. Goto(s, "park") /\ UNCHANGED job BY <1>2, <2>2 DEF LoadDestination
    <3>2. Stays(s)
      BY <1>2, <1>g, <3>1 DEF LoadDestination, Stays, Moves, rows
    <3> QED BY <1>2, <3>1, <3>2 DEF LoadDestination, rows
  <2>3. CASE dest[d[2]].status = "ACTIVE"
    <3>1. /\ slot' = [slot EXCEPT ![s] = [slot[s] EXCEPT !.pc = "sign",
                                             !.failures = dest[d[2]].failures]]
          /\ UNCHANGED job
      BY <1>2, <2>3 DEF LoadDestination
    <3>2. /\ slot'[s].pc = "sign" /\ slot'[s].d = d
          /\ slot'[s].attempt = slot[s].attempt
          /\ slot'[s].failures = dest[d[2]].failures
      BY <3>1, <1>t, Zenon DEF SlotRecord
    <3>3. Stays(s)
      BY <1>2, <3>1, <3>2 DEF LoadDestination, Stays, ReadsDestination
    <3> QED BY <1>2, <3>1, <3>3 DEF LoadDestination, rows
  <2> QED BY <2>0, <2>1, <2>2, <2>3
<1>3. ASSUME Park(s) PROVE Goal
  <2>1. CompleteJob(s) \/ FailJob(s) BY <1>3 DEF Park
  <2>2. \A e \in Deliveries : e # d => delivery'[e] = delivery[e]
    BY <1>3, <1>t DEF Park
  <2>3. delivery'[d].status # "PENDING"
    BY <1>3, <1>t, <1>d DEF Park, RowExists
  <2>4. Leaves(s)
    BY <1>3, <1>c, <2>1, <2>3 DEF Park, Leaves
  <2> QED BY <1>3, <1>c, <2>1, <2>2, <2>4 DEF Park
<1>4. ASSUME Sign(s) PROVE Goal
  <2>1. Stays(s) BY <1>4, <1>g DEF Sign, Stays, Moves, rows
  <2> QED BY <1>4, <2>1 DEF Sign, rows
<1>5. ASSUME SignFails(s) PROVE Goal
  <2>1. Leaves(s) BY <1>5, <1>c DEF SignFails, Leaves, rows
  <2> QED BY <1>5, <1>c, <1>f, <2>1 DEF SignFails, rows
<1>6. ASSUME NEW b \in BOOLEAN, Post(s, b) PROVE Goal
  <2>1. Stays(s) BY <1>6, <1>g DEF Post, Stays, Posts
  <2>2. \A e \in Deliveries : e # d => posts'[e] = posts[e]
    BY <1>6, <1>t DEF Post
  <2> QED BY <1>6, <2>1, <2>2 DEF Post, rows
<1>7. ASSUME RecordSuccess(s) PROVE Goal
  <2>1. CompleteJob(s) BY <1>7 DEF RecordSuccess
  <2>2. \A e \in Deliveries : e # d => delivery'[e] = delivery[e]
    BY <1>7, <1>t DEF RecordSuccess
  <2>3. delivery'[d].status = "SUCCESS"
    BY <1>7, <1>t, <1>d DEF RecordSuccess
  <2>4. Leaves(s)
    BY <1>7, <1>c, <2>1, <2>3 DEF RecordSuccess, Leaves
  <2> QED BY <1>7, <1>c, <2>1, <2>2, <2>4 DEF RecordSuccess
<1>8. ASSUME SuccessAborts(s) PROVE Goal
  <2>1. Stays(s) BY <1>8, <1>g DEF SuccessAborts, Stays, Moves, rows
  <2> QED BY <1>8, <1>f, <2>1 DEF SuccessAborts, rows
<1>9. ASSUME RecordFailure(s) PROVE Goal
  <2>1. Stays(s)
    BY <1>9, <1>g DEF RecordFailure, Stays, Records, AfterBreakerIncident
  <2>2. \A e \in Deliveries : e # d => delivery'[e] = delivery[e]
    BY <1>9, <1>t DEF RecordFailure
  <2> QED BY <1>9, <2>1, <2>2 DEF RecordFailure
<1>10. ASSUME FailureAborts(s) PROVE Goal
  <2>1. delivery'[d].status = "PENDING" =>
          faults' = faults + 1 \/ log[d][slot[s].attempt] # "none"
    BY <1>10, <1>f DEF FailureAborts, Recordable, RowExists, rows
  <2>2. Leaves(s) BY <1>10, <1>c, <2>1 DEF FailureAborts, Leaves, rows
  <2> QED BY <1>10, <1>c, <1>f, <2>2 DEF FailureAborts, rows
<1>11. ASSUME OpenBreakerIncident(s) PROVE Goal
  <2>1. Stays(s)
    BY <1>11, <1>g DEF OpenBreakerIncident, Stays, Moves, AfterBreakerIncident
  <2> QED BY <1>11, <2>1 DEF OpenBreakerIncident
<1>12. ASSUME OpenDeadLetterIncident(s) PROVE Goal
  <2>1. Leaves(s) BY <1>12, <1>c DEF OpenDeadLetterIncident, Leaves
  <2> QED BY <1>12, <1>c, <2>1 DEF OpenDeadLetterIncident
<1>13. ASSUME IncidentFails(s) PROVE Goal
  <2>1. Leaves(s) BY <1>13, <1>c DEF IncidentFails, Leaves, rows
  <2> QED BY <1>13, <1>c, <1>f, <2>1 DEF IncidentFails, rows
<1>14. ASSUME Requeue(s) PROVE Goal
  <2>1. slot'[s] = IdleSlot BY <1>14, <1>t DEF Requeue
  <2>2. \A e \in Deliveries : e # d => job'[e] = job[e] BY <1>14, <1>t DEF Requeue
  <2>3. \/ job'[d] = job[d] /\ ~OwnsJob(s)
        \/ /\ job[d].state = "active"
           /\ job'[d].state \in {"waiting", "finished"}
           /\ job'[d].owner = NoSlot
    <3>1. CASE job[d].state = "active"
      <4>1. job'[d] = [job[d] EXCEPT !.state = "waiting", !.tries = job[d].tries + 1,
                                     !.owner = NoSlot]
        BY <1>14, <1>t, <1>d, <3>1 DEF Requeue
      <4> QED BY <1>j, <3>1, <4>1 DEF JobRecord
    <3>2. CASE job[d].state # "active"
      BY <1>14, <3>2 DEF Requeue, OwnsJob
    <3> QED BY <3>1, <3>2
  <2>4. Leaves(s) BY <1>14, <2>1, <2>3 DEF Requeue, Leaves, rows
  <2> QED BY <1>14, <2>2, <2>4 DEF Requeue, rows
<1> QED
  BY <1>d, <1>1, <1>2, <1>3, <1>4, <1>5, <1>6, <1>7, <1>8, <1>9, <1>10, <1>11, <1>12, <1>13,
     <1>14 DEF SlotStep

-----------------------------------------------------------------------------
(* The queue and the rows: what later arguments need to know about both. *)

(* Nothing but a fault leaves a delivery PENDING behind a job that ends: a   *)
(* slot ends the job after the last attempt only with the delivery settled, *)
(* and a deleted destination has no delivery left.  Only a delivery of an   *)
(* accepted event has ever been posted.                                     *)
Ended(s) ==
  slot[s].pc = "deadIncident" \/ (slot[s].pc = "breakerIncident" /\ Exhausted(s))

Held ==
  /\ \A s \in Slots : Ended(s) => delivery[slot[s].d].status # "PENDING"
  /\ \A d \in Deliveries : dest[d[2]].status = "DELETED" => ~RowExists(d)
  /\ \A d \in Deliveries : posts[d] > 0 => d[1] \in accepted

(* Of the destinations, only a deletion makes one DELETED; a count of        *)
(* failures is written for a delivery that still exists.                    *)
LEMMA DestinationsOfSlotSteps ==
  ASSUME IInv, NEW s \in Slots, SlotStep(s), NEW c \in Destinations
  PROVE  dest'[c].status = "DELETED" => dest[c].status = "DELETED"
<1>t. dest \in [Destinations -> DestinationRow]
  BY DEF IInv, TypeOK
<1>r. dest[c] \in DestinationRow BY <1>t
<1>1. CASE RecordSuccess(s)
  <2>1. dest'[c] \in {dest[c], [dest[c] EXCEPT !.failures = 0, !.breaker = FALSE]}
    BY <1>1, <1>t DEF RecordSuccess
  <2> QED BY <1>r, <2>1 DEF DestinationRow
<1>2. CASE RecordFailure(s)
  <2> DEFINE n == NextConsecutiveFailures(s)
  <2>1. dest'[c] \in {dest[c], [dest[c] EXCEPT !.failures = n],
                      [dest[c] EXCEPT !.failures = n, !.status = "PAUSED", !.breaker = TRUE,
                                      !.reason = "auto"]}
    BY <1>2, <1>t DEF RecordFailure, CountFailure
  <2> QED BY <1>r, <2>1 DEF DestinationRow
<1>3. CASE UNCHANGED dest BY <1>3
<1> QED
  BY <1>1, <1>2, <1>3
  DEF SlotStep, FindDelivery, LoadDestination, Park, Sign, SignFails, Post, SuccessAborts,
      FailureAborts, OpenBreakerIncident, OpenDeadLetterIncident, IncidentFails, Requeue, rows

(* A row that a slot's step leaves PENDING, or in existence, was so before.   *)
LEMMA RowsOfSlotSteps ==
  ASSUME IInv, NEW s \in Slots, SlotStep(s), NEW d \in Deliveries
  PROVE  /\ RowExists(d)' => RowExists(d)
         /\ delivery'[d].status = "PENDING" => delivery[d].status = "PENDING"
<1>t. delivery \in [Deliveries -> [status : DeliveryStatus, attempts : Nat]]
  BY DEF IInv, TypeOK
<1>1. CASE Park(s) BY <1>1, <1>t DEF Park, RowExists
<1>2. CASE RecordSuccess(s) BY <1>2, <1>t DEF RecordSuccess, Recordable, RowExists
<1>3. CASE RecordFailure(s) BY <1>3, <1>t DEF RecordFailure, Recordable, RowExists
<1>4. CASE UNCHANGED delivery BY <1>4 DEF RowExists
<1> QED
  BY <1>1, <1>2, <1>3, <1>4
  DEF SlotStep, FindDelivery, LoadDestination, Sign, SignFails, Post, SuccessAborts,
      FailureAborts, OpenBreakerIncident, OpenDeadLetterIncident, IncidentFails, Requeue, rows

LEMMA SlotStepKeepsHeld ==
  ASSUME IInv, Held, NEW s \in Slots, SlotStep(s) PROVE Held'
<1> USE ConstantsAssumption
<1>t. /\ TypeOK
      /\ delivery \in [Deliveries -> [status : DeliveryStatus, attempts : Nat]]
      /\ posts \in [Deliveries -> Nat]
      /\ \A t \in Slots : slot[t].d = NoDelivery => slot[t].pc = "idle"
      /\ slot \in [Slots -> SlotRecord]
  BY DEF IInv, TypeOK
<1> DEFINE d == slot[s].d
<1>s. /\ d \in Deliveries
      /\ \A e \in Deliveries : e # d => delivery'[e] = delivery[e] /\ posts'[e] = posts[e]
      /\ Stays(s) \/ Leaves(s)
  BY <1>t, SlotEffects
<1>o. accepted' = accepted /\ \A t \in Slots : t # s => slot'[t] = slot[t]
  BY <1>t, SlotFrame
<1>1. ASSUME NEW e \in Deliveries, posts'[e] > 0 PROVE e[1] \in accepted'
  <2>1. CASE e = d
    <3>1. d # NoDelivery BY <1>s DEF Deliveries
    <3> QED BY <1>o, <2>1, <3>1 DEF IInv, Accounted
  <2>2. CASE e # d BY <1>1, <1>s, <1>o, <2>2 DEF Held
  <2> QED BY <2>1, <2>2
<1>2. ASSUME NEW e \in Deliveries, dest'[e[2]].status = "DELETED" PROVE ~RowExists(e)'
  <2>1. e[2] \in Destinations BY DEF Deliveries
  <2>2. dest[e[2]].status = "DELETED" BY <1>2, <2>1, DestinationsOfSlotSteps
  <2> QED BY <2>2, RowsOfSlotSteps DEF Held
<1>3. ASSUME NEW t \in Slots, Ended(t)' PROVE delivery'[slot'[t].d].status # "PENDING"
  <2>1. CASE t # s
    <3>1. Ended(t) /\ slot'[t] = slot[t] BY <1>3, <1>o, <2>1 DEF Ended, Exhausted
    <3>2. slot[t].d \in Deliveries
      BY <1>t, <3>1 DEF Ended, SlotRecord
    <3> QED BY <3>1, <3>2, RowsOfSlotSteps DEF Held
  <2>2. CASE t = s
    <3>1. ~Leaves(s) BY <1>3, <2>2 DEF Leaves, Ended, IdleSlot
    <3>2. Stays(s) BY <1>s, <3>1
    <3>3. CASE Ended(s)
      BY <1>s, <2>2, <3>2, <3>3, RowsOfSlotSteps DEF Held, Stays
    <3>4. CASE ~Ended(s)
      <4>1. Records(s)
        BY <1>3, <2>2, <3>2, <3>4
        DEF Stays, Ended, ReadsRow, ReadsDestination, Moves, Posts, Exhausted
      <4>2. Exhausted(s)
        BY <1>3, <2>2, <4>1 DEF Records, Ended, Exhausted
      <4>3. delivery'[d].status = "DEAD_LETTER"
        BY <1>t, <1>s, <4>1, <4>2 DEF Records, RecordFailure
      <4> QED BY <2>2, <3>2, <4>3 DEF Stays
    <3> QED BY <3>3, <3>4
  <2> QED BY <2>1, <2>2
<1> QED BY <1>1, <1>2, <1>3 DEF Held

(* A row comes into being only for an event that no slot has seen. *)
LEMMA FreshRows ==
  ASSUME IInv, NEW e \in Events, NEW targets \in SUBSET Destinations, Accept(e, targets)
  PROVE  \A d \in Deliveries :
           \/ delivery'[d] = delivery[d] /\ job'[d] = job[d]
           \/ /\ delivery[d].status = "ABSENT" /\ job[d].state = "none"
              /\ delivery'[d] = [status |-> "PENDING", attempts |-> 0]
              /\ job'[d].state = "adding"
              /\ d[1] \notin accepted
              /\ d[2] \in targets
              /\ \A s \in Slots : slot[s].d # d
<1> SUFFICES ASSUME NEW d \in Deliveries, d \in {<<e, c>> : c \in targets}
             PROVE  /\ delivery[d].status = "ABSENT" /\ job[d].state = "none"
                    /\ delivery'[d] = [status |-> "PENDING", attempts |-> 0]
                    /\ job'[d].state = "adding"
                    /\ d[1] \notin accepted
                    /\ d[2] \in targets
                    /\ \A s \in Slots : slot[s].d # d
  BY DEF Accept
<1>1. d[1] \notin accepted /\ d[2] \in targets BY DEF Accept
<1>2. delivery[d].status = "ABSENT" /\ job[d].state = "none"
  BY <1>1 DEF IInv, Accounted
<1>3. \A s \in Slots : slot[s].d # d
  <2>1. d # NoDelivery BY ConstantsAssumption DEF Deliveries
  <2> QED BY <1>1, <2>1 DEF IInv, Accounted
<1>4. job[d] \in JobRecord BY DEF IInv, TypeOK
<1>5. job'[d] = [job[d] EXCEPT !.state = "adding"] BY DEF Accept
<1>6. job'[d].state = "adding" BY <1>4, <1>5 DEF JobRecord
<1> QED BY <1>1, <1>2, <1>3, <1>6 DEF Accept

LEMMA HeldAlways == Spec => []Held
<1> USE ConstantsAssumption
<1>1. Init => Held
  BY DEF Init, Held, Ended, IdleSlot, RowExists
<1>2. IInv /\ IInv' /\ Held /\ [Next]_vars => Held'
  <2> SUFFICES ASSUME IInv, IInv', Held, [Next]_vars PROVE Held'
    OBVIOUS
  <2>t. /\ slot \in [Slots -> SlotRecord]
        /\ dest \in [Destinations -> DestinationRow]
        /\ \A t \in Slots : slot[t].d = NoDelivery => slot[t].pc = "idle"
        /\ posts \in [Deliveries -> Nat]
    BY DEF IInv, TypeOK
  <2>e. \A t \in Slots : Ended(t) => slot[t].d \in Deliveries
    BY <2>t DEF Ended, SlotRecord
  <2>1. ASSUME NEW e \in Events, NEW targets \in SUBSET Destinations, Accept(e, targets),
               \A c \in targets : dest[c].status = "ACTIVE"
        PROVE  Held'
    <3>1. UNCHANGED <<dest, slot, posts>> /\ accepted \subseteq accepted'
      BY <2>1 DEF Accept
    <3>2. \A d \in Deliveries : d[1] \in accepted => delivery'[d] = delivery[d]
      BY <2>1, FreshRows
    <3>3. ASSUME NEW t \in Slots, Ended(t)' PROVE delivery'[slot'[t].d].status # "PENDING"
      <4>1. Ended(t) /\ slot'[t].d = slot[t].d BY <3>1, <3>3 DEF Ended, Exhausted
      <4>2. slot[t].d \in Deliveries BY <2>e, <4>1
      <4>3. delivery'[slot[t].d] = delivery[slot[t].d] BY <2>1, <4>2, FreshRows
      <4> QED BY <4>1, <4>3 DEF Held
    <3>4. ASSUME NEW d \in Deliveries, dest'[d[2]].status = "DELETED" PROVE ~RowExists(d)'
      <4>1. delivery'[d] = delivery[d] BY <2>1, <3>1, <3>4, FreshRows
      <4> QED BY <3>1, <3>4, <4>1 DEF Held, RowExists
    <3> QED BY <3>1, <3>3, <3>4 DEF Held
  <2>2. ASSUME UNCHANGED <<accepted, dest, delivery, posts>>,
               \A t \in Slots : Ended(t)' => Ended(t) /\ slot'[t].d = slot[t].d
        PROVE  Held'
    BY <2>2 DEF Held, RowExists
  <2>3. ASSUME NEW d \in Deliveries,
               Enqueue(d) \/ EnqueueLost(d) \/ DetectStalled(d) \/ LoseLock(d)
        PROVE  Held'
    <3>1. UNCHANGED <<accepted, dest, delivery, posts, slot>>
      BY <2>3 DEF Enqueue, EnqueueLost, DetectStalled, LoseLock, rows
    <3> QED BY <2>2, <3>1 DEF Ended, Exhausted
  <2>4. ASSUME NEW d \in Deliveries, ReplayDelivery(d) PROVE Held'
    <3>1. delivery[d].status # "FAILED" BY DEF IInv, LogShape, WellLogged
    <3>2. UNCHANGED <<accepted, dest, delivery, posts, slot>>
      BY <2>4, <3>1 DEF ReplayDelivery
    <3> QED BY <2>2, <3>2 DEF Ended, Exhausted
  <2>5. ASSUME NEW s \in Slots, NEW d \in Deliveries, Fetch(s, d) PROVE Held'
    <3>1. \A t \in Slots : Ended(t)' => Ended(t) /\ slot'[t].d = slot[t].d
      BY <2>t, <2>5 DEF Fetch, Ended, Exhausted, IdleSlot
    <3> QED BY <2>2, <2>5, <3>1 DEF Fetch, rows
  <2>6. ASSUME NEW S \in SUBSET Slots, Crash(S) PROVE Held'
    <3>1. \A t \in Slots : Ended(t)' => Ended(t) /\ slot'[t].d = slot[t].d
      BY <2>t, <2>6 DEF Crash, Ended, Exhausted, IdleSlot
    <3> QED BY <2>2, <2>6, <3>1 DEF Crash, rows
  <2>7. ASSUME NEW c \in Destinations, AdminStep(c) PROVE Held'
    <3>0. slot' = slot /\ posts' = posts /\ accepted' = accepted
      BY <2>7 DEF AdminStep, RequestPause, RequestResume, PauseDestination, ResumeDestination,
                  DeleteDestination
    <3>1. CASE DeleteDestination(c)
      <4>1. \A d \in Deliveries : d[2] = c => ~RowExists(d)'
        BY <3>1 DEF DeleteDestination, RowExists
      <4>2. \A d \in Deliveries : d[2] # c => delivery'[d] = delivery[d]
        BY <3>1 DEF DeleteDestination
      <4>3. \A b \in Destinations : b # c => dest'[b] = dest[b]
        BY <2>t, <3>1 DEF DeleteDestination
      <4>4. ASSUME NEW d \in Deliveries, dest'[d[2]].status = "DELETED" PROVE ~RowExists(d)'
        <5>1. d[2] \in Destinations BY DEF Deliveries
        <5> QED BY <4>1, <4>2, <4>3, <4>4, <5>1 DEF Held, RowExists
      <4>5. ASSUME NEW t \in Slots, Ended(t)' PROVE delivery'[slot'[t].d].status # "PENDING"
        <5>1. Ended(t) /\ slot[t].d \in Deliveries
          BY <2>e, <3>0, <4>5 DEF Ended, Exhausted
        <5> QED BY <3>0, <4>1, <4>2, <5>1 DEF Held, RowExists
      <4> QED BY <3>0, <4>4, <4>5 DEF Held
    <3>2. CASE ~DeleteDestination(c)
      <4>1. \A b \in Destinations :
              dest'[b].status = "DELETED" => dest[b].status = "DELETED"
        <5> SUFFICES ASSUME NEW b \in Destinations, dest'[b].status = "DELETED"
                     PROVE  dest[b].status = "DELETED"
          OBVIOUS
        <5>1. \/ dest'[b] = dest[b]
              \/ dest'[b] = [dest[b] EXCEPT !.status = "PAUSED", !.reason = "manual"]
              \/ dest'[b] = [dest[b] EXCEPT !.status = "ACTIVE", !.reason = "none",
                                            !.failures = 0]
          BY <2>t, <2>7, <3>2
          DEF AdminStep, RequestPause, RequestResume, PauseDestination, ResumeDestination, rows
        <5>2. dest[b] \in DestinationRow BY <2>t
        <5> QED BY <5>1, <5>2 DEF DestinationRow
      <4>2. delivery' = delivery
        BY <2>7, <3>2
        DEF AdminStep, RequestPause, RequestResume, PauseDestination, ResumeDestination, rows
      <4>3. ASSUME NEW d \in Deliveries, dest'[d[2]].status = "DELETED" PROVE ~RowExists(d)'
        <5>1. d[2] \in Destinations BY DEF Deliveries
        <5> QED BY <4>1, <4>2, <4>3, <5>1 DEF Held, RowExists
      <4> QED BY <3>0, <4>2, <4>3 DEF Held, Ended, Exhausted
    <3> QED BY <3>1, <3>2
  <2>8. ASSUME NEW s \in Slots, SlotStep(s) PROVE Held'
    BY <2>8, SlotStepKeepsHeld
  <2>9. CASE UNCHANGED vars
    BY <2>2, <2>9 DEF vars, Ended, Exhausted
  <2> QED
    <3>1. ASSUME NEW e \in Events, AcceptForAll(e) PROVE Held'
      BY <3>1, <2>1 DEF AcceptForAll
    <3>2. ASSUME NEW e \in Events, NEW c \in Destinations, AcceptForOne(e, c) PROVE Held'
      BY <3>2, <2>1 DEF AcceptForOne
    <3> QED BY <3>1, <3>2, <2>3, <2>4, <2>5, <2>6, <2>7, <2>8, <2>9 DEF Next
<1> QED BY <1>1, <1>2, Invariant, PTL DEF Spec

-----------------------------------------------------------------------------
(* A run without faults. *)

(* Without faults the slot that holds a delivery owns its job, a PENDING      *)
(* delivery has a live job, and what a slot has read is still what the row   *)
(* says.                                                                    *)
Undisturbed ==
  faults = 0 =>
    /\ \A s \in Slots : slot[s].d # NoDelivery => OwnsJob(s)
    /\ \A d \in Deliveries : job[d].state = "active" => job[d].owner # NoSlot
    /\ \A d \in Deliveries :
         delivery[d].status = "PENDING" => job[d].state \notin {"none", "finished"}
    /\ \A s \in Slots : Working(s) /\ RowExists(slot[s].d) =>
         /\ delivery[slot[s].d].status = "PENDING"
         /\ slot[s].attempt = delivery[slot[s].d].attempts + 1

(* A slot that leaves a delivery to be tried leaves its job in the queue.     *)
LEMMA LeftToTheQueue ==
  ASSUME IInv, Held, Undisturbed, faults = 0, faults' = 0, NEW s \in Slots, SlotStep(s),
         Leaves(s), delivery'[slot[s].d].status = "PENDING"
  PROVE  job'[slot[s].d].state = "waiting"
<1> USE ConstantsAssumption
<1> DEFINE d == slot[s].d
<1>t. /\ TypeOK
      /\ job \in [Deliveries -> JobRecord]
      /\ slot \in [Slots -> SlotRecord]
      /\ \A t \in Slots : slot[t].d = NoDelivery => slot[t].pc = "idle"
  BY DEF IInv, TypeOK
<1>d. d \in Deliveries /\ delivery[d].status = "PENDING" /\ delivery'[d] = delivery[d]
  <2>1. d \in Deliveries BY <1>t, SlotEffects
  <2> QED BY <2>1, RowsOfSlotSteps DEF Leaves
<1>r. RowExists(d) BY <1>d DEF RowExists
<1>o. OwnsJob(s)
  <2>1. d # NoDelivery BY <1>d DEF Deliveries
  <2> QED BY <2>1 DEF Undisturbed
<1>n. \A kind : ~Fault(kind)
  BY DEF Fault
<1>i. slot'[s].pc = "idle" BY DEF Leaves, IdleSlot
<1>1. CASE FindDelivery(s)
  <2>1. slot'[s] = [slot[s] EXCEPT !.pc = "load", !.attempt = delivery[d].attempts + 1]
    BY <1>1, <1>d, <1>t DEF FindDelivery
  <2>2. slot[s] \in SlotRecord BY <1>t
  <2>3. slot'[s].pc = "load" BY <2>1, <2>2, Zenon DEF SlotRecord
  <2> QED BY <1>i, <2>3
<1>2. CASE LoadDestination(s)
  <2>0. dest[d[2]].status \in {"ACTIVE", "PAUSED"}
    <3>1. d[2] \in Destinations BY <1>d DEF Deliveries
    <3>2. dest[d[2]].status # "DELETED" BY <1>d, <1>r DEF Held
    <3> QED BY <1>t, <3>1, <3>2 DEF TypeOK, DestinationRow
  <2>2. slot[s] \in SlotRecord BY <1>t
  <2>3. CASE dest[d[2]].status = "PAUSED"
    <3>1. slot'[s] = [slot[s] EXCEPT !.pc = "park"]
      BY <1>2, <1>t, <2>3 DEF LoadDestination, Goto
    <3>2. slot'[s].pc = "park" BY <2>2, <3>1, Zenon DEF SlotRecord
    <3> QED BY <1>i, <3>2
  <2>4. CASE dest[d[2]].status = "ACTIVE"
    <3>1. slot'[s] = [slot[s] EXCEPT !.pc = "sign", !.failures = dest[d[2]].failures]
      BY <1>2, <1>t, <2>4 DEF LoadDestination
    <3>2. slot'[s].pc = "sign" BY <2>2, <3>1, Zenon DEF SlotRecord
    <3> QED BY <1>i, <3>2
  <2> QED BY <2>0, <2>3, <2>4
<1>3. CASE Park(s)
  BY <1>3, <1>d, <1>r, <1>t DEF Park, TypeOK
<1>4. CASE Sign(s) \/ SuccessAborts(s) \/ OpenBreakerIncident(s) \/ Post(s, TRUE) \/ Post(s, FALSE)
  <2>1. PICK pc \in {"post", "failure", "success", "deadIncident", "requeue"} : Goto(s, pc)
    BY <1>4 DEF Sign, SuccessAborts, OpenBreakerIncident, AfterBreakerIncident, Post
  <2> QED BY <1>t, <1>i, <2>1 DEF Goto, SlotRecord
<1>5. CASE SignFails(s) \/ IncidentFails(s)
  BY <1>5, <1>n DEF SignFails, IncidentFails
<1>6. CASE RecordSuccess(s)
  BY <1>6, <1>d, <1>t DEF RecordSuccess, TypeOK
<1>7. CASE RecordFailure(s)
  <2>1. PICK pc \in {"breakerIncident", "deadIncident", "requeue"} : Goto(s, pc)
    BY <1>7 DEF RecordFailure, AfterBreakerIncident
  <2> QED BY <1>t, <1>i, <2>1 DEF Goto, SlotRecord
<1>8. CASE FailureAborts(s)
  <2>1. ~Recordable(s) BY <1>8, <1>n DEF FailureAborts
  <2>2. Working(s) BY <1>8 DEF FailureAborts, Working
  <2>3. slot[s].attempt = delivery[d].attempts + 1
    BY <1>r, <2>2 DEF Undisturbed
  <2>4. slot[s].attempt \in AttemptNumbers
    BY <2>2 DEF IInv, Snapshots
  <2>5. delivery[d].attempts \in Nat BY <1>t, <1>d DEF TypeOK
  <2>6. log[d][slot[s].attempt] = "none"
    BY <1>d, <2>3, <2>4, <2>5 DEF IInv, LogShape, WellLogged
  <2> QED BY <1>r, <2>1, <2>6 DEF Recordable
<1>9. CASE OpenDeadLetterIncident(s)
  BY <1>9, <1>d DEF OpenDeadLetterIncident, Held, Ended
<1>10. CASE Requeue(s)
  <2>1. job[d].state = "active" BY <1>o DEF OwnsJob
  <2>2. job'[d] = [job[d] EXCEPT !.state = "waiting", !.tries = job[d].tries + 1,
                                 !.owner = NoSlot]
    BY <1>10, <1>t, <1>d, <2>1 DEF Requeue
  <2>3. job[d] \in JobRecord BY <1>t, <1>d
  <2> QED BY <2>2, <2>3 DEF JobRecord
<1> QED
  BY <1>1, <1>2, <1>3, <1>4, <1>5, <1>6, <1>7, <1>8, <1>9, <1>10 DEF SlotStep

LEMMA SlotStepKeepsUndisturbed ==
  ASSUME IInv, Held, Undisturbed, faults = 0, faults' = 0, NEW s \in Slots, SlotStep(s)
  PROVE  Undisturbed'
<1> USE ConstantsAssumption
<1> DEFINE d == slot[s].d
<1>t. /\ TypeOK
      /\ slot \in [Slots -> SlotRecord]
      /\ delivery \in [Deliveries -> [status : DeliveryStatus, attempts : Nat]]
      /\ \A t \in Slots : slot[t].d = NoDelivery => slot[t].pc = "idle"
  BY DEF IInv, TypeOK
<1>s. /\ d \in Deliveries /\ d # NoDelivery
      /\ \A e \in Deliveries : e # d => job'[e] = job[e] /\ delivery'[e] = delivery[e]
      /\ Stays(s) \/ Leaves(s)
  BY <1>t, SlotEffects DEF Deliveries
<1>o. \A t \in Slots : t # s => slot'[t] = slot[t]
  BY <1>t, SlotFrame
<1>j. job[d].state = "active" /\ job[d].owner = s
  BY <1>s DEF Undisturbed, OwnsJob
<1>u. \A t \in Slots : t # s => slot[t].d # d
  BY <1>s, <1>j DEF Undisturbed, OwnsJob
<1>e. \A t \in Slots : slot[t].d # NoDelivery => slot[t].d \in Deliveries
  BY <1>t DEF SlotRecord
<1>1. ASSUME NEW t \in Slots, slot'[t].d # NoDelivery PROVE OwnsJob(t)'
  <2>1. CASE t # s
    BY <1>1, <1>s, <1>o, <1>u, <1>e, <2>1 DEF Undisturbed, OwnsJob
  <2>2. CASE t = s
    BY <1>1, <1>s, <1>j, <2>2 DEF OwnsJob, Stays, Leaves, IdleSlot
  <2> QED BY <2>1, <2>2
<1>2. ASSUME NEW e \in Deliveries, job'[e].state = "active" PROVE job'[e].owner # NoSlot
  <2>1. CASE e # d BY <1>2, <1>s, <2>1 DEF Undisturbed
  <2>2. CASE e = d BY <1>2, <1>s, <1>j, <2>2 DEF Stays, Leaves
  <2> QED BY <2>1, <2>2
<1>3. ASSUME NEW e \in Deliveries, delivery'[e].status = "PENDING"
      PROVE  job'[e].state \notin {"none", "finished"}
  <2>1. CASE e # d BY <1>3, <1>s, <2>1 DEF Undisturbed
  <2>2. CASE e = d /\ Stays(s) BY <1>j, <2>2 DEF Stays
  <2>3. CASE e = d /\ Leaves(s) BY <1>3, <2>3, LeftToTheQueue
  <2> QED BY <1>s, <2>1, <2>2, <2>3
<1>4. ASSUME NEW t \in Slots, Working(t)', RowExists(slot[t].d)'
      PROVE  /\ delivery'[slot'[t].d].status = "PENDING"
             /\ slot'[t].attempt = delivery'[slot'[t].d].attempts + 1
  <2>1. CASE t # s
    <3>1. Working(t) /\ slot'[t] = slot[t] BY <1>4, <1>o, <2>1 DEF Working
    <3>2. slot[t].d \in Deliveries BY <3>1 DEF IInv, Snapshots
    <3>3. delivery'[slot[t].d] = delivery[slot[t].d] BY <1>s, <1>u, <2>1, <3>2
    <3> QED BY <1>4, <3>1, <3>3 DEF Undisturbed, RowExists
  <2>2. CASE t = s
    <3>1. Stays(s) BY <1>4, <1>s, <2>2 DEF Leaves, IdleSlot, Working
    <3>2. CASE ReadsRow(s)
      BY <2>2, <3>1, <3>2 DEF Stays, ReadsRow, rows
    <3>3. CASE ReadsDestination(s) \/ Moves(s) \/ Posts(s)
      <4>1. Working(s) /\ slot'[s].attempt = slot[s].attempt /\ delivery' = delivery
        BY <1>4, <2>2, <3>3 DEF ReadsDestination, Moves, Posts, Working, rows
      <4>2. slot'[s].d = slot[s].d BY <3>1 DEF Stays
      <4> QED BY <1>4, <2>2, <4>1, <4>2 DEF Undisturbed, RowExists
    <3>4. CASE Records(s)
      BY <1>4, <2>2, <3>4 DEF Records, Working
    <3> QED BY <3>1, <3>2, <3>3, <3>4 DEF Stays
  <2> QED BY <2>1, <2>2
<1> QED BY <1>1, <1>2, <1>3, <1>4 DEF Undisturbed

LEMMA UndisturbedAlways == Spec => []Undisturbed
<1> USE ConstantsAssumption
<1>1. Init => Undisturbed
  BY DEF Init, Undisturbed, IdleSlot, NewJob, Working, RowExists
<1>2. IInv /\ Held /\ Undisturbed /\ [Next]_vars => Undisturbed'
  <2> SUFFICES ASSUME IInv, Held, Undisturbed, [Next]_vars, faults' = 0 PROVE Undisturbed'
    BY DEF Undisturbed
  <2>t. /\ TypeOK /\ faults \in Nat
        /\ slot \in [Slots -> SlotRecord]
        /\ job \in [Deliveries -> JobRecord]
        /\ \A t \in Slots : slot[t].d = NoDelivery => slot[t].pc = "idle"
    BY DEF IInv, TypeOK
  <2>f. \A kind : ~Fault(kind)
    BY <2>t DEF Fault
  <2>w. \A t \in Slots : Working(t) => slot[t].d \in Deliveries
    BY DEF IInv, Snapshots
  <2>e. \A t \in Slots : slot[t].d # NoDelivery => slot[t].d \in Deliveries
    BY <2>t DEF SlotRecord
  <2>1. ASSUME NEW e \in Events, NEW targets \in SUBSET Destinations, Accept(e, targets)
        PROVE  Undisturbed'
    <3>0. slot' = slot /\ faults = 0 BY <2>1 DEF Accept
    <3>1. \A t \in Slots : slot[t].d # NoDelivery =>
            job'[slot[t].d] = job[slot[t].d] /\ delivery'[slot[t].d] = delivery[slot[t].d]
      BY <2>1, <2>e, FreshRows
    <3>2. \A d \in Deliveries : job'[d].state = "active" => job'[d].owner # NoSlot
      BY <2>1, <3>0, FreshRows DEF Undisturbed
    <3>3. \A d \in Deliveries :
            delivery'[d].status = "PENDING" => job'[d].state \notin {"none", "finished"}
      BY <2>1, <3>0, FreshRows DEF Undisturbed
    <3>4. \A t \in Slots : slot[t].d # NoDelivery => OwnsJob(t)'
      BY <3>0, <3>1 DEF Undisturbed, OwnsJob
    <3>5. ASSUME NEW t \in Slots, Working(t), RowExists(slot[t].d)'
          PROVE  /\ delivery'[slot'[t].d].status = "PENDING"
                 /\ slot'[t].attempt = delivery'[slot'[t].d].attempts + 1
      <4>1. slot[t].d # NoDelivery BY <2>w, <3>5 DEF Deliveries
      <4> QED BY <3>0, <3>1, <3>5, <4>1 DEF Undisturbed, RowExists
    <3> QED BY <3>0, <3>2, <3>3, <3>4, <3>5 DEF Undisturbed, Working
  <2>2. CASE UNCHANGED <<delivery, slot, job, faults>>
    BY <2>2 DEF Undisturbed, OwnsJob, RowExists, Working
  <2>3. ASSUME NEW d \in Deliveries, Enqueue(d) PROVE Undisturbed'
    <3>0. UNCHANGED <<delivery, slot, faults>> /\ faults = 0
      BY <2>3 DEF Enqueue, rows
    <3>1. job'[d].state = "waiting" /\ \A e \in Deliveries : e # d => job'[e] = job[e]
      BY <2>t, <2>3 DEF Enqueue, JobRecord
    <3>2. \A t \in Slots : slot[t].d # NoDelivery => slot[t].d # d
      BY <2>3, <3>0 DEF Undisturbed, OwnsJob, Enqueue
    <3>3. \A t \in Slots : slot[t].d # NoDelivery => OwnsJob(t)'
      BY <2>e, <3>0, <3>1, <3>2 DEF Undisturbed, OwnsJob
    <3> QED BY <3>0, <3>1, <3>3 DEF Undisturbed, RowExists, Working
  <2>4. ASSUME NEW d \in Deliveries, EnqueueLost(d) \/ DetectStalled(d) \/ LoseLock(d)
        PROVE  Undisturbed'
    <3>1. DetectStalled(d) BY <2>4, <2>f DEF EnqueueLost, LoseLock
    <3>2. faults = 0 BY <3>1 DEF DetectStalled
    <3> QED BY <3>1, <3>2 DEF DetectStalled, Undisturbed
  <2>5. ASSUME NEW d \in Deliveries, ReplayDelivery(d) PROVE Undisturbed'
    <3>1. delivery[d].status # "FAILED" BY DEF IInv, LogShape, WellLogged
    <3>2. UNCHANGED <<delivery, slot, job, faults>> BY <2>5, <3>1 DEF ReplayDelivery
    <3> QED BY <2>2, <3>2
  <2>6. ASSUME NEW s \in Slots, NEW d \in Deliveries, Fetch(s, d) PROVE Undisturbed'
    <3>0. delivery' = delivery /\ faults = 0 BY <2>6 DEF Fetch, rows
    <3>1. /\ job'[d].state = "active" /\ job'[d].owner = s
          /\ \A e \in Deliveries : e # d => job'[e] = job[e]
      <4>1. job[d] \in JobRecord BY <2>t
      <4>2. job' = [job EXCEPT ![d] = [job[d] EXCEPT !.state = "active", !.owner = s]]
        BY <2>6 DEF Fetch
      <4> QED BY <2>t, <4>1, <4>2 DEF JobRecord
    <3>2. /\ slot'[s].d = d /\ slot'[s].pc = "find"
          /\ \A t \in Slots : t # s => slot'[t] = slot[t]
      BY <2>t, <2>6 DEF Fetch, IdleSlot
    <3>3. \A t \in Slots : slot[t].d # d
      <4>1. d # NoDelivery BY DEF Deliveries
      <4> QED BY <2>6, <3>0, <4>1 DEF Undisturbed, OwnsJob, Fetch
    <3>4. \A t \in Slots : slot'[t].d # NoDelivery => OwnsJob(t)'
      <4> SUFFICES ASSUME NEW t \in Slots, slot'[t].d # NoDelivery PROVE OwnsJob(t)'
        OBVIOUS
      <4>1. CASE t = s BY <3>1, <3>2, <4>1 DEF OwnsJob
      <4>2. CASE t # s
        BY <2>e, <3>0, <3>1, <3>2, <3>3, <4>2 DEF Undisturbed, OwnsJob
      <4> QED BY <4>1, <4>2
    <3>5. \A e \in Deliveries : job'[e].state = "active" => job'[e].owner # NoSlot
      BY <3>0, <3>1 DEF Undisturbed
    <3>6. \A t \in Slots : Working(t)' => Working(t) /\ slot'[t] = slot[t]
      BY <3>2 DEF Working
    <3>7. \A e \in Deliveries :
            delivery'[e].status = "PENDING" => job'[e].state \notin {"none", "finished"}
      BY <3>0, <3>1 DEF Undisturbed
    <3> QED BY <3>0, <3>4, <3>5, <3>6, <3>7 DEF Undisturbed, RowExists
  <2>7. ASSUME NEW S \in SUBSET Slots, Crash(S) PROVE Undisturbed'
    BY <2>7, <2>f DEF Crash
  <2>8. ASSUME NEW c \in Destinations, AdminStep(c) PROVE Undisturbed'
    <3>0. UNCHANGED <<slot, job, faults>> /\ faults = 0
      BY <2>8 DEF AdminStep, RequestPause, RequestResume, PauseDestination, ResumeDestination,
                  DeleteDestination
    <3>1. \A d \in Deliveries : delivery'[d] = delivery[d] \/ delivery'[d].status = "DELETED"
      BY <2>8 DEF AdminStep, RequestPause, RequestResume, PauseDestination, ResumeDestination,
                  DeleteDestination, rows
    <3>2. ASSUME NEW t \in Slots, Working(t), RowExists(slot[t].d)'
          PROVE  /\ delivery'[slot'[t].d].status = "PENDING"
                 /\ slot'[t].attempt = delivery'[slot'[t].d].attempts + 1
      <4>1. delivery'[slot[t].d] = delivery[slot[t].d]
        BY <2>w, <3>0, <3>1, <3>2 DEF RowExists
      <4> QED BY <3>0, <3>2, <4>1 DEF Undisturbed, RowExists
    <3>3. \A d \in Deliveries :
            delivery'[d].status = "PENDING" => job'[d].state \notin {"none", "finished"}
      BY <3>0, <3>1 DEF Undisturbed
    <3>4. \A t \in Slots : slot'[t].d # NoDelivery => OwnsJob(t)'
      BY <3>0 DEF Undisturbed, OwnsJob
    <3> QED BY <3>0, <3>2, <3>3, <3>4 DEF Undisturbed, Working
  <2>9. ASSUME NEW s \in Slots, SlotStep(s) PROVE Undisturbed'
    <3>1. faults = 0
      BY <2>t, <2>9, SlotEffects
    <3> QED BY <2>9, <3>1, SlotStepKeepsUndisturbed
  <2>10. CASE UNCHANGED vars
    BY <2>2, <2>10 DEF vars
  <2> QED
    <3>1. ASSUME NEW e \in Events, AcceptForAll(e) PROVE Undisturbed'
      BY <3>1, <2>1 DEF AcceptForAll
    <3>2. ASSUME NEW e \in Events, NEW c \in Destinations, AcceptForOne(e, c)
          PROVE  Undisturbed'
      BY <3>2, <2>1 DEF AcceptForOne
    <3> QED BY <3>1, <3>2, <2>3, <2>4, <2>5, <2>6, <2>7, <2>8, <2>9, <2>10 DEF Next
<1> QED BY <1>1, <1>2, Invariant, HeldAlways, PTL DEF Spec

(* Without faults a delivery that is still PENDING has a live job: no path    *)
(* of the processor ends the job and leaves the delivery to be tried.        *)
THEOREM PendingHasJobAlways == Spec => []PendingHasJobWithoutFaults
<1>1. Undisturbed => PendingHasJobWithoutFaults
  BY DEF Undisturbed, PendingHasJobWithoutFaults
<1> QED BY <1>1, UndisturbedAlways, PTL

-----------------------------------------------------------------------------
(* Duplicates cost faults. *)

(* The runs of a delivery's job: those in the hands of slots, and one more    *)
(* if the queue holds a job to hand out or to find stalled (Queued).        *)
HeldBy(sl, d) == {s \in Slots : sl[s].d = d}

(* Of the slots that hold the delivery: those still to post; those that will  *)
(* post an attempt already counted; and all but those that have posted the   *)
(* next attempt and will try to record it.                                  *)
Posting(sl, d) == {s \in HeldBy(sl, d) : sl[s].pc \in {"load", "park", "sign", "post"}}
Late(sl, d, n) == {s \in Posting(sl, d) : sl[s].attempt <= n}
Ready(sl, d, n) ==
  {s \in HeldBy(sl, d) : ~(sl[s].pc \in {"success", "failure"} /\ sl[s].attempt = n + 1)}

(* There is one run per fault and one more.  While the delivery is PENDING,   *)
(* each run posts each attempt at most once: what has been posted, what the  *)
(* late slots will still post, and the runs that may post the next attempt   *)
(* stay within the budget of the attempts up to the next one.               *)
Budget(sl, j, row, p, f, d) ==
  /\ IsFiniteSet(HeldBy(sl, d))
  /\ Cardinality(HeldBy(sl, d)) + Queued(j) <= 1 + f
  /\ row.status = "PENDING" =>
       p + Cardinality(Late(sl, d, row.attempts)) + Cardinality(Ready(sl, d, row.attempts))
         + Queued(j) <= (1 + f) * (row.attempts + 1)
  /\ row.status # "PENDING" =>
       p + Cardinality(Posting(sl, d)) <= (1 + f) * MAX_RETRIES_PER_JOB

Runs == \A d \in Deliveries : Budget(slot, job[d], delivery[d], posts[d], faults, d)

(* Products that the budgets compare. *)
LEMMA Products ==
  ASSUME NEW f \in Nat, NEW a \in Nat
  PROVE  /\ \A b \in Nat : a <= b => (1 + f) * a <= (1 + f) * b
         /\ \A g \in Nat : f <= g => (1 + f) * a <= (1 + g) * a
         /\ (1 + f) * (a + 1) = (1 + f) * a + (1 + f)
         /\ (1 + (f + 1)) * (a + 1) = (1 + f) * (a + 1) + a + 1
         /\ (1 + f) * a \in Nat
<1>1. ASSUME NEW x \in Nat, NEW b \in Nat, a <= b PROVE x * a <= x * b
  <2>1. PICK k \in Nat : b = a + k
    <3>1. b - a \in Nat /\ b = a + (b - a) BY <1>1
    <3> QED BY <3>1
  <2>2. x * b = x * a + x * k /\ x * k \in Nat /\ x * a \in Nat BY <2>1
  <2> QED BY <2>2
<1>2. ASSUME NEW g \in Nat, f <= g PROVE (1 + f) * a <= (1 + g) * a
  <2>1. PICK k \in Nat : g = f + k
    <3>1. g - f \in Nat /\ g = f + (g - f) BY <1>2
    <3> QED BY <3>1
  <2>2. (1 + g) * a = (1 + f) * a + k * a /\ k * a \in Nat /\ (1 + f) * a \in Nat BY <2>1
  <2> QED BY <2>2
<1>3. 1 + f \in Nat OBVIOUS
<1>4. \A b \in Nat : a <= b => (1 + f) * a <= (1 + f) * b
  BY <1>1, <1>3
<1>5. (1 + f) * (a + 1) = (1 + f) * a + (1 + f)
  OBVIOUS
<1>6. (1 + (f + 1)) * (a + 1) = (1 + f) * (a + 1) + a + 1
  OBVIOUS
<1>7. (1 + f) * a \in Nat BY <1>3
<1> QED BY <1>2, <1>4, <1>5, <1>6, <1>7

(* The sets of a budget are finite, and a slot still to post is ready.        *)
LEMMA BudgetSets ==
  ASSUME NEW sl, NEW d, NEW n, IsFiniteSet(HeldBy(sl, d))
  PROVE  /\ IsFiniteSet(Posting(sl, d)) /\ Cardinality(Posting(sl, d)) \in Nat
         /\ IsFiniteSet(Late(sl, d, n)) /\ Cardinality(Late(sl, d, n)) \in Nat
         /\ IsFiniteSet(Ready(sl, d, n)) /\ Cardinality(Ready(sl, d, n)) \in Nat
         /\ Cardinality(HeldBy(sl, d)) \in Nat
         /\ Cardinality(Posting(sl, d)) <= Cardinality(Ready(sl, d, n))
         /\ Cardinality(Late(sl, d, n)) <= Cardinality(Posting(sl, d))
         /\ Cardinality(Ready(sl, d, n)) <= Cardinality(HeldBy(sl, d))
<1>1. Ready(sl, d, n) \in SUBSET HeldBy(sl, d) BY DEF Ready
<1>2. Posting(sl, d) \in SUBSET Ready(sl, d, n) BY DEF Posting, Ready
<1>3. Late(sl, d, n) \in SUBSET Posting(sl, d) BY DEF Late
<1>4. IsFiniteSet(Ready(sl, d, n)) BY <1>1, FS_Subset
<1>5. IsFiniteSet(Posting(sl, d)) BY <1>2, <1>4, FS_Subset
<1>6. IsFiniteSet(Late(sl, d, n)) BY <1>3, <1>5, FS_Subset
<1>7. Cardinality(Ready(sl, d, n)) <= Cardinality(HeldBy(sl, d)) BY <1>1, FS_Subset
<1>8. Cardinality(Posting(sl, d)) <= Cardinality(Ready(sl, d, n)) BY <1>2, <1>4, FS_Subset
<1>9. Cardinality(Late(sl, d, n)) <= Cardinality(Posting(sl, d)) BY <1>3, <1>5, FS_Subset
<1>10. /\ Cardinality(HeldBy(sl, d)) \in Nat /\ Cardinality(Posting(sl, d)) \in Nat
       /\ Cardinality(Late(sl, d, n)) \in Nat /\ Cardinality(Ready(sl, d, n)) \in Nat
  BY <1>4, <1>5, <1>6, FS_CardinalityType
<1> QED BY <1>4, <1>5, <1>6, <1>7, <1>8, <1>9, <1>10

(* Fewer runs of an untouched delivery, or as many after a fault, stay within *)
(* the budget.                                                              *)
LEMMA FewerRuns ==
  ASSUME NEW sl, NEW sl2, NEW j, NEW j2, NEW row, NEW p \in Nat, NEW f \in Nat,
         NEW f2 \in Nat, NEW d,
         row.attempts \in Nat,
         Budget(sl, j, row, p, f, d),
         HeldBy(sl2, d) \subseteq HeldBy(sl, d),
         row.status = "PENDING" => /\ Late(sl2, d, row.attempts) \subseteq Late(sl, d, row.attempts)
                                   /\ Ready(sl2, d, row.attempts) \subseteq Ready(sl, d, row.attempts),
         row.status # "PENDING" => Posting(sl2, d) \subseteq Posting(sl, d),
         (Queued(j2) <= Queued(j) /\ f <= f2) \/ f2 = f + 1
  PROVE  Budget(sl2, j2, row, p, f2, d)
<1> USE ConstantsAssumption
<1>q. Queued(j) \in {0, 1} /\ Queued(j2) \in {0, 1} BY DEF Queued
<1>1. IsFiniteSet(HeldBy(sl, d)) BY DEF Budget
<1>2. /\ IsFiniteSet(HeldBy(sl2, d))
      /\ Cardinality(HeldBy(sl2, d)) <= Cardinality(HeldBy(sl, d))
  BY <1>1, FS_Subset
<1>3. Cardinality(HeldBy(sl2, d)) + Queued(j2) <= 1 + f2
  <2>1. Cardinality(HeldBy(sl2, d)) \in Nat /\ Cardinality(HeldBy(sl, d)) \in Nat
    BY <1>1, <1>2, FS_CardinalityType
  <2>2. Cardinality(HeldBy(sl, d)) + Queued(j) <= 1 + f BY DEF Budget
  <2> QED BY <1>q, <1>2, <2>1, <2>2
<1>4. ASSUME row.status = "PENDING"
      PROVE  p + Cardinality(Late(sl2, d, row.attempts)) + Cardinality(Ready(sl2, d, row.attempts))
               + Queued(j2) <= (1 + f2) * (row.attempts + 1)
  <2> DEFINE a == row.attempts
  <2>1. /\ Cardinality(Late(sl2, d, a)) <= Cardinality(Late(sl, d, a))
        /\ Cardinality(Ready(sl2, d, a)) <= Cardinality(Ready(sl, d, a))
    <3>1. IsFiniteSet(Late(sl, d, a)) /\ IsFiniteSet(Ready(sl, d, a)) BY <1>1, BudgetSets
    <3> QED BY <1>4, <3>1, FS_Subset
  <2>2. PICK l \in Nat, r \in Nat, l2 \in Nat, r2 \in Nat :
          /\ l = Cardinality(Late(sl, d, a)) /\ r = Cardinality(Ready(sl, d, a))
          /\ l2 = Cardinality(Late(sl2, d, a)) /\ r2 = Cardinality(Ready(sl2, d, a))
    BY <1>1, <1>2, BudgetSets
  <2>3. p + l + r + Queued(j) <= (1 + f) * (a + 1)
    BY <1>4, <2>2 DEF Budget
  <2>4. PICK x \in Nat, y \in Nat : x = (1 + f) * (a + 1) /\ y = (1 + f2) * (a + 1)
    OBVIOUS
  <2>5. x <= y /\ (f2 = f + 1 => x + 1 <= y)
    <3>1. a \in Nat /\ a + 1 \in Nat OBVIOUS
    <3>2. f <= f2 => x <= y
      BY <2>4, <3>1, Products
    <3>3. f2 = f + 1 => y = x + a + 1
      BY <2>4, <3>1, Products
    <3> QED BY <3>1, <3>2, <3>3, <2>4
  <2>6. p + l2 + r2 + Queued(j2) <= y
    BY <1>q, <2>1, <2>2, <2>3, <2>4, <2>5
  <2> QED BY <2>2, <2>4, <2>6
<1>5. ASSUME row.status # "PENDING"
      PROVE  p + Cardinality(Posting(sl2, d)) <= (1 + f2) * MAX_RETRIES_PER_JOB
  <2>1. IsFiniteSet(Posting(sl, d)) BY <1>1, BudgetSets
  <2>2. Cardinality(Posting(sl2, d)) <= Cardinality(Posting(sl, d))
    BY <1>5, <2>1, FS_Subset
  <2>3. PICK g \in Nat, g2 \in Nat :
          g = Cardinality(Posting(sl, d)) /\ g2 = Cardinality(Posting(sl2, d))
    BY <1>1, <1>2, BudgetSets
  <2>4. PICK x \in Nat, y \in Nat :
          x = (1 + f) * MAX_RETRIES_PER_JOB /\ y = (1 + f2) * MAX_RETRIES_PER_JOB
    OBVIOUS
  <2>5. x <= y
    <3>1. f <= f2 /\ MAX_RETRIES_PER_JOB \in Nat OBVIOUS
    <3> QED BY <2>4, <3>1, Products
  <2>6. p + g <= x BY <1>5, <2>3, <2>4 DEF Budget
  <2> QED BY <2>2, <2>3, <2>4, <2>5, <2>6
<1> QED BY <1>2, <1>3, <1>4, <1>5 DEF Budget

(* The slots but s are as they were. *)
OthersStay(sl, sl2, s) == \A t \in Slots : t # s => sl2[t] = sl[t]

(* A slot takes the delivery from the queue. *)
LEMMA RunFetched ==
  ASSUME NEW sl, NEW sl2, NEW j, NEW j2, NEW row, NEW p \in Nat, NEW f \in Nat, NEW d,
         NEW s \in Slots,
         row.attempts \in Nat,
         Budget(sl, j, row, p, f, d),
         sl2[s].d = d, sl2[s].pc = "find",
         OthersStay(sl, sl2, s),
         Queued(j) = 1, Queued(j2) = 0
  PROVE  Budget(sl2, j2, row, p, f, d)
<1> USE DEF OthersStay
<1> DEFINE a == row.attempts
<1>1. IsFiniteSet(HeldBy(sl, d)) BY DEF Budget
<1>2. HeldBy(sl2, d) = HeldBy(sl, d) \cup {s} BY DEF HeldBy
<1>3. /\ IsFiniteSet(HeldBy(sl2, d))
      /\ Cardinality(HeldBy(sl2, d)) <= Cardinality(HeldBy(sl, d)) + 1
  <2>1. Cardinality(HeldBy(sl, d)) \in Nat BY <1>1, FS_CardinalityType
  <2>2. /\ IsFiniteSet(HeldBy(sl, d) \cup {s})
        /\ Cardinality(HeldBy(sl, d) \cup {s}) \in
             {Cardinality(HeldBy(sl, d)), Cardinality(HeldBy(sl, d)) + 1}
    BY <1>1, FS_AddElement
  <2> QED BY <1>2, <2>1, <2>2
<1>4. Posting(sl2, d) \subseteq Posting(sl, d) /\ Late(sl2, d, a) \subseteq Late(sl, d, a)
  BY DEF Posting, Late, HeldBy
<1>5. Ready(sl2, d, a) \subseteq Ready(sl, d, a) \cup {s} BY DEF Ready, HeldBy
<1>6. /\ Cardinality(Posting(sl2, d)) <= Cardinality(Posting(sl, d))
      /\ Cardinality(Late(sl2, d, a)) <= Cardinality(Late(sl, d, a))
  <2>1. IsFiniteSet(Posting(sl, d)) /\ IsFiniteSet(Late(sl, d, a)) BY <1>1, BudgetSets
  <2> QED BY <1>4, <2>1, FS_Subset
<1>7. Cardinality(Ready(sl2, d, a)) <= Cardinality(Ready(sl, d, a)) + 1
  <2>1. IsFiniteSet(Ready(sl, d, a)) /\ Cardinality(Ready(sl, d, a)) \in Nat
    BY <1>1, BudgetSets
  <2>2. /\ IsFiniteSet(Ready(sl, d, a) \cup {s})
        /\ Cardinality(Ready(sl, d, a) \cup {s}) <= Cardinality(Ready(sl, d, a)) + 1
    BY <2>1, FS_AddElement
  <2>3. Cardinality(Ready(sl2, d, a)) <= Cardinality(Ready(sl, d, a) \cup {s})
    BY <1>5, <2>2, FS_Subset
  <2>4. Cardinality(Ready(sl2, d, a)) \in Nat /\ Cardinality(Ready(sl, d, a) \cup {s}) \in Nat
    BY <1>3, <2>2, BudgetSets, FS_CardinalityType
  <2> QED BY <2>1, <2>2, <2>3, <2>4
<1>8. PICK h \in Nat, h2 \in Nat, g \in Nat, g2 \in Nat, l \in Nat, l2 \in Nat, r \in Nat,
           r2 \in Nat :
        /\ h = Cardinality(HeldBy(sl, d)) /\ h2 = Cardinality(HeldBy(sl2, d))
        /\ g = Cardinality(Posting(sl, d)) /\ g2 = Cardinality(Posting(sl2, d))
        /\ l = Cardinality(Late(sl, d, a)) /\ l2 = Cardinality(Late(sl2, d, a))
        /\ r = Cardinality(Ready(sl, d, a)) /\ r2 = Cardinality(Ready(sl2, d, a))
  BY <1>1, <1>3, BudgetSets
<1>9. PICK x, y : x = (1 + f) * (a + 1) /\ y = (1 + f) * MAX_RETRIES_PER_JOB
  OBVIOUS
<1>10. x \in Nat /\ y \in Nat BY <1>9, ConstantsAssumption
<1>11. /\ h + Queued(j) <= 1 + f
       /\ row.status = "PENDING" => p + l + r + Queued(j) <= x
       /\ row.status # "PENDING" => p + g <= y
  BY <1>8, <1>9 DEF Budget
<1>12. /\ h2 + Queued(j2) <= 1 + f
       /\ row.status = "PENDING" => p + l2 + r2 + Queued(j2) <= x
       /\ row.status # "PENDING" => p + g2 <= y
  BY <1>3, <1>6, <1>7, <1>8, <1>10, <1>11
<1> QED BY <1>3, <1>8, <1>9, <1>12 DEF Budget

(* A slot posts: the run it stood for is now counted in posts. *)
LEMMA RunPosted ==
  ASSUME NEW sl, NEW sl2, NEW j, NEW row, NEW p \in Nat, NEW f \in Nat, NEW d, NEW s \in Slots,
         row.attempts \in Nat, sl[s].attempt \in Nat,
         Budget(sl, j, row, p, f, d),
         sl[s].d = d, sl2[s].d = d, sl[s].pc = "post", sl2[s].pc \in {"success", "failure"},
         sl2[s].attempt = sl[s].attempt,
         row.status = "PENDING" => sl[s].attempt <= row.attempts + 1,
         OthersStay(sl, sl2, s)
  PROVE  Budget(sl2, j, row, p + 1, f, d)
<1> USE DEF OthersStay
<1> DEFINE a == row.attempts
<1>q. Queued(j) \in {0, 1} BY DEF Queued
<1>1. IsFiniteSet(HeldBy(sl, d)) BY DEF Budget
<1>2. HeldBy(sl2, d) = HeldBy(sl, d) BY DEF HeldBy
<1>3. PICK h \in Nat, g \in Nat, g2 \in Nat, l \in Nat, l2 \in Nat, r \in Nat, r2 \in Nat :
        /\ h = Cardinality(HeldBy(sl, d))
        /\ g = Cardinality(Posting(sl, d)) /\ g2 = Cardinality(Posting(sl2, d))
        /\ l = Cardinality(Late(sl, d, a)) /\ l2 = Cardinality(Late(sl2, d, a))
        /\ r = Cardinality(Ready(sl, d, a)) /\ r2 = Cardinality(Ready(sl2, d, a))
  BY <1>1, <1>2, BudgetSets
<1>4. PICK x, y : x = (1 + f) * (a + 1) /\ y = (1 + f) * MAX_RETRIES_PER_JOB
  OBVIOUS
<1>5. x \in Nat /\ y \in Nat BY <1>4, ConstantsAssumption
<1>6. /\ row.status = "PENDING" => p + l + r + Queued(j) <= x
      /\ row.status # "PENDING" => p + g <= y
  BY <1>3, <1>4 DEF Budget
<1>f. IsFiniteSet(Posting(sl, d)) /\ IsFiniteSet(Late(sl, d, a)) /\ IsFiniteSet(Ready(sl, d, a))
  BY <1>1, BudgetSets
<1>7. g2 + 1 <= g
  <2>1. Posting(sl2, d) = Posting(sl, d) \ {s} /\ s \in Posting(sl, d)
    BY DEF Posting, HeldBy
  <2>2. g2 = g - 1 BY <1>3, <1>f, <2>1, FS_RemoveElement
  <2> QED BY <1>3, <2>2
<1>a. row.status = "PENDING" => sl[s].attempt <= a \/ sl[s].attempt = a + 1
  OBVIOUS
<1>8. row.status = "PENDING" => l2 + r2 + 1 <= l + r
  <2>1. CASE sl[s].attempt <= a
    <3>1. Late(sl2, d, a) = Late(sl, d, a) \ {s} /\ s \in Late(sl, d, a)
      BY <2>1 DEF Late, Posting, HeldBy
    <3>2. l2 = l - 1 BY <1>3, <1>f, <3>1, FS_RemoveElement
    <3>3. Ready(sl2, d, a) \subseteq Ready(sl, d, a) BY DEF Ready, HeldBy
    <3>4. r2 <= r BY <1>3, <1>f, <3>3, FS_Subset
    <3> QED BY <1>3, <3>2, <3>4
  <2>2. CASE sl[s].attempt = a + 1
    <3>1. Ready(sl2, d, a) = Ready(sl, d, a) \ {s} /\ s \in Ready(sl, d, a)
      BY <2>2 DEF Ready, HeldBy
    <3>2. r2 = r - 1 BY <1>3, <1>f, <3>1, FS_RemoveElement
    <3>3. Late(sl2, d, a) \subseteq Late(sl, d, a) BY DEF Late, Posting, HeldBy
    <3>4. l2 <= l BY <1>3, <1>f, <3>3, FS_Subset
    <3> QED BY <1>3, <3>2, <3>4
  <2> QED BY <2>1, <2>2, <1>a
<1>9. /\ row.status = "PENDING" => (p + 1) + l2 + r2 + Queued(j) <= x
      /\ row.status # "PENDING" => (p + 1) + g2 <= y
  BY <1>q, <1>5, <1>6, <1>7, <1>8
<1>10. Cardinality(HeldBy(sl2, d)) + Queued(j) <= 1 + f
  BY <1>2 DEF Budget
<1> QED BY <1>1, <1>2, <1>3, <1>4, <1>9, <1>10 DEF Budget

(* A slot records a failure: the next attempt becomes the runs' to make. *)
LEMMA RunRecorded ==
  ASSUME NEW sl, NEW sl2, NEW j, NEW row, NEW row2, NEW p \in Nat, NEW f \in Nat, NEW d,
         NEW s \in Slots,
         row.attempts \in Nat, row.attempts < MAX_RETRIES_PER_JOB,
         row2.attempts = row.attempts + 1,
         row2.status = "PENDING" => row.status = "PENDING",
         Budget(sl, j, row, p, f, d),
         sl[s].d = d, sl2[s].d = d,
         sl2[s].pc \notin {"load", "park", "sign", "post"},
         OthersStay(sl, sl2, s)
  PROVE  Budget(sl2, j, row2, p, f, d)
<1> USE DEF OthersStay
<1> DEFINE a == row.attempts
<1>q. Queued(j) \in {0, 1} BY DEF Queued
<1>1. IsFiniteSet(HeldBy(sl, d)) BY DEF Budget
<1>2. HeldBy(sl2, d) = HeldBy(sl, d) BY DEF HeldBy
<1>3. PICK h \in Nat, g \in Nat, g2 \in Nat, l \in Nat, l2 \in Nat, r \in Nat, r2 \in Nat :
        /\ h = Cardinality(HeldBy(sl, d))
        /\ g = Cardinality(Posting(sl, d)) /\ g2 = Cardinality(Posting(sl2, d))
        /\ l = Cardinality(Late(sl, d, a)) /\ l2 = Cardinality(Late(sl2, d, a + 1))
        /\ r = Cardinality(Ready(sl, d, a)) /\ r2 = Cardinality(Ready(sl2, d, a + 1))
  BY <1>1, <1>2, BudgetSets
<1>4. PICK x, y, z : x = (1 + f) * (a + 1) /\ y = (1 + f) * MAX_RETRIES_PER_JOB
                     /\ z = (1 + f) * ((a + 1) + 1)
  OBVIOUS
<1>5. x \in Nat /\ y \in Nat /\ z = x + (1 + f) /\ x <= y
  <2>1. a + 1 \in Nat /\ a + 1 <= MAX_RETRIES_PER_JOB /\ MAX_RETRIES_PER_JOB \in Nat
    BY ConstantsAssumption
  <2>2. x <= y BY <1>4, <2>1, Products
  <2>3. z = x + (1 + f) BY <1>4, <2>1, Products
  <2> QED BY <1>4, <2>1, <2>2, <2>3
<1>6. /\ h + Queued(j) <= 1 + f
      /\ row.status = "PENDING" => p + l + r + Queued(j) <= x
      /\ row.status # "PENDING" => p + g <= y
  BY <1>3, <1>4 DEF Budget
<1>7. g <= r /\ g2 <= g /\ l2 <= g2 /\ r2 <= h
  <2>1. Posting(sl2, d) \subseteq Posting(sl, d) BY DEF Posting, HeldBy
  <2>2. IsFiniteSet(Posting(sl, d)) BY <1>1, BudgetSets
  <2>3. g2 <= g BY <1>3, <2>1, <2>2, FS_Subset
  <2>4. g <= r BY <1>1, <1>3, BudgetSets
  <2>5. IsFiniteSet(HeldBy(sl2, d)) BY <1>1, <1>2
  <2>6. l2 <= g2 /\ r2 <= Cardinality(HeldBy(sl2, d)) BY <1>3, <2>5, BudgetSets
  <2> QED BY <1>2, <1>3, <2>3, <2>4, <2>6
<1>8. /\ row2.status = "PENDING" => p + l2 + r2 + Queued(j) <= z
      /\ row2.status # "PENDING" => p + g2 <= y
  <2>1. ASSUME row2.status = "PENDING" PROVE p + l2 + r2 + Queued(j) <= z
    <3>1. p + l + r + Queued(j) <= x BY <1>6, <2>1
    <3> QED BY <1>q, <1>3, <1>5, <1>6, <1>7, <3>1
  <2>2. p + g2 <= y
    <3>1. CASE row.status = "PENDING"
      <4>1. p + l + r + Queued(j) <= x BY <1>6, <3>1
      <4> QED BY <1>q, <1>3, <1>5, <1>7, <4>1
    <3>2. CASE row.status # "PENDING"
      BY <1>3, <1>5, <1>6, <1>7, <3>2
    <3> QED BY <3>1, <3>2
  <2> QED BY <2>1, <2>2
<1>9. Cardinality(HeldBy(sl2, d)) + Queued(j) <= 1 + f
  BY <1>2 DEF Budget
<1> QED BY <1>1, <1>2, <1>3, <1>4, <1>8, <1>9 DEF Budget

(* A delivery that stops being PENDING needs no more than its budget. *)
LEMMA RunsSettled ==
  ASSUME NEW sl, NEW sl2, NEW j, NEW j2, NEW row, NEW row2, NEW p \in Nat, NEW f \in Nat,
         NEW f2 \in Nat, NEW d,
         row.attempts \in Nat,
         row.status = "PENDING" => row.attempts < MAX_RETRIES_PER_JOB,
         row2.status # "PENDING",
         Budget(sl, j, row, p, f, d),
         HeldBy(sl2, d) \subseteq HeldBy(sl, d),
         Posting(sl2, d) \subseteq Posting(sl, d),
         Cardinality(HeldBy(sl2, d)) + Queued(j2) <= 1 + f2, f <= f2
  PROVE  Budget(sl2, j2, row2, p, f2, d)
<1> DEFINE a == row.attempts
<1>q. Queued(j) \in {0, 1} BY DEF Queued
<1>1. IsFiniteSet(HeldBy(sl, d)) BY DEF Budget
<1>2. IsFiniteSet(HeldBy(sl2, d)) BY <1>1, FS_Subset
<1>3. PICK g \in Nat, g2 \in Nat, l \in Nat, r \in Nat :
        /\ g = Cardinality(Posting(sl, d)) /\ g2 = Cardinality(Posting(sl2, d))
        /\ l = Cardinality(Late(sl, d, a)) /\ r = Cardinality(Ready(sl, d, a))
  BY <1>1, <1>2, BudgetSets
<1>4. g2 <= g /\ g <= r
  <2>1. IsFiniteSet(Posting(sl, d)) BY <1>1, BudgetSets
  <2>2. g2 <= g BY <1>3, <2>1, FS_Subset
  <2> QED BY <1>1, <1>3, <2>2, BudgetSets
<1>5. PICK x, y, z : x = (1 + f) * (a + 1) /\ y = (1 + f) * MAX_RETRIES_PER_JOB
                     /\ z = (1 + f2) * MAX_RETRIES_PER_JOB
  OBVIOUS
<1>6. x \in Nat /\ y \in Nat /\ z \in Nat /\ y <= z
      /\ (row.status = "PENDING" => x <= y)
  <2>1. a + 1 \in Nat /\ MAX_RETRIES_PER_JOB \in Nat BY ConstantsAssumption
  <2>2. row.status = "PENDING" => x <= y
    BY <1>5, <2>1, Products
  <2>3. y <= z BY <1>5, <2>1, Products
  <2> QED BY <1>5, <2>1, <2>2, <2>3
<1>7. /\ row.status = "PENDING" => p + l + r + Queued(j) <= x
      /\ row.status # "PENDING" => p + g <= y
  BY <1>3, <1>5 DEF Budget
<1>8. p + g2 <= z
  <2>1. CASE row.status = "PENDING"
    <3>1. p + l + r + Queued(j) <= x /\ x <= y BY <1>6, <1>7, <2>1
    <3> QED BY <1>q, <1>3, <1>4, <1>6, <3>1
  <2>2. CASE row.status # "PENDING"
    BY <1>3, <1>4, <1>6, <1>7, <2>2
  <2> QED BY <2>1, <2>2
<1> QED BY <1>2, <1>3, <1>5, <1>8 DEF Budget

(* The slot s lets go of the delivery, the others stay. *)
Releases(sl, sl2, s, d) == sl[s].d = d /\ sl2[s].d # d /\ OthersStay(sl, sl2, s)

(* A slot is done with the delivery: there is room for its run in the queue.   *)
LEMMA HolderGone ==
  ASSUME NEW sl, NEW sl2, NEW j, NEW row, NEW p, NEW f \in Nat, NEW d, NEW s \in Slots,
         Budget(sl, j, row, p, f, d),
         Releases(sl, sl2, s, d)
  PROVE  /\ IsFiniteSet(HeldBy(sl, d))
         /\ HeldBy(sl2, d) \subseteq HeldBy(sl, d)
         /\ Posting(sl2, d) \subseteq Posting(sl, d)
         /\ \A n : /\ Late(sl2, d, n) \subseteq Late(sl, d, n)
                   /\ Ready(sl2, d, n) \subseteq Ready(sl, d, n) \ {s}
         /\ \A j2 : Cardinality(HeldBy(sl2, d)) + Queued(j2) <= 1 + f
<1> USE DEF OthersStay, Releases
<1>q. Queued(j) \in {0, 1} /\ \A j2 : Queued(j2) \in {0, 1} BY DEF Queued
<1>1. IsFiniteSet(HeldBy(sl, d)) BY DEF Budget
<1>2. HeldBy(sl2, d) = HeldBy(sl, d) \ {s} /\ s \in HeldBy(sl, d) BY DEF HeldBy
<1>3. \A j2 : Cardinality(HeldBy(sl2, d)) + Queued(j2) <= 1 + f
  <2>1. Cardinality(HeldBy(sl2, d)) = Cardinality(HeldBy(sl, d)) - 1
    BY <1>1, <1>2, FS_RemoveElement
  <2>2. Cardinality(HeldBy(sl, d)) \in Nat BY <1>1, FS_CardinalityType
  <2>3. Cardinality(HeldBy(sl, d)) + Queued(j) <= 1 + f BY DEF Budget
  <2> QED BY <1>q, <2>1, <2>2, <2>3
<1>4. HeldBy(sl2, d) \subseteq HeldBy(sl, d) /\ Posting(sl2, d) \subseteq Posting(sl, d)
  BY DEF HeldBy, Posting
<1>5. \A n : /\ Late(sl2, d, n) \subseteq Late(sl, d, n)
             /\ Ready(sl2, d, n) \subseteq Ready(sl, d, n) \ {s}
  BY DEF HeldBy, Posting, Late, Ready
<1> QED BY <1>1, <1>3, <1>4, <1>5

(* The run of a slot that may post the next attempt goes back to the queue.    *)
LEMMA RunReturned ==
  ASSUME NEW sl, NEW sl2, NEW j, NEW j2, NEW row, NEW p \in Nat, NEW f \in Nat, NEW d,
         NEW s \in Slots,
         row.attempts \in Nat, row.status = "PENDING",
         Budget(sl, j, row, p, f, d),
         Releases(sl, sl2, s, d),
         s \in Ready(sl, d, row.attempts)
  PROVE  Budget(sl2, j2, row, p, f, d)
<1> DEFINE a == row.attempts
<1>q. Queued(j) \in {0, 1} /\ Queued(j2) \in {0, 1} BY DEF Queued
<1>1. /\ IsFiniteSet(HeldBy(sl, d))
      /\ HeldBy(sl2, d) \subseteq HeldBy(sl, d)
      /\ Late(sl2, d, a) \subseteq Late(sl, d, a)
      /\ Ready(sl2, d, a) \subseteq Ready(sl, d, a) \ {s}
      /\ Cardinality(HeldBy(sl2, d)) + Queued(j2) <= 1 + f
  <2>1. \A n : /\ Late(sl2, d, n) \subseteq Late(sl, d, n)
               /\ Ready(sl2, d, n) \subseteq Ready(sl, d, n) \ {s}
    BY HolderGone
  <2>2. \A k : Cardinality(HeldBy(sl2, d)) + Queued(k) <= 1 + f
    BY HolderGone
  <2>3. IsFiniteSet(HeldBy(sl, d)) /\ HeldBy(sl2, d) \subseteq HeldBy(sl, d)
    BY HolderGone
  <2> QED BY <2>1, <2>2, <2>3
<1>2. IsFiniteSet(HeldBy(sl2, d)) BY <1>1, FS_Subset
<1>3. PICK l \in Nat, l2 \in Nat, r \in Nat, r2 \in Nat :
        /\ l = Cardinality(Late(sl, d, a)) /\ l2 = Cardinality(Late(sl2, d, a))
        /\ r = Cardinality(Ready(sl, d, a)) /\ r2 = Cardinality(Ready(sl2, d, a))
  BY <1>1, <1>2, BudgetSets
<1>4. IsFiniteSet(Late(sl, d, a)) /\ IsFiniteSet(Ready(sl, d, a)) BY <1>1, BudgetSets
<1>5. l2 <= l BY <1>1, <1>3, <1>4, FS_Subset
<1>6. r2 <= r - 1
  <2>1. /\ IsFiniteSet(Ready(sl, d, a) \ {s})
        /\ Cardinality(Ready(sl, d, a) \ {s}) = r - 1
    BY <1>3, <1>4, FS_RemoveElement
  <2> QED BY <1>1, <1>3, <2>1, FS_Subset
<1>7. PICK x : x = (1 + f) * (a + 1) OBVIOUS
<1>8. x \in Nat BY <1>7
<1>9. p + l + r + Queued(j) <= x BY <1>3, <1>7 DEF Budget
<1>10. p + l2 + r2 + Queued(j2) <= x
  BY <1>q, <1>3, <1>5, <1>6, <1>8, <1>9
<1> QED BY <1>1, <1>2, <1>3, <1>7, <1>10 DEF Budget

LEMMA SlotStepKeepsRuns ==
  ASSUME IInv, Runs, NEW s \in Slots, SlotStep(s) PROVE Runs'
<1> USE ConstantsAssumption
<1>0. PICK d \in Deliveries : d = slot[s].d
  BY SlotEffects DEF IInv
<1>t. /\ TypeOK
      /\ slot \in [Slots -> SlotRecord]
      /\ delivery \in [Deliveries -> [status : DeliveryStatus, attempts : Nat]]
      /\ posts \in [Deliveries -> Nat]
      /\ faults \in Nat
  BY DEF IInv, TypeOK
<1>s. /\ faults' \in {faults, faults + 1}
      /\ \A e \in Deliveries : e # d =>
           job'[e] = job[e] /\ delivery'[e] = delivery[e] /\ posts'[e] = posts[e]
      /\ Stays(s) \/ Leaves(s)
  BY <1>0, <1>t, SlotEffects
<1>o. \A t \in Slots : t # s => slot'[t] = slot[t]
  BY <1>t, SlotFrame
<1>os. OthersStay(slot, slot', s) BY <1>o DEF OthersStay
<1>n. /\ faults' \in Nat /\ faults <= faults'
      /\ \A e \in Deliveries : delivery[e].attempts \in Nat /\ posts[e] \in Nat
      /\ \A e \in Deliveries : delivery[e].status = "PENDING" =>
                                 delivery[e].attempts < MAX_RETRIES_PER_JOB
  <2>1. \A e \in Deliveries : delivery[e].status = "PENDING" =>
                                 delivery[e].attempts < MAX_RETRIES_PER_JOB
    BY DEF IInv, LogShape, WellLogged
  <2> QED BY <1>t, <1>s, <2>1
<1>b. \A e \in Deliveries : Budget(slot, job[e], delivery[e], posts[e], faults, e)
  BY DEF Runs
<1>1. ASSUME NEW e \in Deliveries, e # d
      PROVE  Budget(slot', job'[e], delivery'[e], posts'[e], faults', e)
  <2>1. slot'[s].d # e
    <3>1. NoDelivery # e BY DEF Deliveries
    <3> QED BY <1>0, <1>1, <1>t, <3>1, SlotFrame
  <2>2. HeldBy(slot', e) \subseteq HeldBy(slot, e)
    BY <1>o, <2>1 DEF HeldBy
  <2>3. /\ Posting(slot', e) \subseteq Posting(slot, e)
        /\ Late(slot', e, delivery[e].attempts) \subseteq Late(slot, e, delivery[e].attempts)
        /\ Ready(slot', e, delivery[e].attempts) \subseteq Ready(slot, e, delivery[e].attempts)
    BY <1>o, <2>1 DEF HeldBy, Posting, Late, Ready
  <2>4. Queued(job[e]) <= Queued(job[e]) BY DEF Queued
  <2>5. Budget(slot', job[e], delivery[e], posts[e], faults', e)
    BY <1>n, <1>t, <1>b, <2>2, <2>3, <2>4, FewerRuns
  <2> QED BY <1>1, <1>s, <2>5
<1>2. CASE Leaves(s)
  <2>1. slot'[s].d # d /\ posts'[d] = posts[d]
    <3>1. NoDelivery # d BY DEF Deliveries
    <3> QED BY <1>0, <1>2, <3>1 DEF Leaves, IdleSlot
  <2>2. ASSUME delivery'[d].status = "PENDING"
        PROVE  /\ delivery'[d] = delivery[d]
               /\ s \in Ready(slot, d, delivery[d].attempts) \/ faults' = faults + 1
    <3>1. /\ delivery'[d] = delivery[d] /\ slot[s].pc # "success"
          /\ slot[s].pc = "failure" =>
               faults' = faults + 1 \/ log[d][slot[s].attempt] # "none"
      BY <1>0, <1>2, <2>2 DEF Leaves
    <3>2. CASE slot[s].pc # "failure"
      BY <1>0, <3>1, <3>2 DEF Ready, HeldBy
    <3>3. CASE slot[s].pc = "failure" /\ log[d][slot[s].attempt] # "none"
      <4>1. slot[s].attempt \in AttemptNumbers
        BY <3>3 DEF IInv, Snapshots, Working
      <4>2. ~(slot[s].attempt > delivery[d].attempts)
        BY <3>3, <4>1 DEF IInv, LogShape, WellLogged
      <4>3. slot[s].attempt # delivery[d].attempts + 1
        BY <1>n, <4>1, <4>2 DEF AttemptNumbers
      <4> QED BY <1>0, <3>1, <4>3 DEF Ready, HeldBy
    <3> QED BY <3>1, <3>2, <3>3
  <2>3. Budget(slot', job'[d], delivery'[d], posts[d], faults', d)
    <3>b. Budget(slot, job[d], delivery[d], posts[d], faults, d) BY <1>b
    <3>1. /\ HeldBy(slot', d) \subseteq HeldBy(slot, d)
          /\ Posting(slot', d) \subseteq Posting(slot, d)
          /\ Late(slot', d, delivery[d].attempts) \subseteq Late(slot, d, delivery[d].attempts)
          /\ Ready(slot', d, delivery[d].attempts) \subseteq Ready(slot, d, delivery[d].attempts)
          /\ Cardinality(HeldBy(slot', d)) + Queued(job'[d]) <= 1 + faults
      <4>1. Releases(slot, slot', s, d) BY <1>0, <1>os, <2>1 DEF Releases
      <4>2. \A n : /\ Late(slot', d, n) \subseteq Late(slot, d, n)
                   /\ Ready(slot', d, n) \subseteq Ready(slot, d, n) \ {s}
        BY <1>t, <3>b, <4>1, HolderGone
      <4>3. \A k : Cardinality(HeldBy(slot', d)) + Queued(k) <= 1 + faults
        BY <1>t, <3>b, <4>1, HolderGone
      <4>4. /\ HeldBy(slot', d) \subseteq HeldBy(slot, d)
            /\ Posting(slot', d) \subseteq Posting(slot, d)
        BY <1>t, <3>b, <4>1, HolderGone
      <4> QED BY <4>2, <4>3, <4>4
    <3>2. CASE delivery'[d].status # "PENDING"
      <4>1. Cardinality(HeldBy(slot', d)) \in Nat
        <5>1. IsFiniteSet(HeldBy(slot, d)) BY <3>b DEF Budget
        <5> QED BY <3>1, <5>1, FS_Subset, FS_CardinalityType
      <4>2. Queued(job'[d]) \in {0, 1} BY DEF Queued
      <4>3. Cardinality(HeldBy(slot', d)) + Queued(job'[d]) <= 1 + faults'
        BY <1>n, <1>t, <3>1, <4>1, <4>2
      <4>4. /\ delivery[d].attempts \in Nat /\ posts[d] \in Nat
            /\ delivery[d].status = "PENDING" => delivery[d].attempts < MAX_RETRIES_PER_JOB
        BY <1>n
      <4> QED BY <1>n, <1>t, <3>b, <3>1, <3>2, <4>3, <4>4, RunsSettled
    <3>3. CASE delivery'[d] = delivery[d] /\ faults' = faults + 1
      <4>1. Budget(slot', job'[d], delivery[d], posts[d], faults', d)
        BY <1>n, <1>t, <3>b, <3>1, <3>3, FewerRuns
      <4> QED BY <3>3, <4>1
    <3>4. CASE /\ delivery'[d] = delivery[d] /\ faults' = faults
               /\ delivery[d].status = "PENDING"
               /\ s \in Ready(slot, d, delivery[d].attempts)
      <4>1. Budget(slot', job'[d], delivery[d], posts[d], faults, d)
        <5>1. Releases(slot, slot', s, d) BY <1>0, <1>os, <2>1 DEF Releases
        <5> QED BY <1>n, <1>t, <3>b, <3>4, <5>1, RunReturned
      <4> QED BY <3>4, <4>1
    <3> QED BY <1>s, <2>2, <3>2, <3>3, <3>4
  <2> QED BY <1>1, <2>1, <2>3 DEF Runs
<1>3. CASE Stays(s)
  <2>0. job' = job /\ slot'[s].d = d BY <1>0, <1>3 DEF Stays
  <2>h. HeldBy(slot', d) = HeldBy(slot, d) BY <1>0, <1>o, <2>0 DEF HeldBy
  <2>q. Queued(job[d]) <= Queued(job[d]) BY DEF Queued
  <2>1. CASE ReadsRow(s)
    <3>1. /\ delivery' = delivery /\ posts' = posts /\ delivery[d].status = "PENDING"
          /\ slot'[s].attempt = delivery[d].attempts + 1
          /\ slot[s].pc = "find"
      BY <1>0, <2>1 DEF ReadsRow, rows
    <3>2. ~(slot'[s].attempt <= delivery[d].attempts) BY <1>n, <3>1
    <3>3. /\ Late(slot', d, delivery[d].attempts) \subseteq Late(slot, d, delivery[d].attempts)
          /\ Ready(slot', d, delivery[d].attempts) \subseteq Ready(slot, d, delivery[d].attempts)
      BY <1>0, <1>o, <3>1, <3>2 DEF HeldBy, Posting, Late, Ready
    <3>4. Budget(slot', job[d], delivery[d], posts[d], faults', d)
      BY <1>n, <1>t, <1>b, <2>h, <2>q, <3>1, <3>3, FewerRuns
    <3> QED BY <1>1, <2>0, <3>1, <3>4 DEF Runs
  <2>2. CASE ReadsDestination(s) \/ Moves(s)
    <3>1. /\ delivery' = delivery /\ posts' = posts /\ slot'[s].attempt = slot[s].attempt
          /\ slot'[s].pc \in {"load", "park", "sign", "post"} =>
               slot[s].pc \in {"load", "park", "sign", "post"}
          /\ slot[s].pc \in {"success", "failure"} => slot'[s].pc \in {"success", "failure"}
      BY <2>2 DEF ReadsDestination, Moves, rows
    <3>2. /\ Posting(slot', d) \subseteq Posting(slot, d)
          /\ Late(slot', d, delivery[d].attempts) \subseteq Late(slot, d, delivery[d].attempts)
          /\ Ready(slot', d, delivery[d].attempts) \subseteq Ready(slot, d, delivery[d].attempts)
      BY <1>0, <1>o, <3>1 DEF HeldBy, Posting, Late, Ready
    <3>3. Budget(slot', job[d], delivery[d], posts[d], faults', d)
      BY <1>n, <1>t, <1>b, <2>h, <2>q, <3>2, FewerRuns
    <3> QED BY <1>1, <2>0, <3>1, <3>3 DEF Runs
  <2>3. CASE Posts(s)
    <3>1. /\ delivery' = delivery /\ posts'[d] = posts[d] + 1
          /\ slot'[s].attempt = slot[s].attempt
          /\ slot[s].pc = "post" /\ slot'[s].pc \in {"success", "failure"}
      BY <1>0, <1>t, <2>3 DEF Posts, rows
    <3>2. /\ slot[s].attempt \in Nat
          /\ delivery[d].status = "PENDING" => slot[s].attempt <= delivery[d].attempts + 1
      BY <1>0, <3>1 DEF IInv, Snapshots, SnapshotIsCurrent, Working, RowExists, AttemptNumbers
    <3>3. Budget(slot', job[d], delivery[d], posts[d] + 1, faults, d)
      BY <1>0, <1>b, <1>n, <1>os, <1>t, <2>0, <3>1, <3>2, RunPosted
    <3>4. Posting(slot', d) \subseteq Posting(slot', d) OBVIOUS
    <3>5. Budget(slot', job[d], delivery[d], posts[d] + 1, faults', d)
      BY <1>n, <1>t, <2>q, <3>3, FewerRuns
    <3> QED BY <1>1, <2>0, <3>1, <3>5 DEF Runs
  <2>4. CASE Records(s)
    <3>1. /\ posts' = posts /\ RecordFailure(s) /\ faults' = faults
          /\ slot'[s].pc \notin {"load", "park", "sign", "post"}
      BY <2>4 DEF Records, RecordFailure
    <3>2. Working(s) /\ Recordable(s) BY <3>1 DEF RecordFailure, Working
    <3>3. /\ slot[s].attempt = delivery[d].attempts + 1
          /\ slot[s].attempt \in AttemptNumbers
      BY <1>0, <1>t, <3>2, RecordableIsNext DEF IInv
    <3>4. delivery[d].attempts < MAX_RETRIES_PER_JOB
      BY <1>n, <3>3 DEF AttemptNumbers
    <3>5. /\ delivery'[d].attempts = delivery[d].attempts + 1
          /\ delivery'[d].status = "PENDING" => delivery[d].status = "PENDING"
      BY <1>0, <1>t, <3>1, <3>3 DEF RecordFailure
    <3>6. Budget(slot', job[d], delivery'[d], posts[d], faults, d)
      BY <1>0, <1>b, <1>n, <1>os, <1>t, <2>0, <3>1, <3>4, <3>5, RunRecorded
    <3> QED BY <1>1, <2>0, <3>1, <3>6 DEF Runs
  <2> QED BY <1>3, <2>1, <2>2, <2>3, <2>4 DEF Stays
<1> QED BY <1>s, <1>2, <1>3

LEMMA RunsAlways == Spec => []Runs
<1> USE ConstantsAssumption
<1>1. Init => Runs
  <2> SUFFICES ASSUME Init, NEW d \in Deliveries
               PROVE  Budget(slot, job[d], delivery[d], posts[d], faults, d)
    BY DEF Runs
  <2>1. HeldBy(slot, d) = {} /\ Posting(slot, d) = {}
    <3>1. NoDelivery # d BY DEF Deliveries
    <3> QED BY <3>1 DEF Init, HeldBy, Posting, IdleSlot
  <2>2. Queued(job[d]) = 0 BY DEF Init, Queued, NewJob
  <2>3. delivery[d].status # "PENDING" /\ posts[d] = 0 /\ faults = 0 BY DEF Init
  <2>4. (1 + 0) * MAX_RETRIES_PER_JOB \in Nat OBVIOUS
  <2> QED BY <2>1, <2>2, <2>3, <2>4, FS_EmptySet DEF Budget
<1>2. IInv /\ Held /\ Runs /\ [Next]_vars => Runs'
  <2> SUFFICES ASSUME IInv, Held, Runs, [Next]_vars PROVE Runs'
    OBVIOUS
  <2>t. /\ slot \in [Slots -> SlotRecord]
        /\ job \in [Deliveries -> JobRecord]
        /\ faults \in Nat
        /\ \A d \in Deliveries : delivery[d].attempts \in Nat /\ posts[d] \in Nat
    BY DEF IInv, TypeOK
  <2>b. \A d \in Deliveries : Budget(slot, job[d], delivery[d], posts[d], faults, d)
    BY DEF Runs
  <2>f. \A kind : Fault(kind) => faults' = faults + 1
    BY DEF Fault
  <2>q. \A j : Queued(j) \in {0, 1} BY DEF Queued
  <2>k. ASSUME NEW d \in Deliveries, delivery'[d] = delivery[d], posts'[d] = posts[d],
               faults' \in Nat,
               \A t \in Slots : slot'[t].d = d => slot'[t] = slot[t],
               (Queued(job'[d]) <= Queued(job[d]) /\ faults <= faults') \/ faults' = faults + 1
        PROVE  Budget(slot', job'[d], delivery'[d], posts'[d], faults', d)
    <3> DEFINE a == delivery[d].attempts
    <3>1. /\ HeldBy(slot', d) \subseteq HeldBy(slot, d)
          /\ Posting(slot', d) \subseteq Posting(slot, d)
          /\ Late(slot', d, a) \subseteq Late(slot, d, a)
          /\ Ready(slot', d, a) \subseteq Ready(slot, d, a)
      BY <2>k DEF HeldBy, Posting, Late, Ready
    <3>2. Budget(slot', job'[d], delivery[d], posts[d], faults', d)
      BY <2>t, <2>b, <2>k, <3>1, FewerRuns
    <3> QED BY <2>k, <3>2
  <2>1. ASSUME NEW e \in Events, NEW targets \in SUBSET Destinations, Accept(e, targets)
        PROVE  Runs'
    <3>0. UNCHANGED <<slot, posts, faults>> BY <2>1 DEF Accept
    <3> SUFFICES ASSUME NEW d \in Deliveries
                 PROVE  Budget(slot', job'[d], delivery'[d], posts'[d], faults', d)
      BY DEF Runs
    <3>1. CASE delivery'[d] = delivery[d] /\ job'[d] = job[d]
      <4>1. Queued(job'[d]) <= Queued(job[d]) BY <2>q, <3>1
      <4> QED BY <2>k, <2>t, <3>0, <3>1, <4>1
    <3>2. CASE /\ delivery'[d] = [status |-> "PENDING", attempts |-> 0]
               /\ job'[d].state = "adding"
               /\ d[1] \notin accepted
               /\ \A s \in Slots : slot[s].d # d
      <4>1. posts[d] = 0
        BY <2>t, <3>2 DEF Held
      <4>2. /\ HeldBy(slot', d) = {} /\ Late(slot', d, 0) = {} /\ Ready(slot', d, 0) = {}
        BY <3>0, <3>2 DEF HeldBy, Posting, Late, Ready
      <4>3. Queued(job'[d]) = 1 BY <3>2 DEF Queued
      <4>4. delivery'[d].status = "PENDING" /\ delivery'[d].attempts = 0 BY <3>2
      <4>5. Cardinality({}) = 0 /\ IsFiniteSet({}) BY FS_EmptySet
      <4>6. 0 + 0 + 0 + 1 <= (1 + faults) * (0 + 1) /\ 0 + 1 <= 1 + faults BY <2>t
      <4> QED BY <3>0, <4>1, <4>2, <4>3, <4>4, <4>5, <4>6 DEF Budget
    <3> QED BY <2>1, <3>1, <3>2, FreshRows
  <2>2. ASSUME NEW d \in Deliveries,
               Enqueue(d) \/ EnqueueLost(d) \/ DetectStalled(d) \/ LoseLock(d)
        PROVE  Runs'
    <3>0. UNCHANGED <<slot, posts, delivery>>
      BY <2>2 DEF Enqueue, EnqueueLost, DetectStalled, LoseLock, rows
    <3>1. /\ faults' \in Nat /\ faults <= faults'
          /\ \A e \in Deliveries : e # d => job'[e] = job[e]
      BY <2>t, <2>2, <2>f DEF Enqueue, EnqueueLost, DetectStalled, LoseLock, Stalled
    <3>2. Queued(job'[d]) <= Queued(job[d]) \/ faults' = faults + 1
      <4>1. CASE Enqueue(d) \/ DetectStalled(d)
        <5>1. Queued(job[d]) = 1 BY <4>1 DEF Enqueue, DetectStalled, Queued
        <5> QED BY <2>q, <5>1
      <4>2. CASE EnqueueLost(d) \/ LoseLock(d)
        BY <2>f, <4>2 DEF EnqueueLost, LoseLock
      <4> QED BY <2>2, <4>1, <4>2
    <3> SUFFICES ASSUME NEW e \in Deliveries
                 PROVE  Budget(slot', job'[e], delivery'[e], posts'[e], faults', e)
      BY DEF Runs
    <3>3. Queued(job'[e]) <= Queued(job[e]) \/ faults' = faults + 1
      <4>1. CASE e # d BY <2>q, <3>1, <4>1
      <4> QED BY <3>2, <4>1
    <3> QED BY <2>k, <3>0, <3>1, <3>3
  <2>3. CASE UNCHANGED <<slot, job, delivery, posts, faults>>
    BY <2>3 DEF Runs
  <2>4. ASSUME NEW d \in Deliveries, ReplayDelivery(d) PROVE Runs'
    <3>1. delivery[d].status # "FAILED" BY DEF IInv, LogShape, WellLogged
    <3> QED BY <2>3, <2>4, <3>1 DEF ReplayDelivery
  <2>5. ASSUME NEW s \in Slots, NEW d \in Deliveries, Fetch(s, d) PROVE Runs'
    <3>0. UNCHANGED <<delivery, posts, faults>> BY <2>5 DEF Fetch, rows
    <3>1. /\ slot'[s].d = d /\ slot'[s].pc = "find"
          /\ \A t \in Slots : t # s => slot'[t] = slot[t]
      BY <2>t, <2>5 DEF Fetch, IdleSlot
    <3>2. Queued(job[d]) = 1 BY <2>5 DEF Fetch, Queued
    <3>3. job'[d].state = "active" /\ job'[d].owner = s
      <4>1. job[d] \in JobRecord BY <2>t
      <4>2. job'[d] = [job[d] EXCEPT !.state = "active", !.owner = s]
        BY <2>t, <2>5 DEF Fetch
      <4> QED BY <4>1, <4>2 DEF JobRecord
    <3>4. Queued(job'[d]) = 0 BY <3>3 DEF Queued
    <3> SUFFICES ASSUME NEW e \in Deliveries
                 PROVE  Budget(slot', job'[e], delivery'[e], posts'[e], faults', e)
      BY DEF Runs
    <3>5. CASE e = d
      <4>1. Budget(slot', job'[d], delivery[d], posts[d], faults, d)
        <5>1. OthersStay(slot, slot', s) BY <3>1 DEF OthersStay
        <5> QED BY <2>b, <2>t, <3>1, <3>2, <3>4, <5>1, RunFetched
      <4> QED BY <3>0, <3>5, <4>1
    <3>6. CASE e # d
      <4>1. job'[e] = job[e] BY <2>t, <2>5, <3>6 DEF Fetch
      <4>2. Queued(job'[e]) <= Queued(job[e]) BY <2>q, <4>1
      <4> QED BY <2>k, <2>t, <3>0, <3>1, <3>6, <4>2
    <3> QED BY <3>5, <3>6
  <2>6. ASSUME NEW S \in SUBSET Slots, Crash(S) PROVE Runs'
    <3>1. UNCHANGED <<delivery, posts>> /\ faults' = faults + 1
      BY <2>6, <2>f DEF Crash, rows
    <3>2. ASSUME NEW d \in Deliveries, NEW t \in Slots, slot'[t].d = d
          PROVE  slot'[t] = slot[t]
      <4>1. NoDelivery # d BY DEF Deliveries
      <4> QED BY <2>6, <3>2, <4>1 DEF Crash, IdleSlot
    <3> QED BY <2>k, <2>t, <3>1, <3>2 DEF Runs
  <2>7. ASSUME NEW c \in Destinations, AdminStep(c) PROVE Runs'
    <3>0. UNCHANGED <<slot, job, posts, faults>>
      BY <2>7 DEF AdminStep, RequestPause, RequestResume, PauseDestination, ResumeDestination,
                  DeleteDestination
    <3>1. \A d \in Deliveries : delivery'[d] = delivery[d] \/ delivery'[d].status = "DELETED"
      BY <2>7 DEF AdminStep, RequestPause, RequestResume, PauseDestination, ResumeDestination,
                  DeleteDestination, rows
    <3> SUFFICES ASSUME NEW d \in Deliveries
                 PROVE  Budget(slot', job'[d], delivery'[d], posts'[d], faults', d)
      BY DEF Runs
    <3>2. Queued(job'[d]) <= Queued(job[d]) BY <2>q, <3>0
    <3>3. CASE delivery'[d] = delivery[d]
      BY <2>k, <2>t, <3>0, <3>2, <3>3
    <3>4. CASE delivery'[d].status = "DELETED"
      <4>1. Cardinality(HeldBy(slot, d)) + Queued(job[d]) <= 1 + faults
        BY <2>b DEF Budget
      <4>2. delivery[d].status = "PENDING" => delivery[d].attempts < MAX_RETRIES_PER_JOB
        BY DEF IInv, LogShape, WellLogged
      <4>3. Budget(slot, job[d], delivery'[d], posts[d], faults, d)
        BY <2>b, <2>t, <3>4, <4>1, <4>2, RunsSettled
      <4> QED BY <3>0, <4>3
    <3> QED BY <3>1, <3>3, <3>4
  <2>8. ASSUME NEW s \in Slots, SlotStep(s) PROVE Runs'
    BY <2>8, SlotStepKeepsRuns
  <2>9. CASE UNCHANGED vars
    BY <2>3, <2>9 DEF vars
  <2> QED
    <3>1. ASSUME NEW e \in Events, AcceptForAll(e) PROVE Runs'
      BY <3>1, <2>1 DEF AcceptForAll
    <3>2. ASSUME NEW e \in Events, NEW c \in Destinations, AcceptForOne(e, c) PROVE Runs'
      BY <3>2, <2>1 DEF AcceptForOne
    <3> QED BY <3>1, <3>2, <2>2, <2>4, <2>5, <2>6, <2>7, <2>8, <2>9 DEF Next
<1> QED BY <1>1, <1>2, Invariant, HeldAlways, PTL DEF Spec

(* Duplicates cost faults: each attempt of a delivery is posted once, and      *)
(* once more per fault at most, however many slots hold its job.             *)
THEOREM BoundedDuplicatesAlways == Spec => []BoundedDuplicates
<1>1. IInv /\ Runs => BoundedDuplicates
  <2> SUFFICES ASSUME IInv, Runs, NEW d \in Deliveries
               PROVE  posts[d] <= MAX_RETRIES_PER_JOB * (1 + faults)
    BY DEF BoundedDuplicates
  <2>0. faults \in Nat /\ posts[d] \in Nat /\ delivery[d].attempts \in Nat
    BY DEF IInv, TypeOK
  <2>b. Budget(slot, job[d], delivery[d], posts[d], faults, d) BY DEF Runs
  <2>f. IsFiniteSet(HeldBy(slot, d)) BY <2>b DEF Budget
  <2> DEFINE a == delivery[d].attempts
  <2>1. PICK g \in Nat, l \in Nat, r \in Nat :
          /\ g = Cardinality(Posting(slot, d))
          /\ l = Cardinality(Late(slot, d, a)) /\ r = Cardinality(Ready(slot, d, a))
    BY <2>f, BudgetSets
  <2>2. PICK x, y : x = (1 + faults) * (a + 1) /\ y = (1 + faults) * MAX_RETRIES_PER_JOB
    OBVIOUS
  <2>3. x \in Nat /\ y \in Nat /\ y = MAX_RETRIES_PER_JOB * (1 + faults)
    BY <2>0, <2>2, ConstantsAssumption
  <2>q. Queued(job[d]) \in {0, 1} BY DEF Queued
  <2>4. CASE delivery[d].status = "PENDING"
    <3>1. a + 1 \in Nat /\ MAX_RETRIES_PER_JOB \in Nat /\ a + 1 <= MAX_RETRIES_PER_JOB
      BY <2>0, <2>4, ConstantsAssumption DEF IInv, LogShape, WellLogged
    <3>2. x <= y BY <2>0, <2>2, <3>1, Products
    <3>3. posts[d] + l + r + Queued(job[d]) <= x BY <2>b, <2>1, <2>2, <2>4 DEF Budget
    <3> QED BY <2>0, <2>1, <2>3, <2>q, <3>2, <3>3
  <2>5. CASE delivery[d].status # "PENDING"
    <3>1. posts[d] + g <= y BY <2>b, <2>1, <2>2, <2>5 DEF Budget
    <3> QED BY <2>0, <2>1, <2>3, <3>1
  <2> QED BY <2>4, <2>5
<1> QED BY <1>1, Invariant, RunsAlways, PTL

(* Hands cost faults: the slots that work on a delivery and the run that the     *)
(* queue holds are at most one more than the faults, so a token-less          *)
(* moveToDelayed takes a job from its owner and never multiplies it.         *)
THEOREM SlotsBoundedAlways == Spec => []SlotsBounded
<1>1. Runs => SlotsBounded
  BY DEF Runs, Budget, HeldBy, SlotsBounded
<1> QED BY <1>1, RunsAlways, PTL

-----------------------------------------------------------------------------
(* The breaker counts consecutive failures. *)

(* While no overtaken slot has overwritten the count of a destination, the     *)
(* count, and what the slots that are not overtaken have read of it, is at   *)
(* most the current run of failures.                                        *)
ReadFailures(s) == HoldsCount(s) /\ RowExists(slot[s].d)

BreakerAt(c) ==
  c \notin crossed =>
    /\ dest[c].failures <= streak[c]
    /\ dest[c].reason = "auto" /\ dest[c].breaker => streak[c] >= PAUSE_DESTINATION_AFTER
    /\ \A s \in Slots \ overtaken : ReadFailures(s) /\ slot[s].d[2] = c =>
         slot[s].failures <= streak[c]

Breaker == \A c \in Destinations : BreakerAt(c)

(* A step that keeps the run of a destination, writes no count but zero and    *)
(* gives a slot no new count but the stored one keeps Breaker there.         *)
LEMMA BreakerKept ==
  ASSUME NEW c \in Destinations, BreakerAt(c), dest[c].failures \in Nat, streak[c] \in Nat,
         streak'[c] = streak[c], c \notin crossed' => c \notin crossed,
         dest'[c].failures = dest[c].failures \/ dest'[c].failures = 0,
         \/ dest'[c].reason = dest[c].reason /\ dest'[c].breaker = dest[c].breaker
         \/ dest'[c].reason # "auto",
         \A s \in Slots \ overtaken' : ReadFailures(s)' /\ slot'[s].d[2] = c =>
           \/ /\ s \notin overtaken /\ ReadFailures(s) /\ slot[s].d[2] = c
              /\ slot'[s].failures = slot[s].failures
           \/ slot'[s].failures = dest[c].failures
  PROVE  BreakerAt(c)'
<1> SUFFICES ASSUME c \notin crossed'
             PROVE  /\ dest'[c].failures <= streak[c]
                    /\ dest'[c].reason = "auto" /\ dest'[c].breaker =>
                         streak[c] >= PAUSE_DESTINATION_AFTER
                    /\ \A s \in Slots \ overtaken' : ReadFailures(s)' /\ slot'[s].d[2] = c =>
                         slot'[s].failures <= streak[c]
  BY DEF BreakerAt
<1>1. /\ dest[c].failures <= streak[c]
      /\ dest[c].reason = "auto" /\ dest[c].breaker => streak[c] >= PAUSE_DESTINATION_AFTER
      /\ \A s \in Slots \ overtaken : ReadFailures(s) /\ slot[s].d[2] = c =>
           slot[s].failures <= streak[c]
  BY DEF BreakerAt
<1> QED BY <1>1

(* A new run leaves no slot with a count of it.                               *)
LEMMA BreakerRestarts ==
  ASSUME NEW c \in Destinations, NEW S \in SUBSET Slots, StartRun(c, S), TypeOK,
         dest'[c].failures = 0,
         ~(dest'[c].reason = "auto" /\ dest'[c].breaker),
         \A s \in Slots : HoldsCount(s)' => s \in S /\ slot'[s] = slot[s]
  PROVE  BreakerAt(c)'
<1>1. streak'[c] = 0 BY DEF StartRun, TypeOK
<1>2. \A s \in Slots \ overtaken' : ~(ReadFailures(s)' /\ slot'[s].d[2] = c)
  BY DEF StartRun, ReadFailures, HoldsCount
<1> QED BY <1>1, <1>2 DEF BreakerAt

LEMMA BreakerSlotStep ==
  ASSUME IInv, Breaker, NEW s \in Slots, SlotStep(s) PROVE Breaker'
<1> USE ConstantsAssumption
<1>0. PICK d \in Deliveries : d = slot[s].d
  BY SlotEffects DEF IInv
<1>d. d[2] \in Destinations BY DEF Deliveries
<1>t. /\ TypeOK
      /\ slot \in [Slots -> SlotRecord]
      /\ dest \in [Destinations -> DestinationRow]
      /\ streak \in [Destinations -> Nat]
      /\ overtaken \subseteq Slots
  BY DEF IInv, TypeOK
<1>n. \A c \in Destinations : dest[c].failures \in Nat /\ streak[c] \in Nat
  BY <1>t DEF DestinationRow
<1>s. Stays(s) \/ Leaves(s)
  BY <1>t, SlotEffects
<1>o. \A t \in Slots : t # s => slot'[t] = slot[t]
  BY <1>t, SlotFrame
<1>e. ASSUME NEW t \in Slots, ReadFailures(t)', t # s
      PROVE  ReadFailures(t) /\ slot'[t] = slot[t]
  <2>1. slot'[t] = slot[t] BY <1>o, <1>e
  <2>2. PICK e \in Deliveries : e = slot[t].d
    BY <1>e, <1>t, <2>1 DEF ReadFailures, HoldsCount, TypeOK, SlotRecord
  <2>3. RowExists(e)' => RowExists(e) BY RowsOfSlotSteps
  <2>4. RowExists(e)' BY <1>e, <2>1, <2>2 DEF ReadFailures, RowExists
  <2> QED BY <1>e, <2>1, <2>2, <2>3, <2>4 DEF ReadFailures, HoldsCount
<1>b. \A c \in Destinations : BreakerAt(c) BY DEF Breaker
<1>1. CASE RecordSuccess(s)
  <2> SUFFICES ASSUME NEW c \in Destinations PROVE BreakerAt(c)'
    BY DEF Breaker
  <2>0. StartRun(d[2], Slots \ {s}) BY <1>0, <1>1 DEF RecordSuccess
  <2>1. ~HoldsCount(s)'
    <3>1. slot'[s] = IdleSlot
      BY <1>1, <1>t, JobEnds DEF RecordSuccess
    <3> QED BY <3>1 DEF HoldsCount, IdleSlot
  <2>2. dest[c] \in DestinationRow BY <1>t
  <2>3. CASE c = d[2]
    <3>1. dest'[c] = [dest[c] EXCEPT !.failures = 0, !.breaker = FALSE]
      BY <1>0, <1>1, <1>t, <2>3 DEF RecordSuccess
    <3>2. dest'[c].failures = 0 /\ dest'[c].breaker = FALSE
      BY <2>2, <3>1 DEF DestinationRow
    <3>3. \A t \in Slots : HoldsCount(t)' => t \in Slots \ {s} /\ slot'[t] = slot[t]
      BY <1>o, <2>1
    <3> QED BY <1>t, <2>0, <2>3, <3>2, <3>3, BreakerRestarts
  <2>4. CASE c # d[2]
    <3>1. dest'[c] = dest[c] BY <1>0, <1>1, <1>t, <2>4 DEF RecordSuccess
    <3>2. streak'[c] = streak[c] /\ (c \notin crossed' => c \notin crossed)
      BY <1>t, <2>0, <2>4 DEF StartRun
    <3>3. overtaken \subseteq overtaken' BY <2>0 DEF StartRun
    <3>4. \A t \in Slots \ overtaken' : ReadFailures(t)' /\ slot'[t].d[2] = c =>
            /\ t \notin overtaken /\ ReadFailures(t) /\ slot[t].d[2] = c
            /\ slot'[t].failures = slot[t].failures
      BY <1>e, <2>1, <3>3 DEF ReadFailures
    <3> QED BY <1>b, <1>n, <3>1, <3>2, <3>4, BreakerKept
  <2> QED BY <2>3, <2>4
<1>2. CASE RecordFailure(s)
  <2> SUFFICES ASSUME NEW c \in Destinations PROVE BreakerAt(c)'
    BY DEF Breaker
  <2>0. AddToRun(s) BY <1>2 DEF RecordFailure
  <2>1. ~HoldsCount(s)'
    <3>1. PICK pc \in {"breakerIncident", "deadIncident", "requeue"} : Goto(s, pc)
      BY <1>2 DEF RecordFailure, AfterBreakerIncident
    <3>2. slot'[s].pc = pc BY <1>t, <3>1 DEF Goto, SlotRecord
    <3> QED BY <3>2 DEF HoldsCount
  <2>2. \A t \in Slots \ overtaken' : ReadFailures(t)' =>
          t \notin overtaken /\ t # s /\ ReadFailures(t) /\ slot'[t] = slot[t]
    BY <1>e, <2>0, <2>1 DEF ReadFailures, AddToRun
  <2>3. CASE c # d[2]
    <3>1. dest'[c] = dest[c]
      BY <1>0, <1>2, <1>t, <2>3 DEF RecordFailure, CountFailure
    <3>2. streak'[c] = streak[c] /\ (c \notin crossed' => c \notin crossed)
      BY <1>0, <1>t, <2>0, <2>3 DEF AddToRun
    <3> QED BY <1>b, <1>n, <2>2, <3>1, <3>2, BreakerKept
  <2>4. CASE c = d[2]
    <3> SUFFICES ASSUME c \notin crossed' PROVE BreakerAt(c)'
      BY DEF BreakerAt
    <3>1. /\ streak'[c] = streak[c] + 1
          /\ c \notin crossed /\ s \notin overtaken
      BY <1>0, <1>t, <2>0, <2>4 DEF AddToRun
    <3>2. /\ dest[c].failures <= streak[c]
          /\ dest[c].reason = "auto" /\ dest[c].breaker => streak[c] >= PAUSE_DESTINATION_AFTER
          /\ \A t \in Slots \ overtaken : ReadFailures(t) /\ slot[t].d[2] = c =>
               slot[t].failures <= streak[c]
      BY <1>b, <3>1 DEF BreakerAt
    <3>3. slot[s].failures <= streak[c] /\ slot[s].failures \in Nat
      <4>1. ReadFailures(s) /\ slot[s].d[2] = c
        BY <1>0, <1>2, <2>4 DEF RecordFailure, Recordable, ReadFailures, HoldsCount
      <4> QED BY <1>t, <3>1, <3>2, <4>1 DEF SlotRecord
    <3>4. dest[c] \in DestinationRow BY <1>t
    <3>5. /\ dest'[c].failures = slot[s].failures + 1
          /\ dest'[c].reason = "auto" /\ dest'[c].breaker =>
               \/ dest[c].reason = "auto" /\ dest[c].breaker
               \/ slot[s].failures + 1 >= PAUSE_DESTINATION_AFTER
      <4>1. dest' = [dest EXCEPT ![c] =
                       IF BreakerJustOpened(s)
                         THEN [dest[c] EXCEPT !.failures = NextConsecutiveFailures(s),
                                     !.status = "PAUSED", !.breaker = TRUE, !.reason = "auto"]
                         ELSE [dest[c] EXCEPT !.failures = NextConsecutiveFailures(s)]]
        BY <1>0, <1>2, <2>4 DEF RecordFailure, CountFailure
      <4>2. CASE BreakerJustOpened(s)
        BY <1>t, <3>4, <4>1, <4>2 DEF BreakerJustOpened, NextConsecutiveFailures, DestinationRow
      <4>3. CASE ~BreakerJustOpened(s)
        BY <1>t, <3>4, <4>1, <4>3 DEF NextConsecutiveFailures, DestinationRow
      <4> QED BY <4>2, <4>3
    <3>6. /\ dest'[c].failures <= streak[c] + 1
          /\ dest'[c].reason = "auto" /\ dest'[c].breaker =>
               streak[c] + 1 >= PAUSE_DESTINATION_AFTER
      BY <1>n, <3>2, <3>3, <3>5
    <3>7. \A t \in Slots \ overtaken' : ReadFailures(t)' /\ slot'[t].d[2] = c =>
            slot'[t].failures <= streak[c] + 1
      <4>1. \A t \in Slots : slot[t].failures \in Nat BY <1>t DEF SlotRecord
      <4>2. ASSUME NEW t \in Slots \ overtaken', ReadFailures(t)', slot'[t].d[2] = c
            PROVE  slot'[t].failures <= streak[c] + 1
        <5>1. t \notin overtaken /\ ReadFailures(t) /\ slot'[t] = slot[t] BY <2>2, <4>2
        <5>2. slot[t].failures <= streak[c] BY <3>2, <4>2, <5>1
        <5> QED BY <1>n, <4>1, <5>1, <5>2
      <4> QED BY <4>2
    <3> QED BY <3>1, <3>6, <3>7 DEF BreakerAt
  <2> QED BY <2>3, <2>4
<1>3. CASE ~RecordSuccess(s) /\ ~RecordFailure(s)
  <2> SUFFICES ASSUME NEW c \in Destinations PROVE BreakerAt(c)'
    BY DEF Breaker
  <2>1. /\ dest' = dest /\ UNCHANGED <<streak, crossed>>
        /\ UNCHANGED overtaken \/ (CatchUp(s) /\ LoadDestination(s))
    BY <1>3
    DEF SlotStep, FindDelivery, LoadDestination, Park, Sign, SignFails, Post, SuccessAborts,
        FailureAborts, OpenBreakerIncident, OpenDeadLetterIncident, IncidentFails, Requeue, rows,
        history, CatchUp
  <2>2. \A t \in Slots : t # s /\ t \notin overtaken' => t \notin overtaken
    BY <2>1 DEF CatchUp
  <2>3. s \notin overtaken' /\ ReadFailures(s)' /\ slot'[s].d[2] = c =>
          \/ /\ s \notin overtaken /\ ReadFailures(s) /\ slot[s].d[2] = c
             /\ slot'[s].failures = slot[s].failures
          \/ slot'[s].failures = dest[c].failures
    <3> SUFFICES ASSUME s \notin overtaken', ReadFailures(s)', slot'[s].d[2] = c
                 PROVE  \/ /\ s \notin overtaken /\ ReadFailures(s) /\ slot[s].d[2] = c
                           /\ slot'[s].failures = slot[s].failures
                        \/ slot'[s].failures = dest[c].failures
      OBVIOUS
    <3>1. Stays(s) BY <1>s DEF Leaves, IdleSlot, ReadFailures, HoldsCount
    <3>2. slot'[s].d = d BY <1>0, <3>1 DEF Stays
    <3>3. RowExists(d) BY <3>2, RowsOfSlotSteps DEF ReadFailures, RowExists
    <3>4. CASE ReadsRow(s) BY <3>4 DEF ReadsRow, ReadFailures, HoldsCount
    <3>5. CASE ReadsDestination(s)
      BY <1>0, <3>2, <3>5 DEF ReadsDestination, ReadFailures, HoldsCount
    <3>m. CASE Moves(s) \/ Posts(s)
      <4>1. slot[s].pc # "load"
        BY <3>m DEF Moves, Posts, HoldsCount, ReadFailures
      <4>2. s \notin overtaken BY <2>1, <4>1 DEF LoadDestination
      <4>3. CASE Moves(s)
        BY <1>0, <3>2, <3>3, <4>2, <4>3 DEF Moves, ReadFailures, HoldsCount
      <4>4. CASE Posts(s)
        BY <1>0, <3>2, <3>3, <4>2, <4>4 DEF Posts, ReadFailures, HoldsCount
      <4> QED BY <3>m, <4>3, <4>4
    <3> QED BY <1>3, <3>1, <3>4, <3>5, <3>m DEF Stays, Records
  <2>4. \A t \in Slots \ overtaken' : ReadFailures(t)' /\ slot'[t].d[2] = c =>
          \/ /\ t \notin overtaken /\ ReadFailures(t) /\ slot[t].d[2] = c
             /\ slot'[t].failures = slot[t].failures
          \/ slot'[t].failures = dest[c].failures
    BY <1>e, <2>2, <2>3
  <2> QED BY <1>b, <1>n, <2>1, <2>4, BreakerKept
<1> QED BY <1>1, <1>2, <1>3

LEMMA BreakerAlways == Spec => []Breaker
<1> USE ConstantsAssumption
<1>1. Init => Breaker
  <2> SUFFICES ASSUME Init, NEW c \in Destinations PROVE BreakerAt(c)
    BY DEF Breaker
  <2>1. dest[c].failures = 0 /\ dest[c].reason = "none" /\ streak[c] = 0 BY DEF Init
  <2>2. \A s \in Slots : ~ReadFailures(s) BY DEF Init, IdleSlot, ReadFailures, HoldsCount
  <2> QED BY <2>1, <2>2 DEF BreakerAt
<1>2. IInv /\ Breaker /\ [Next]_vars => Breaker'
  <2> SUFFICES ASSUME IInv, Breaker, [Next]_vars PROVE Breaker'
    OBVIOUS
  <2>t. /\ TypeOK
        /\ slot \in [Slots -> SlotRecord]
        /\ dest \in [Destinations -> DestinationRow]
        /\ streak \in [Destinations -> Nat]
        /\ \A t \in Slots : slot[t].d = NoDelivery => slot[t].pc = "idle"
    BY DEF IInv, TypeOK
  <2>n. \A c \in Destinations : dest[c].failures \in Nat /\ streak[c] \in Nat
    BY <2>t DEF DestinationRow
  <2>b. \A c \in Destinations : BreakerAt(c) BY DEF Breaker
  <2>k. ASSUME dest' = dest, UNCHANGED history,
               \A t \in Slots : ReadFailures(t)' => ReadFailures(t) /\ slot'[t] = slot[t]
        PROVE  Breaker'
    <3> SUFFICES ASSUME NEW c \in Destinations PROVE BreakerAt(c)'
      BY DEF Breaker
    <3>1. UNCHANGED <<streak, overtaken, crossed>> BY <2>k DEF history
    <3> QED BY <2>b, <2>k, <2>n, <3>1, BreakerKept
  <2>1. ASSUME NEW e \in Events, NEW targets \in SUBSET Destinations, Accept(e, targets)
        PROVE  Breaker'
    <3>1. slot' = slot /\ dest' = dest /\ UNCHANGED history BY <2>1 DEF Accept
    <3>2. ASSUME NEW t \in Slots, ReadFailures(t)' PROVE ReadFailures(t)
      <4>1. slot[t].d \in Deliveries
        BY <2>t, <3>1, <3>2 DEF ReadFailures, HoldsCount, SlotRecord
      <4>2. delivery'[slot[t].d] = delivery[slot[t].d] BY <2>1, <4>1, FreshRows
      <4> QED BY <3>1, <3>2, <4>2 DEF ReadFailures, HoldsCount, RowExists
    <3> QED BY <2>k, <3>1, <3>2
  <2>2. ASSUME NEW d \in Deliveries,
               Enqueue(d) \/ EnqueueLost(d) \/ DetectStalled(d) \/ LoseLock(d)
        PROVE  Breaker'
    <3>1. UNCHANGED <<slot, dest, delivery, history>>
      BY <2>2 DEF Enqueue, EnqueueLost, DetectStalled, LoseLock, rows
    <3> QED BY <2>k, <3>1 DEF ReadFailures, HoldsCount, RowExists
  <2>3. ASSUME NEW d \in Deliveries, ReplayDelivery(d) PROVE Breaker'
    <3>1. delivery[d].status # "FAILED" BY DEF IInv, LogShape, WellLogged
    <3>2. UNCHANGED <<slot, dest, delivery, history>> BY <2>3, <3>1 DEF ReplayDelivery
    <3> QED BY <2>k, <3>2 DEF ReadFailures, HoldsCount, RowExists
  <2>4. ASSUME NEW s \in Slots, NEW d \in Deliveries, Fetch(s, d) PROVE Breaker'
    <3>1. UNCHANGED <<dest, delivery, history>> BY <2>4 DEF Fetch, rows
    <3>2. /\ slot'[s].pc = "find"
          /\ \A t \in Slots : t # s => slot'[t] = slot[t]
      BY <2>t, <2>4 DEF Fetch, IdleSlot
    <3>3. \A t \in Slots : ReadFailures(t)' => ReadFailures(t) /\ slot'[t] = slot[t]
      BY <3>1, <3>2 DEF ReadFailures, HoldsCount, RowExists
    <3> QED BY <2>k, <3>1, <3>3
  <2>5. ASSUME NEW S \in SUBSET Slots, Crash(S) PROVE Breaker'
    <3>1. UNCHANGED <<dest, delivery, history>> BY <2>5 DEF Crash, rows
    <3>2. \A t \in Slots : ReadFailures(t)' => ReadFailures(t) /\ slot'[t] = slot[t]
      BY <2>5, <3>1 DEF Crash, IdleSlot, ReadFailures, HoldsCount, RowExists
    <3> QED BY <2>k, <3>1, <3>2
  <2>6. ASSUME NEW b \in Destinations, AdminStep(b) PROVE Breaker'
    <3>0. slot' = slot
      BY <2>6 DEF AdminStep, RequestPause, RequestResume, PauseDestination, ResumeDestination,
                  DeleteDestination
    <3> SUFFICES ASSUME NEW c \in Destinations PROVE BreakerAt(c)'
      BY DEF Breaker
    <3>r. dest[c] \in DestinationRow BY <2>t
    <3>1. CASE RequestPause(b) \/ RequestResume(b)
      <4>1. UNCHANGED <<dest, delivery, history>> BY <3>1 DEF RequestPause, RequestResume, rows
      <4>2. Breaker' BY <2>k, <3>0, <4>1 DEF ReadFailures, HoldsCount, RowExists
      <4> QED BY <4>2 DEF Breaker
    <3>2. CASE PauseDestination(b)
      <4>1. UNCHANGED <<delivery, history>> BY <3>2 DEF PauseDestination
      <4>2. \/ dest'[c] = dest[c]
            \/ dest'[c] = [dest[c] EXCEPT !.status = "PAUSED", !.reason = "manual"]
        BY <2>t, <3>2 DEF PauseDestination
      <4>3. /\ dest'[c].failures = dest[c].failures
            /\ \/ dest'[c].reason = dest[c].reason /\ dest'[c].breaker = dest[c].breaker
               \/ dest'[c].reason # "auto"
        BY <3>r, <4>2 DEF DestinationRow
      <4>4. UNCHANGED <<streak, overtaken, crossed>> BY <4>1 DEF history
      <4>5. \A t \in Slots : ReadFailures(t)' => ReadFailures(t) /\ slot'[t] = slot[t]
        BY <3>0, <4>1 DEF ReadFailures, HoldsCount, RowExists
      <4> QED BY <2>b, <2>n, <4>3, <4>4, <4>5, BreakerKept
    <3>3. CASE ResumeDestination(b)
      <4>0. delivery' = delivery BY <3>3 DEF ResumeDestination
      <4>1. CASE dest[b].status = "DELETED"
        <5>1. UNCHANGED <<dest, history>> BY <3>3, <4>1 DEF ResumeDestination
        <5>2. Breaker' BY <2>k, <3>0, <4>0, <5>1 DEF ReadFailures, HoldsCount, RowExists
        <5> QED BY <5>2 DEF Breaker
      <4>2. CASE dest[b].status # "DELETED"
        <5>0. StartRun(b, Slots) BY <3>3, <4>2 DEF ResumeDestination
        <5>1. CASE c = b
          <6>1. dest'[c] = [dest[c] EXCEPT !.status = "ACTIVE", !.reason = "none", !.failures = 0]
            BY <2>t, <3>3, <4>2, <5>1 DEF ResumeDestination
          <6>2. dest'[c].failures = 0 /\ dest'[c].reason # "auto"
            BY <3>r, <6>1 DEF DestinationRow
          <6>3. \A t \in Slots : HoldsCount(t)' => t \in Slots /\ slot'[t] = slot[t]
            BY <3>0
          <6> QED BY <2>t, <5>0, <5>1, <6>2, <6>3, BreakerRestarts
        <5>2. CASE c # b
          <6>1. dest'[c] = dest[c] BY <2>t, <3>3, <5>2 DEF ResumeDestination
          <6>2. streak'[c] = streak[c] /\ (c \notin crossed' => c \notin crossed)
            BY <2>t, <5>0, <5>2 DEF StartRun
          <6>3. overtaken \subseteq overtaken' BY <5>0 DEF StartRun
          <6>4. \A t \in Slots : ReadFailures(t)' => ReadFailures(t) /\ slot'[t] = slot[t]
            BY <3>0, <4>0 DEF ReadFailures, HoldsCount, RowExists
          <6> QED BY <2>b, <2>n, <6>1, <6>2, <6>3, <6>4, BreakerKept
        <5> QED BY <5>1, <5>2
      <4> QED BY <4>1, <4>2
    <3>4. CASE DeleteDestination(b)
      <4>1. ASSUME NEW t \in Slots, ReadFailures(t)'
            PROVE  ReadFailures(t) /\ slot[t].d[2] # b
        <5>1. slot[t].d \in Deliveries
          BY <2>t, <3>0, <4>1 DEF ReadFailures, HoldsCount, SlotRecord
        <5>2. delivery'[slot[t].d].status # "DELETED" BY <3>0, <4>1 DEF ReadFailures, RowExists
        <5>3. delivery'[slot[t].d] = delivery[slot[t].d] BY <3>4, <5>1, <5>2 DEF DeleteDestination
        <5>4. RowExists(slot[t].d) BY <3>0, <4>1, <5>3 DEF ReadFailures, RowExists
        <5>5. slot[t].d[2] # b BY <3>4, <5>1, <5>2, <5>4 DEF DeleteDestination
        <5> QED BY <3>0, <4>1, <5>4, <5>5 DEF ReadFailures, HoldsCount
      <4>2. UNCHANGED <<streak, overtaken, crossed>> BY <3>4 DEF DeleteDestination, history
      <4>3. \/ dest'[c] = dest[c]
            \/ dest'[c].failures = 0 /\ dest'[c].reason = "none"
        BY <2>t, <3>4 DEF DeleteDestination
      <4> QED BY <2>b, <2>n, <3>0, <4>1, <4>2, <4>3, BreakerKept
    <3> QED BY <2>6, <3>1, <3>2, <3>3, <3>4 DEF AdminStep
  <2>7. ASSUME NEW s \in Slots, SlotStep(s) PROVE Breaker'
    BY <2>7, BreakerSlotStep
  <2>8. CASE UNCHANGED vars
    BY <2>k, <2>8 DEF vars, ReadFailures, HoldsCount, RowExists
  <2> QED
    <3>1. ASSUME NEW e \in Events, AcceptForAll(e) PROVE Breaker'
      BY <3>1, <2>1 DEF AcceptForAll
    <3>2. ASSUME NEW e \in Events, NEW c \in Destinations, AcceptForOne(e, c) PROVE Breaker'
      BY <3>2, <2>1 DEF AcceptForOne
    <3> QED BY <3>1, <3>2, <2>2, <2>3, <2>4, <2>5, <2>6, <2>7, <2>8, <2>1 DEF Next
<1> QED BY <1>1, <1>2, Invariant, PTL DEF Spec

(* The breaker opens only after PAUSE_DESTINATION_AFTER consecutive failures,    *)
(* except where a slot overtaken by a success or a resume has written back    *)
(* the count it had read before.                                             *)
THEOREM BreakerNotEarlyAlways == Spec => []BreakerNotEarly
<1>1. Breaker => BreakerNotEarly
  BY DEF Breaker, BreakerAt, BreakerNotEarly
<1> QED BY <1>1, BreakerAlways, PTL
=============================================================================
