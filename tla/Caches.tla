-------------------------------- MODULE Caches --------------------------------
(***************************************************************************)
(* Values of PostgreSQL that are read through a copy in Redis: the signing *)
(* secrets of destinations (deliveryWorker.ts, delivery.service.ts,        *)
(* destination.service.ts) and the list of rate limit configurations       *)
(* (config-cache.service.ts, config-sync.worker.ts).                       *)
(*                                                                         *)
(* The two are read by the same protocol and differ in what follows a      *)
(* change: a list of configurations is dropped from Redis by a queued job  *)
(* (its producer is outside the repository), a secret stays until it       *)
(* expires.  Nothing relates two values, so the model has one, of either   *)
(* kind.                                                                   *)
(***************************************************************************)
EXTENDS Integers

CONSTANTS
  TTL,            \* the life of a copy by kind: CACHE_TTL, 86400
  Readers,        \* workers and requests that read at the same time
  DELAY,          \* bound on the time a reader takes
  MaxTime, MaxVersion, MaxFaults, MaxJobs

ASSUME CachesAssumption ==
  /\ TTL \in [{"secret", "config"} -> Nat \ {0}]
  /\ DELAY \in Nat /\ MaxTime \in Nat
  /\ MaxVersion \in Nat \ {0} /\ MaxFaults \in Nat /\ MaxJobs \in Nat

VARIABLES
  kind,           \* "secret" or "config"; it never changes
  row,            \* PostgreSQL: the version of the value, 0 when it is deleted
  copy,           \* Redis: version and time of expiry
  job,            \* invalidations in the config-sync queue
  reader,         \* workers and requests reading a value
  now, faults,
  replaced,       \* history: when a version was replaced
  floor           \* history: what the last undisturbed invalidation left behind

vars == <<kind, row, copy, job, reader, now, faults, replaced, floor>>
history == <<replaced, floor>>

Never == MaxTime + 1
Times == 0 .. MaxTime
Versions == 1 .. MaxVersion
NoCopy == [version |-> 0, until |-> 0]
Idle == [pc |-> "idle", version |-> 0, begun |-> 0, got |-> 0]

Pc == {"idle", "load", "get", "load_missing", "store", "use"}
ReaderRecord == [pc : Pc, version : Versions \cup {0}, begun : Times, got : Times]

TypeOK ==
  /\ kind \in {"secret", "config"}
  /\ row \in Versions \cup {0}
  /\ \/ copy = NoCopy
     \/ copy \in [version : Versions, until : 1 .. MaxTime + TTL[kind]]
  /\ job \in Nat
  /\ reader \in [Readers -> ReaderRecord]
  /\ now \in Times /\ faults \in Nat
  /\ replaced \in [Versions -> Times \cup {Never}]
  /\ floor \in Versions \cup {0}

Init ==
  /\ kind \in {"secret", "config"}
  /\ row = 1 /\ copy = NoCopy /\ job = 0
  /\ reader = [r \in Readers |-> Idle]
  /\ now = 0 /\ faults = 0
  /\ replaced = [v \in Versions |-> Never] /\ floor = 0

-----------------------------------------------------------------------------
(* Readers. *)
Moved(r, pc) == reader' = [reader EXCEPT ![r].pc = pc]
Finished(r) == reader' = [reader EXCEPT ![r] = Idle]

(* The reader has now read version v. *)
Holds(r, pc, v) ==
  reader' = [reader EXCEPT ![r] = [pc |-> pc, version |-> v,
                                   begun |-> reader[r].begun, got |-> now]]

Begin(r, pc) ==
  /\ reader[r].pc = "idle"
  /\ reader' = [reader EXCEPT ![r] = [pc |-> pc, version |-> 0, begun |-> now, got |-> now]]
  /\ UNCHANGED <<kind, row, copy, job, now, faults, history>>

(* A delivery worker reads the destination, later the copy of its secret. *)
BeginSigning(r) == kind = "secret" /\ Begin(r, "load")

(* getAll, of a request or of a sync_all job, and the warming of the secret in  *)
(* replayDelivery read the copy first.                                          *)
BeginLookup(r) == Begin(r, "get")

(* A deleted destination fails the job. *)
Load(r) ==
  /\ reader[r].pc = "load"
  /\ \/ row # 0 /\ Holds(r, "get", row)
     \/ row = 0 /\ Finished(r)
  /\ UNCHANGED <<kind, row, copy, job, now, faults, history>>

Alive == copy # NoCopy /\ now < copy.until

(* Variant: a hit prolongs the life of the copy. *)
GetProlonging(r) ==
  /\ reader[r].pc = "get"
  /\ \/ /\ Alive
        /\ Holds(r, "use", copy.version)
        /\ copy' = [copy EXCEPT !.until = now + TTL[kind]]
     \/ ~Alive /\ reader[r].version # 0 /\ Moved(r, "store") /\ UNCHANGED copy
     \/ ~Alive /\ reader[r].version = 0 /\ Moved(r, "load_missing") /\ UNCHANGED copy
  /\ UNCHANGED <<kind, row, job, now, faults, history>>

Get(r) ==
  /\ reader[r].pc = "get"
  /\ \/ Alive /\ Holds(r, "use", copy.version)
     \/ ~Alive /\ reader[r].version # 0 /\ Moved(r, "store")
     \/ ~Alive /\ reader[r].version = 0 /\ Moved(r, "load_missing")
  /\ UNCHANGED <<kind, row, copy, job, now, faults, history>>

LoadMissing(r) ==
  /\ reader[r].pc = "load_missing"
  /\ \/ row # 0 /\ Holds(r, "store", row)
     \/ row = 0 /\ Finished(r)
  /\ UNCHANGED <<kind, row, copy, job, now, faults, history>>

(* SET with EX: what is there is overwritten, a newer version too. *)
Store(r) ==
  /\ reader[r].pc = "store"
  /\ copy' = [version |-> reader[r].version, until |-> now + TTL[kind]]
  /\ Moved(r, "use")
  /\ UNCHANGED <<kind, row, job, now, faults, history>>

(* The payload is signed, or the request checked, with what was read. *)
Use(r) ==
  /\ reader[r].pc = "use"
  /\ Finished(r)
  /\ UNCHANGED <<kind, row, copy, job, now, faults, history>>

(* A call fails, or the process of the reader dies. *)
ReaderFails(r) ==
  /\ reader[r].pc # "idle" /\ faults < MaxFaults
  /\ faults' = faults + 1
  /\ Finished(r)
  /\ UNCHANGED <<kind, row, copy, job, now, history>>

-----------------------------------------------------------------------------
(* Changes. *)

(* The copy in Redis is left as it is.                                         *)
RotateSecret ==
  /\ kind = "secret" /\ row \in 1 .. MaxVersion - 1
  /\ row' = row + 1
  /\ replaced' = [replaced EXCEPT ![row] = now]
  /\ UNCHANGED <<kind, copy, job, reader, now, faults, floor>>

(* External: whoever edits the configurations, for instance by hand, and adds  *)
(* a job to the queue the worker serves.  No code under src/ does either yet.  *)
ChangeConfigurations ==
  /\ kind = "config" /\ row \in 1 .. MaxVersion - 1 /\ job < MaxJobs
  /\ row' = row + 1
  /\ job' = job + 1
  /\ replaced' = [replaced EXCEPT ![row] = now]
  /\ UNCHANGED <<kind, copy, reader, now, faults, floor>>

DeleteDestination ==
  /\ kind = "secret" /\ row # 0
  /\ row' = 0
  /\ replaced' = [replaced EXCEPT ![row] = now]
  /\ UNCHANGED <<kind, copy, job, reader, now, faults, floor>>

(* A reader is about to store a version that is not the present one. *)
Outdated(r) == reader[r].pc \in {"get", "store"} /\ reader[r].version \notin {0, row}

(* Variant: only the key of the single configuration is dropped. *)
InvalidateSingle ==
  /\ job > 0
  /\ job' = job - 1
  /\ floor' = IF \E r \in Readers : Outdated(r) THEN floor ELSE row
  /\ UNCHANGED <<kind, row, copy, reader, now, faults, replaced>>

(* The job of the one sync worker drops the list. *)
Invalidate ==
  /\ job > 0
  /\ copy' = NoCopy
  /\ job' = job - 1
  /\ floor' = IF \E r \in Readers : Outdated(r) THEN floor ELSE row
  /\ UNCHANGED <<kind, row, reader, now, faults, replaced>>

(* The job has failed three times, or was never added. *)
JobLost ==
  /\ job > 0 /\ faults < MaxFaults
  /\ job' = job - 1
  /\ faults' = faults + 1
  /\ UNCHANGED <<kind, row, copy, reader, now, history>>

RedisLosesCopies ==
  /\ faults < MaxFaults
  /\ copy' = NoCopy
  /\ faults' = faults + 1
  /\ UNCHANGED <<kind, row, job, reader, now, history>>

(* Time stands still while a reader has used up its delay; it drops copies. *)
Tick ==
  /\ now < MaxTime
  /\ \A r \in Readers : reader[r].pc # "idle" => now < reader[r].begun + DELAY
  /\ now' = now + 1
  /\ copy' = IF copy.until <= now + 1 THEN NoCopy ELSE copy
  /\ UNCHANGED <<kind, row, job, reader, faults, history>>

-----------------------------------------------------------------------------
ReaderStep(r) ==
  \/ BeginSigning(r) \/ BeginLookup(r)
  \/ Load(r) \/ Get(r) \/ LoadMissing(r) \/ Store(r) \/ Use(r) \/ ReaderFails(r)

Next ==
  \/ \E r \in Readers : ReaderStep(r)
  \/ RotateSecret \/ ChangeConfigurations \/ DeleteDestination
  \/ Invalidate \/ JobLost \/ RedisLosesCopies \/ Tick

Spec == Init /\ [][Next]_vars

-----------------------------------------------------------------------------
(* Properties.                                                               *)

(* What a reader uses was the present version not longer ago than the life of *)
(* one copy and the delay of the reader that stored it: readers overlapping a *)
(* change, and each other, never hand an old version on (secrets of a day,    *)
(* configurations of a minute).                                               *)
StaleBounded ==
  \A r \in Readers :
    reader[r].pc = "use" =>
      reader[r].got < replaced[reader[r].version] + TTL[kind] + DELAY

(* After an invalidation that met no reader with an older version, older      *)
(* versions are gone from Redis for good (ConfigCacheService.invalidate).     *)
InvalidatedIsGone == copy # NoCopy => copy.version >= floor
=============================================================================
