---------------------------- MODULE AuditLogProofs ----------------------------
(***************************************************************************)
(* Machine-checked proofs about AuditLog, for all sets of entries and      *)
(* writers, every size of a batch and any number of faults.                *)
(***************************************************************************)
EXTENDS AuditLog, FiniteSetTheorems, TLAPS

-----------------------------------------------------------------------------
(* The inductive invariant.  A call of processBatch has something to write    *)
(* as long as it lasts; only a shutdown takes the worker out of its loop.     *)

WriterBusy(x) == x.pc # "idle" <=> x.todo # <<>>

WritersBusy == \A w \in Writers : WriterBusy(writer[w])

RunsUnlessStopped == phase # "run" => "stop" \in faulted

AuditInv == Inv /\ WritersBusy /\ RunsUnlessStopped /\ NothingLost

-----------------------------------------------------------------------------
(* A sequence holds each of its elements at least once. *)
LEMMA OccurrencesCounted ==
  ASSUME NEW s \in Seq(Entries), NEW e
  PROVE  /\ Occurrences(e, s) \in Nat
         /\ e \in Elements(s) => Occurrences(e, s) > 0
<1> DEFINE I == {i \in 1 .. Len(s) : s[i] = e}
<1>1. IsFiniteSet(1 .. Len(s))
  BY FS_Interval
<1>2. IsFiniteSet(I)
  BY <1>1, FS_Subset
<1>3. Cardinality(I) \in Nat
  BY <1>2, FS_CardinalityType
<1>4. ASSUME e \in Elements(s) PROVE Cardinality(I) > 0
  <2>1. I # {}
    BY <1>4 DEF Elements
  <2>2. Cardinality(I) # 0
    BY <1>2, <2>1, FS_EmptySet
  <2> QED BY <1>3, <2>2
<1> QED BY <1>3, <1>4 DEF Occurrences

(* What a job adds to the batch, and what a settled entry leaves. *)
LEMMA AppendElements ==
  ASSUME NEW s \in Seq(Entries), NEW e \in Entries
  PROVE  /\ Append(s, e) \in Seq(Entries) /\ Append(s, e) # <<>>
         /\ Elements(Append(s, e)) = Elements(s) \cup {e}
<1>1. /\ Append(s, e) \in Seq(Entries)
      /\ Len(Append(s, e)) = Len(s) + 1
      /\ \A i \in 1 .. Len(s) : Append(s, e)[i] = s[i]
      /\ Append(s, e)[Len(s) + 1] = e
  OBVIOUS
<1>2. Append(s, e) # <<>>
  BY <1>1
<1>3. 1 .. (Len(s) + 1) = (1 .. Len(s)) \cup {Len(s) + 1}
  BY SMT
<1>4. Elements(Append(s, e)) = {Append(s, e)[i] : i \in (1 .. Len(s)) \cup {Len(s) + 1}}
  BY <1>1, <1>3 DEF Elements
<1>5. Elements(Append(s, e)) = Elements(s) \cup {e}
  BY <1>1, <1>4 DEF Elements
<1> QED BY <1>1, <1>2, <1>5

LEMMA TailElements ==
  ASSUME NEW s \in Seq(Entries), s # <<>>
  PROVE  /\ Head(s) \in Entries
         /\ Len(s) = 1 => Elements(s) = {Head(s)}
         /\ Len(s) # 1 => /\ Tail(s) \in Seq(Entries) /\ Tail(s) # <<>>
                          /\ Elements(s) = {Head(s)} \cup Elements(Tail(s))
<1>1. /\ Len(s) \in Nat /\ Len(s) > 0 /\ Head(s) = s[1] /\ s[1] \in Entries
      /\ Tail(s) \in Seq(Entries) /\ Len(Tail(s)) = Len(s) - 1
      /\ \A i \in 1 .. Len(s) - 1 : Tail(s)[i] = s[i + 1]
  OBVIOUS
<1>2. ASSUME Len(s) = 1 PROVE Elements(s) = {Head(s)}
  BY <1>1, <1>2 DEF Elements
<1>3. ASSUME Len(s) # 1
      PROVE  Tail(s) # <<>> /\ Elements(s) = {Head(s)} \cup Elements(Tail(s))
  <2>1. Tail(s) # <<>>
    <3>1. Len(Tail(s)) # 0
      BY <1>1, <1>3
    <3>2. Len(<<>>) = 0
      OBVIOUS
    <3> QED BY <3>1, <3>2
  <2>2. ASSUME NEW x \in Elements(s) PROVE x \in {Head(s)} \cup Elements(Tail(s))
    <3>1. PICK i \in 1 .. Len(s) : x = s[i]
      BY DEF Elements
    <3>2. CASE i = 1
      BY <1>1, <3>1, <3>2
    <3>3. CASE i # 1
      <4>1. i - 1 \in 1 .. Len(Tail(s)) /\ Tail(s)[i - 1] = x
        BY <1>1, <3>1, <3>3
      <4> QED BY <4>1 DEF Elements
    <3> QED BY <3>2, <3>3
  <2>3. ASSUME NEW x \in Elements(Tail(s)) PROVE x \in Elements(s)
    <3>1. PICK i \in 1 .. Len(Tail(s)) : x = Tail(s)[i]
      BY DEF Elements
    <3>2. i + 1 \in 1 .. Len(s) /\ s[i + 1] = x
      BY <1>1, <3>1
    <3> QED BY <3>2 DEF Elements
  <2>4. Head(s) \in Elements(s)
    BY <1>1 DEF Elements
  <2> QED BY <2>1, <2>2, <2>3, <2>4
<1> QED BY <1>1, <1>2, <1>3

LEMMA EmptyElements == Elements(<<>>) = {}
  BY DEF Elements

LEMMA EmptyBatch == <<>> \in Seq(Entries) /\ Len(<<>>) < BATCH_SIZE
<1>1. BATCH_SIZE \in Nat \ {0}
  BY AuditAssumption
<1>2. Len(<<>>) = 0 /\ <<>> \in Seq(Entries)
  OBVIOUS
<1> QED BY <1>1, <1>2

-----------------------------------------------------------------------------
(* What a step leaves of the state the other conjuncts speak of. *)

LEMMA InitKeeps == Init => AuditInv
<1> SUFFICES ASSUME Init PROVE AuditInv
  OBVIOUS
<1>1. batch \in Seq(Entries) /\ Len(batch) < BATCH_SIZE
  BY EmptyBatch DEF Init
<1>2. TypeOK
  <2>1. Idle \in WriterRecord
    BY EmptyBatch DEF Idle, WriterRecord
  <2>2. timer \in BOOLEAN /\ writer \in [Writers -> WriterRecord]
    BY <2>1 DEF Init
  <2>3. /\ logged \subseteq Entries /\ stalled \subseteq Entries
        /\ queue \in [Entries -> Nat] /\ rows \in [Entries -> Nat]
        /\ phase \in {"run", "flush", "close"}
        /\ faults \in Nat /\ faulted \subseteq FaultKinds
    BY DEF Init
  <2> QED BY <1>1, <2>2, <2>3 DEF TypeOK
<1>3. BatchHasTimer /\ WritersBusy /\ RunsUnlessStopped /\ NothingLost
  BY DEF Init, BatchHasTimer, WritersBusy, WriterBusy, RunsUnlessStopped, NothingLost, Idle
<1> QED BY <1>2, <1>3 DEF AuditInv, Inv

(* processBatch takes the batch that was collected, todo, to a writer. *)
LEMMA BatchIsTaken ==
  ASSUME AuditInv, NEW todo \in Seq(Entries), todo # <<>>,
         NEW job \in Entries \cup {NoEntry}, NEW flush \in BOOLEAN,
         ProcessBatch(todo, job, flush)
  PROVE  /\ writer' \in [Writers -> WriterRecord] /\ WritersBusy'
         /\ batch' = <<>> /\ timer' = FALSE
         /\ \E w \in Writers : writer'[w].todo = todo
         /\ \A v \in Writers : writer[v].todo # <<>> => writer'[v].todo = writer[v].todo
<1> DEFINE new == Waiting(todo, job, flush)
<1>1. PICK w \in Writers : /\ writer[w].pc = "idle"
                           /\ writer' = [writer EXCEPT ![w] = new]
                           /\ batch' = <<>> /\ timer' = FALSE
  BY DEF ProcessBatch
<1>2. writer \in [Writers -> WriterRecord]
  BY DEF AuditInv, Inv, TypeOK
<1>3. new \in WriterRecord /\ new.pc = "write" /\ new.todo = todo
  BY DEF Waiting, WriterRecord
<1>4. writer' \in [Writers -> WriterRecord]
  BY <1>1, <1>2, <1>3
<1>5. \A v \in Writers : writer'[v] = IF v = w THEN new ELSE writer[v]
  BY <1>1, <1>2
<1>6. writer[w].todo = <<>>
  BY <1>1 DEF AuditInv, WritersBusy, WriterBusy
<1>7. WritersBusy'
  BY <1>3, <1>5 DEF AuditInv, WritersBusy, WriterBusy
<1> QED BY <1>1, <1>3, <1>4, <1>5, <1>6, <1>7

(* The job of an entry is taken: the entry is collected, or written at once. *)
LEMMA CollectKeeps ==
  ASSUME AuditInv, NEW e \in Entries, Collect(e)
  PROVE  AuditInv'
<1> DEFINE todo == Append(batch, e)
<1>1. batch \in Seq(Entries) /\ BATCH_SIZE \in Nat \ {0}
  BY AuditAssumption DEF AuditInv, Inv, TypeOK
<1>2. /\ todo \in Seq(Entries) /\ todo # <<>>
      /\ Elements(todo) = Elements(batch) \cup {e}
  BY <1>1, AppendElements
<1>3. /\ queue' \in [Entries -> Nat]
      /\ \A f \in Entries : f # e => queue'[f] = queue[f]
      /\ UNCHANGED <<logged, stalled, phase, rows, faults, faulted>>
  BY DEF Collect, AuditInv, Inv, TypeOK, NoFault
<1> HIDE DEF todo
<1>4. CASE Full(todo) /\ ProcessBatch(todo, e, FALSE)
  <2>1. /\ writer' \in [Writers -> WriterRecord] /\ WritersBusy'
        /\ batch' = <<>> /\ timer' = FALSE
        /\ \E w \in Writers : writer'[w].todo = todo
        /\ \A v \in Writers : writer[v].todo # <<>> => writer'[v].todo = writer[v].todo
    BY <1>2, <1>4, BatchIsTaken
  <2>2. TypeOK'
    <3>1. batch' \in Seq(Entries) /\ Len(batch') < BATCH_SIZE /\ timer' \in BOOLEAN
      BY <2>1, EmptyBatch
    <3> QED BY <1>3, <2>1, <3>1 DEF AuditInv, Inv, TypeOK
  <2>3. BatchHasTimer' /\ RunsUnlessStopped'
    BY <1>3, <2>1 DEF AuditInv, BatchHasTimer, RunsUnlessStopped
  <2>4. ASSUME faulted' \subseteq {"db"}, NEW f \in logged' PROVE Held(f)'
    <3>1. f \in logged /\ f \in Entries /\ Held(f)
      BY <1>3, <2>4 DEF AuditInv, Inv, TypeOK, NothingLost
    <3>2. CASE f \in Elements(todo)
      BY <2>1, <3>2 DEF Held
    <3>3. CASE f \notin Elements(todo)
      <4>1. f # e /\ f \notin Elements(batch)
        BY <1>2, <3>3
      <4>2. CASE queue[f] > 0 \/ rows[f] > 0
        BY <1>3, <3>1, <4>1, <4>2 DEF Held
      <4>3. CASE \E w \in Writers : f \in Elements(writer[w].todo)
        BY <2>1, <4>3, EmptyElements DEF Held
      <4> QED BY <3>1, <4>1, <4>2, <4>3 DEF Held
    <3> QED BY <3>2, <3>3
  <2> QED BY <2>1, <2>2, <2>3, <2>4 DEF AuditInv, Inv, NothingLost
<1>5. CASE ~Full(todo) /\ batch' = todo /\ timer' = TRUE /\ UNCHANGED writer
  <2>1. TypeOK'
    <3>1. Len(todo) \in Nat
      BY <1>2
    <3>2. Len(todo) < BATCH_SIZE
      BY <1>1, <1>5, <3>1 DEF Full
    <3> QED BY <1>2, <1>3, <1>5, <3>2 DEF AuditInv, Inv, TypeOK
  <2>2. BatchHasTimer' /\ RunsUnlessStopped' /\ WritersBusy'
    BY <1>2, <1>3, <1>5
       DEF AuditInv, BatchHasTimer, RunsUnlessStopped, WritersBusy, WriterBusy
  <2>3. ASSUME faulted' \subseteq {"db"}, NEW f \in logged' PROVE Held(f)'
    <3>1. f \in logged /\ f \in Entries /\ Held(f)
      BY <1>3, <2>3 DEF AuditInv, Inv, TypeOK, NothingLost
    <3> QED BY <1>2, <1>3, <1>5, <3>1 DEF Held
  <2> QED BY <2>1, <2>2, <2>3 DEF AuditInv, Inv, NothingLost
<1> QED BY <1>4, <1>5 DEF Collect, todo

(* The timer hands the batch to a writer, and so does a shutdown. *)
LEMMA FlushKeeps ==
  ASSUME AuditInv, batch # <<>>, NEW flush \in BOOLEAN, ProcessBatch(batch, NoEntry, flush),
         phase' \in {"run", "flush", "close"}, phase' # "run" => "stop" \in faulted',
         faults' \in Nat, faulted' \subseteq FaultKinds, faulted \subseteq faulted',
         UNCHANGED <<logged, queue, stalled, rows>>
  PROVE  AuditInv'
<1>1. batch \in Seq(Entries) /\ BATCH_SIZE \in Nat \ {0}
  BY AuditAssumption DEF AuditInv, Inv, TypeOK
<1>2. /\ writer' \in [Writers -> WriterRecord] /\ WritersBusy'
      /\ batch' = <<>> /\ timer' = FALSE
      /\ \E w \in Writers : writer'[w].todo = batch
      /\ \A v \in Writers : writer[v].todo # <<>> => writer'[v].todo = writer[v].todo
  BY <1>1, BatchIsTaken
<1>3. TypeOK'
  <2>1. batch' \in Seq(Entries) /\ Len(batch') < BATCH_SIZE /\ timer' \in BOOLEAN
    BY <1>2, EmptyBatch
  <2> QED BY <1>2, <2>1 DEF AuditInv, Inv, TypeOK
<1>4. BatchHasTimer' /\ RunsUnlessStopped'
  BY <1>2 DEF BatchHasTimer, RunsUnlessStopped
<1>5. ASSUME faulted' \subseteq {"db"}, NEW f \in logged' PROVE Held(f)'
  <2>1. Held(f)
    BY <1>5 DEF AuditInv, NothingLost
  <2> QED BY <1>2, <2>1, EmptyElements DEF Held
<1> QED BY <1>2, <1>3, <1>4, <1>5 DEF AuditInv, Inv, NothingLost

(* PostgreSQL answers, or rejects, and each entry is queued again or dropped. *)
LEMMA StoredCounts ==
  ASSUME TypeOK, NEW w \in Writers
  PROVE  /\ Stored(w) \in [Entries -> Nat]
         /\ \A e \in Entries : /\ Stored(w)[e] >= rows[e]
                               /\ e \in Elements(writer[w].todo) => Stored(w)[e] > 0
<1>1. writer[w].todo \in Seq(Entries) /\ rows \in [Entries -> Nat]
  BY DEF TypeOK, WriterRecord
<1>2. ASSUME NEW e \in Entries
      PROVE  /\ rows[e] + Occurrences(e, writer[w].todo) \in Nat
             /\ rows[e] + Occurrences(e, writer[w].todo) >= rows[e]
             /\ e \in Elements(writer[w].todo)
                  => rows[e] + Occurrences(e, writer[w].todo) > 0
  <2>1. /\ Occurrences(e, writer[w].todo) \in Nat
        /\ e \in Elements(writer[w].todo) => Occurrences(e, writer[w].todo) > 0
    BY <1>1, OccurrencesCounted
  <2>2. rows[e] \in Nat
    BY <1>1
  <2> QED BY <2>1, <2>2
<1> QED BY <1>2 DEF Stored

LEMMA WriteKeeps ==
  ASSUME AuditInv, NEW w \in Writers, WriteOk(w) \/ WriteFails(w)
  PROVE  AuditInv'
<1> DEFINE x == writer[w]
<1>1. /\ x \in WriterRecord /\ x.pc = "write" /\ x.todo # <<>>
      /\ writer \in [Writers -> WriterRecord]
      /\ UNCHANGED <<logged, queue, stalled, batch, timer, phase>>
  BY DEF AuditInv, Inv, TypeOK, WritersBusy, WriterBusy, WriteOk, WriteFails
<1>2. /\ Stored(w) \in [Entries -> Nat] /\ rows \in [Entries -> Nat]
      /\ \A e \in Entries : /\ Stored(w)[e] >= rows[e]
                            /\ e \in Elements(x.todo) => Stored(w)[e] > 0
  BY StoredCounts DEF AuditInv, Inv, TypeOK
<1>3. rows' \in {rows, Stored(w)}
  BY DEF WriteOk, WriteFails
<1>4. rows' \in [Entries -> Nat] /\ \A e \in Entries : rows'[e] >= rows[e]
  <2>1. CASE rows' = rows
    BY <1>2, <2>1
  <2>2. CASE rows' = Stored(w)
    BY <1>2, <2>2
  <2> QED BY <1>3, <2>1, <2>2
<1>5. faults' \in Nat /\ faulted' \subseteq FaultKinds /\ faulted \subseteq faulted'
  BY DEF AuditInv, Inv, TypeOK, WriteOk, WriteFails, Fault, NoFault
<1>6. PICK new \in WriterRecord :
        /\ writer' = [writer EXCEPT ![w] = new] /\ WriterBusy(new)
        /\ new.todo = x.todo \/ (new.todo = <<>> /\ rows' = Stored(w))
  <2>1. CASE WriteOk(w)
    <3>1. Idle \in WriterRecord /\ WriterBusy(Idle) /\ Idle.todo = <<>>
      BY EmptyBatch DEF Idle, WriterRecord, WriterBusy
    <3> QED BY <2>1, <3>1 DEF WriteOk
  <2>2. CASE WriteFails(w)
    <3> DEFINE new == [x EXCEPT !.pc = "requeue"]
    <3>1. new \in WriterRecord /\ WriterBusy(new) /\ new.todo = x.todo
      BY <1>1 DEF WriterRecord, WriterBusy
    <3>2. writer' = [writer EXCEPT ![w] = new]
      BY <2>2 DEF WriteFails
    <3> QED BY <3>1, <3>2
  <2> QED BY <2>1, <2>2
<1>7. \A v \in Writers : writer'[v] = IF v = w THEN new ELSE writer[v]
  BY <1>1, <1>6
<1>8. TypeOK'
  <2>1. writer' \in [Writers -> WriterRecord]
    BY <1>1, <1>6
  <2> QED BY <1>1, <1>4, <1>5, <2>1 DEF AuditInv, Inv, TypeOK
<1>9. BatchHasTimer' /\ RunsUnlessStopped'
  BY <1>1, <1>5 DEF AuditInv, Inv, BatchHasTimer, RunsUnlessStopped
<1>10. WritersBusy'
  BY <1>6, <1>7 DEF AuditInv, WritersBusy
<1>11. ASSUME faulted' \subseteq {"db"}, NEW f \in logged' PROVE Held(f)'
  <2>1. f \in Entries /\ Held(f)
    BY <1>1, <1>5, <1>11 DEF AuditInv, Inv, TypeOK, NothingLost
  <2>2. CASE rows[f] > 0
    <3>1. rows'[f] > 0
      BY <1>2, <1>4, <2>1, <2>2
    <3> QED BY <3>1 DEF Held
  <2>3. CASE queue[f] > 0 \/ f \in Elements(batch)
    BY <1>1, <2>3 DEF Held
  <2>4. CASE \E v \in Writers : f \in Elements(writer[v].todo)
    <3>1. PICK v \in Writers : f \in Elements(writer[v].todo)
      BY <2>4
    <3>2. CASE f \in Elements(writer'[v].todo)
      BY <3>2 DEF Held
    <3>3. CASE f \notin Elements(writer'[v].todo)
      <4>1. v = w /\ rows' = Stored(w) /\ f \in Elements(x.todo)
        BY <1>6, <1>7, <3>1, <3>3
      <4>2. rows'[f] > 0
        BY <1>2, <2>1, <4>1
      <4> QED BY <4>2 DEF Held
    <3> QED BY <3>2, <3>3
  <2> QED BY <2>1, <2>2, <2>3, <2>4 DEF Held
<1> QED BY <1>8, <1>9, <1>10, <1>11 DEF AuditInv, Inv, NothingLost

(* An entry leaves the call that failed to write it for the queue; only a     *)
(* Redis error loses it.                                                      *)
LEMMA RequeueKeeps ==
  ASSUME AuditInv, NEW w \in Writers, Requeue(w) \/ RequeueFails(w)
  PROVE  AuditInv'
<1> DEFINE x == writer[w]
           e == Head(x.todo)
<1>1. /\ x \in WriterRecord /\ x.pc = "requeue" /\ x.todo # <<>>
      /\ x.todo \in Seq(Entries)
      /\ writer \in [Writers -> WriterRecord] /\ Settle(w)
      /\ UNCHANGED <<logged, batch, timer, phase, rows>>
  BY DEF AuditInv, Inv, TypeOK, WritersBusy, WriterBusy, WriterRecord, Requeue, RequeueFails
<1>2. /\ e \in Entries
      /\ Len(x.todo) = 1 => Elements(x.todo) = {e}
      /\ Len(x.todo) # 1 => /\ Tail(x.todo) \in Seq(Entries) /\ Tail(x.todo) # <<>>
                            /\ Elements(x.todo) = {e} \cup Elements(Tail(x.todo))
  BY <1>1, TailElements
<1>3. PICK new \in WriterRecord :
        /\ writer' = [writer EXCEPT ![w] = new] /\ WriterBusy(new)
        /\ \A f \in Elements(x.todo) : f = e \/ f \in Elements(new.todo)
  <2>1. CASE Len(x.todo) = 1
    <3>1. Idle \in WriterRecord /\ WriterBusy(Idle)
      BY EmptyBatch DEF Idle, WriterRecord, WriterBusy
    <3>2. writer' = [writer EXCEPT ![w] = Idle]
      BY <1>1, <2>1 DEF Settle
    <3> QED BY <1>2, <2>1, <3>1, <3>2
  <2>2. CASE Len(x.todo) # 1
    <3> DEFINE new == [x EXCEPT !.todo = Tail(x.todo)]
    <3>1. new \in WriterRecord /\ WriterBusy(new) /\ new.todo = Tail(x.todo)
      BY <1>1, <1>2, <2>2 DEF WriterRecord, WriterBusy
    <3>2. writer' = [writer EXCEPT ![w] = new]
      BY <1>1, <2>2 DEF Settle
    <3> QED BY <1>2, <2>2, <3>1, <3>2
  <2> QED BY <2>1, <2>2
<1>4. /\ \A v \in Writers : writer'[v] = IF v = w THEN new ELSE writer[v]
      /\ writer' \in [Writers -> WriterRecord]
  BY <1>1, <1>3
<1>5. /\ queue' \in [Entries -> Nat] /\ stalled' \subseteq Entries
      /\ \A f \in Entries : queue'[f] >= queue[f]
      /\ faults' \in Nat /\ faulted' \subseteq FaultKinds /\ faulted \subseteq faulted'
      /\ faulted' \subseteq {"db"} => queue'[e] > 0
  <2>1. queue \in [Entries -> Nat] /\ stalled \subseteq Entries /\ faults \in Nat
        /\ faulted \subseteq FaultKinds
    BY DEF AuditInv, Inv, TypeOK
  <2>2. CASE Requeue(w)
    BY <1>2, <2>1, <2>2 DEF Requeue, NoFault
  <2>3. CASE RequeueFails(w)
    <3>1. "redis" \in faulted' /\ UNCHANGED <<queue, stalled>>
      BY <2>3 DEF RequeueFails, Fault
    <3>2. faults' \in Nat /\ faulted' \subseteq FaultKinds /\ faulted \subseteq faulted'
      BY <2>1, <2>3 DEF RequeueFails, Fault
    <3> QED BY <2>1, <3>1, <3>2
  <2> QED BY <2>2, <2>3
<1>6. TypeOK'
  BY <1>1, <1>4, <1>5 DEF AuditInv, Inv, TypeOK
<1>7. BatchHasTimer' /\ RunsUnlessStopped' /\ WritersBusy'
  BY <1>1, <1>3, <1>4, <1>5
     DEF AuditInv, Inv, BatchHasTimer, RunsUnlessStopped, WritersBusy
<1>8. ASSUME faulted' \subseteq {"db"}, NEW f \in logged' PROVE Held(f)'
  <2>1. f \in Entries /\ Held(f)
    BY <1>1, <1>5, <1>8 DEF AuditInv, Inv, TypeOK, NothingLost
  <2>2. CASE queue[f] > 0
    <3>1. queue'[f] > 0
      <4>1. queue[f] \in Nat /\ queue'[f] \in Nat /\ queue'[f] >= queue[f]
        BY <1>5, <2>1 DEF AuditInv, Inv, TypeOK
      <4> QED BY <2>2, <4>1
    <3> QED BY <3>1 DEF Held
  <2>3. CASE rows[f] > 0 \/ f \in Elements(batch)
    BY <1>1, <2>3 DEF Held
  <2>4. CASE \E v \in Writers : f \in Elements(writer[v].todo)
    <3>1. PICK v \in Writers : f \in Elements(writer[v].todo)
      BY <2>4
    <3>2. CASE f \in Elements(writer'[v].todo)
      BY <3>2 DEF Held
    <3>3. CASE f \notin Elements(writer'[v].todo)
      <4>1. f = e
        BY <1>3, <1>4, <3>1, <3>3
      <4> QED BY <1>5, <1>8, <4>1 DEF Held
    <3> QED BY <3>2, <3>3
  <2> QED BY <2>1, <2>2, <2>3, <2>4 DEF Held
<1> QED BY <1>6, <1>7, <1>8 DEF AuditInv, Inv, NothingLost

(* A restart empties the memory of the worker, after a crash or a shutdown. *)
LEMMA RestartKeeps ==
  ASSUME AuditInv, Restart, ~(faulted' \subseteq {"db"}),
         faults' \in Nat, faulted' \subseteq FaultKinds, UNCHANGED <<logged, rows>>
  PROVE  AuditInv'
<1>1. Idle \in WriterRecord /\ WriterBusy(Idle)
  BY EmptyBatch DEF Idle, WriterRecord, WriterBusy
<1>2. /\ batch' \in Seq(Entries) /\ Len(batch') < BATCH_SIZE /\ timer' \in BOOLEAN
      /\ phase' = "run"
  BY EmptyBatch DEF Restart
<1>3. /\ writer' \in [Writers -> WriterRecord] /\ WritersBusy'
  BY <1>1 DEF Restart, WritersBusy
<1>4. queue' \in [Entries -> Nat] /\ stalled' \subseteq Entries
  <2>1. queue \in [Entries -> Nat] /\ stalled \subseteq Entries
        /\ writer \in [Writers -> WriterRecord]
    BY DEF AuditInv, Inv, TypeOK
  <2>2. Active \subseteq Entries
    BY <2>1 DEF Active, WriterRecord
  <2> QED BY <2>1, <2>2 DEF Restart
<1>5. TypeOK'
  BY <1>2, <1>3, <1>4 DEF AuditInv, Inv, TypeOK
<1>6. BatchHasTimer'
  BY DEF Restart, BatchHasTimer
<1>7. RunsUnlessStopped' /\ NothingLost'
  BY <1>2 DEF RunsUnlessStopped, NothingLost
<1> QED BY <1>3, <1>5, <1>6, <1>7 DEF AuditInv, Inv

-----------------------------------------------------------------------------
(* Every step, and the theorems. *)

LEMMA LogKeeps ==
  ASSUME AuditInv, NEW e \in Entries, Log(e)
  PROVE  AuditInv'
<1>1. /\ logged' = logged \cup {e} /\ logged \subseteq Entries
      /\ queue' \in [Entries -> Nat] /\ queue \in [Entries -> Nat]
      /\ \A f \in Entries : queue'[f] >= queue[f]
      /\ queue'[e] > 0
      /\ UNCHANGED <<stalled, batch, timer, writer, phase, rows, faults, faulted>>
  BY DEF Log, AuditInv, Inv, TypeOK
<1>2. TypeOK'
  BY <1>1 DEF AuditInv, Inv, TypeOK
<1>3. BatchHasTimer' /\ RunsUnlessStopped' /\ WritersBusy'
  BY <1>1 DEF AuditInv, Inv, BatchHasTimer, RunsUnlessStopped, WritersBusy
<1>4. ASSUME faulted' \subseteq {"db"}, NEW f \in logged' PROVE Held(f)'
  <2>1. CASE f = e
    BY <1>1, <2>1 DEF Held
  <2>2. CASE f # e
    <3>1. f \in Entries /\ Held(f)
      BY <1>1, <1>4, <2>2 DEF AuditInv, NothingLost
    <3>2. CASE queue[f] > 0
      <4>1. queue'[f] > 0
        BY <1>1, <3>1, <3>2
      <4> QED BY <4>1 DEF Held
    <3>3. CASE ~(queue[f] > 0)
      BY <1>1, <3>1, <3>3 DEF Held
    <3> QED BY <3>2, <3>3
  <2> QED BY <2>1, <2>2
<1> QED BY <1>2, <1>3, <1>4 DEF AuditInv, Inv, NothingLost

(* A shutdown closes its workers, or finds nothing to flush. *)
LEMMA PhaseKeeps ==
  ASSUME AuditInv, phase' \in {"run", "flush", "close"}, "stop" \in faulted',
         faults' \in Nat, faulted' \subseteq FaultKinds,
         UNCHANGED <<logged, queue, stalled, batch, timer, writer, rows>>
  PROVE  AuditInv'
<1>1. TypeOK' /\ BatchHasTimer'
  BY DEF AuditInv, Inv, TypeOK, BatchHasTimer
<1>2. WritersBusy'
  BY DEF AuditInv, WritersBusy
<1>3. RunsUnlessStopped' /\ NothingLost'
  BY DEF RunsUnlessStopped, NothingLost
<1> QED BY <1>1, <1>2, <1>3 DEF AuditInv, Inv

LEMMA NextKeeps == AuditInv /\ [Next]_vars => AuditInv'
<1> SUFFICES ASSUME AuditInv, [Next]_vars PROVE AuditInv'
  OBVIOUS
<1>1. /\ faults \in Nat /\ faulted \subseteq FaultKinds /\ timer \in BOOLEAN
      /\ phase \in {"run", "flush", "close"} /\ (phase # "run" => "stop" \in faulted)
      /\ (batch # <<>> <=> timer)
  BY DEF AuditInv, Inv, TypeOK, BatchHasTimer, RunsUnlessStopped
<1>2. CASE TimerFires
  <2>1. batch # <<>> /\ ProcessBatch(batch, NoEntry, FALSE)
    BY <1>1, <1>2 DEF TimerFires
  <2>2. UNCHANGED <<logged, queue, stalled, phase, rows, faults, faulted>>
    BY <1>2 DEF TimerFires, NoFault
  <2> QED BY <1>1, <2>1, <2>2, FlushKeeps
<1>3. CASE Crash
  <2>1. /\ Restart /\ UNCHANGED <<logged, rows>> /\ "crash" \in faulted'
        /\ faults' \in Nat /\ faulted' \subseteq FaultKinds
    BY <1>1, <1>3 DEF Crash, Fault
  <2> QED BY <2>1, RestartKeeps
<1>4. CASE Stop
  <2>1. /\ "stop" \in faulted' /\ faulted \subseteq faulted'
        /\ faults' \in Nat /\ faulted' \subseteq FaultKinds
        /\ UNCHANGED <<logged, queue, stalled, rows>>
    BY <1>1, <1>4 DEF Stop, Fault
  <2>2. CASE batch = <<>> /\ phase' = "close" /\ UNCHANGED <<batch, timer, writer>>
    BY <2>1, <2>2, PhaseKeeps
  <2>3. CASE batch # <<>> /\ phase' = "flush" /\ ProcessBatch(batch, NoEntry, TRUE)
    BY <2>1, <2>3, FlushKeeps
  <2> QED BY <1>4, <2>2, <2>3 DEF Stop
<1>5. CASE Close
  <2>1. /\ phase' = "close" /\ "stop" \in faulted'
        /\ faults' \in Nat /\ faulted' \subseteq FaultKinds
        /\ UNCHANGED <<logged, queue, stalled, batch, timer, writer, rows>>
    BY <1>1, <1>5 DEF Close, NoFault
  <2> QED BY <2>1, PhaseKeeps
<1>6. CASE Exit
  <2>1. /\ Restart /\ UNCHANGED <<logged, rows>> /\ "stop" \in faulted'
        /\ faults' \in Nat /\ faulted' \subseteq FaultKinds
    BY <1>1, <1>6 DEF Exit, NoFault
  <2> QED BY <2>1, RestartKeeps
<1>7. CASE \E e \in Entries : Log(e) \/ Collect(e)
  BY <1>7, LogKeeps, CollectKeeps
<1>8. CASE \E w \in Writers : WriteOk(w) \/ WriteFails(w) \/ Requeue(w) \/ RequeueFails(w)
  BY <1>8, WriteKeeps, RequeueKeeps
<1>9. CASE UNCHANGED vars
  <2>1. UNCHANGED <<logged, queue, stalled, batch, timer, writer, phase, rows, faults, faulted>>
    BY <1>9 DEF vars
  <2>2. TypeOK' /\ BatchHasTimer' /\ WritersBusy' /\ RunsUnlessStopped'
    BY <2>1 DEF AuditInv, Inv, TypeOK, BatchHasTimer, WritersBusy, RunsUnlessStopped
  <2>3. NothingLost'
    BY <2>1 DEF AuditInv, NothingLost, Held
  <2> QED BY <2>2, <2>3 DEF AuditInv, Inv
<1> QED BY <1>2, <1>3, <1>4, <1>5, <1>6, <1>7, <1>8, <1>9 DEF Next

(* The worker's variables are well formed, and a batch in memory always has a *)
(* timer that will write it (audit-log.worker.ts), through every overlap of   *)
(* processBatch calls, failures, crashes and shutdowns.                       *)
THEOREM BatchAlwaysTimed == Spec => []Inv
<1>1. Init => AuditInv
  BY InitKeeps
<1>2. AuditInv /\ [Next]_vars => AuditInv'
  BY NextKeeps
<1>3. AuditInv => Inv
  BY DEF AuditInv
<1> QED BY <1>1, <1>2, <1>3, PTL DEF Spec

(* "Never lose audit data on a transient DB failure": while only PostgreSQL   *)
(* has failed, every logged entry is in the queue, in memory or in the table. *)
THEOREM NothingIsLost == Spec => []NothingLost
<1>1. Init => AuditInv
  BY InitKeeps
<1>2. AuditInv /\ [Next]_vars => AuditInv'
  BY NextKeeps
<1>3. AuditInv => NothingLost
  BY DEF AuditInv
<1> QED BY <1>1, <1>2, <1>3, PTL DEF Spec
-----------------------------------------------------------------------------
(* The copies of an entry.  A lost answer adds rows and leaves what is in     *)
(* flight; a crash adds at most one copy in flight, and no row.  What is in   *)
(* flight is therefore bounded by the crashes alone.                          *)

SizesBounded == \A w \in Writers : Len(writer[w].todo) <= BATCH_SIZE

JobsLogged == \A w \in Writers : writer[w].job \in logged \cup {NoEntry}

FewCopies(flying, copies, budget) ==
  \E c, d \in Nat :
    c + d <= budget /\ flying <= 1 + c /\ copies <= (1 + c) * (1 + d)

NoneUnlogged(e) == e \notin logged => Copies(e) = 0

Scarce(e) == NoneUnlogged(e) /\ FewCopies(InFlight(e), Copies(e), faults)

CopyInv == SizesBounded /\ JobsLogged /\ \A e \in Entries : Scarce(e)

(* How many copies the steps may add. *)
LEMMA FewAtFirst == \A budget \in Nat : FewCopies(0, 0, budget) /\ FewCopies(1, 1, budget)
<1> SUFFICES ASSUME NEW budget \in Nat
             PROVE  FewCopies(0, 0, budget) /\ FewCopies(1, 1, budget)
  OBVIOUS
<1>1. 0 \in Nat /\ 0 + 0 <= budget /\ 0 <= 1 + 0 /\ 0 <= (1 + 0) * (1 + 0)
  OBVIOUS
<1>2. 1 <= 1 + 0 /\ 1 <= (1 + 0) * (1 + 0)
  OBVIOUS
<1> QED BY <1>1, <1>2 DEF FewCopies

LEMMA FewKept ==
  ASSUME NEW i \in Nat, NEW n \in Nat, NEW f \in Nat, FewCopies(i, n, f),
         NEW j \in Nat, NEW m \in Nat, NEW g \in Nat, j <= i, m <= n, f <= g
  PROVE  FewCopies(j, m, g)
<1>1. PICK c \in Nat, d \in Nat : c + d <= f /\ i <= 1 + c /\ n <= (1 + c) * (1 + d)
  BY DEF FewCopies
<1>2. PICK p : p = (1 + c) * (1 + d)
  OBVIOUS
<1>3. p \in Int
  BY <1>2
<1>4. c + d <= g /\ j <= 1 + c /\ m <= p
  BY <1>1, <1>2, <1>3
<1> QED BY <1>2, <1>4 DEF FewCopies

LEMMA FewAfterLostAnswer ==
  ASSUME NEW i \in Nat, NEW n \in Nat, NEW f \in Nat, FewCopies(i, n, f),
         NEW m \in Nat, m <= n + i
  PROVE  FewCopies(i, m, f + 1)
<1>1. PICK c \in Nat, d \in Nat : c + d <= f /\ i <= 1 + c /\ n <= (1 + c) * (1 + d)
  BY DEF FewCopies
<1>2. PICK p : p = (1 + c) * (1 + d)
  OBVIOUS
<1>3. p \in Int /\ (1 + c) * (1 + (d + 1)) = p + (1 + c)
  BY <1>2
<1>4. c + (d + 1) <= f + 1 /\ d + 1 \in Nat /\ m <= p + (1 + c)
  BY <1>1, <1>2, <1>3
<1> QED BY <1>1, <1>3, <1>4 DEF FewCopies

LEMMA FewAfterCrash ==
  ASSUME NEW i \in Nat, NEW n \in Nat, NEW f \in Nat, FewCopies(i, n, f),
         NEW j \in Nat, NEW m \in Nat, j <= i + 1, m <= n + 1
  PROVE  FewCopies(j, m, f + 1)
<1>1. PICK c \in Nat, d \in Nat : c + d <= f /\ i <= 1 + c /\ n <= (1 + c) * (1 + d)
  BY DEF FewCopies
<1>2. PICK p : p = (1 + c) * (1 + d)
  OBVIOUS
<1>3. p \in Int /\ (1 + (c + 1)) * (1 + d) = p + (1 + d)
  BY <1>2
<1>4. (c + 1) + d <= f + 1 /\ c + 1 \in Nat /\ j <= 1 + (c + 1) /\ m <= p + (1 + d)
  BY <1>1, <1>2, <1>3
<1> QED BY <1>3, <1>4 DEF FewCopies

LEMMA FewIsSquare ==
  ASSUME NEW i \in Nat, NEW n \in Nat, NEW f \in Nat, FewCopies(i, n, f)
  PROVE  4 * n <= (f + 2) * (f + 2)
<1>1. PICK c \in Nat, d \in Nat : c + d <= f /\ i <= 1 + c /\ n <= (1 + c) * (1 + d)
  BY DEF FewCopies
<1>2. PICK x \in Nat, y \in Nat : x = 1 + c /\ y = 1 + d
  BY <1>1
<1>3. PICK k \in Nat : f + 2 = (x + y) + k
  <2>1. (f - (c + d)) \in Nat /\ f + 2 = (x + y) + (f - (c + d))
    BY <1>1, <1>2
  <2> QED BY <2>1
<1>4. (f + 2) * (f + 2) >= (x + y) * (x + y)
  <2>1. ((x + y) + k) * ((x + y) + k) = (x + y) * (x + y) + (2 * ((x + y) * k) + k * k)
    OBVIOUS
  <2>2. PICK u, v, t : u = (x + y) * (x + y) /\ v = (x + y) * k /\ t = k * k
    OBVIOUS
  <2>3. u \in Nat /\ v \in Nat /\ t \in Nat
    BY <2>2
  <2>4. ((x + y) + k) * ((x + y) + k) = u + (2 * v + t)
    BY <2>1, <2>2
  <2>5. (f + 2) * (f + 2) = u + (2 * v + t)
    BY <1>3, <2>4
  <2>6. u + (2 * v + t) >= u
    BY <2>3
  <2> QED BY <2>2, <2>5, <2>6
<1>5. (x + y) * (x + y) >= 4 * (x * y)
  <2>1. (x + y) * (x + y) = 4 * (x * y) + (x - y) * (x - y)
    OBVIOUS
  <2>2. (x - y) * (x - y) >= 0
    OBVIOUS
  <2>3. PICK u, t : u = x * y /\ t = (x - y) * (x - y)
    OBVIOUS
  <2>4. u \in Int /\ t \in Int
    BY <2>3
  <2> QED BY <2>1, <2>2, <2>3, <2>4
<1>6. n <= x * y
  BY <1>1, <1>2
<1>7. PICK u, s, z : u = x * y /\ s = (x + y) * (x + y) /\ z = (f + 2) * (f + 2)
  OBVIOUS
<1>8. u \in Int /\ s \in Int /\ z \in Int
  BY <1>7
<1>9. n <= u /\ s >= 4 * u /\ z >= s
  BY <1>4, <1>5, <1>6, <1>7
<1>10. 4 * n <= z
  BY <1>8, <1>9
<1> QED BY <1>7, <1>10

-----------------------------------------------------------------------------
(* How many copies a list, and the calls of processBatch, hold. *)

LEMMA OccurrencesOfNone == \A e : Occurrences(e, <<>>) = 0
<1> SUFFICES ASSUME NEW e PROVE Occurrences(e, <<>>) = 0
  OBVIOUS
<1>1. {i \in 1 .. Len(<<>>) : <<>>[i] = e} = {}
  OBVIOUS
<1> QED BY <1>1, FS_EmptySet DEF Occurrences

LEMMA OccurrencesAppended ==
  ASSUME NEW s \in Seq(Entries), NEW e \in Entries, NEW f
  PROVE  Occurrences(f, Append(s, e)) = Occurrences(f, s) + IF f = e THEN 1 ELSE 0
<1> DEFINE I == {i \in 1 .. Len(s) : s[i] = f}
           J == {i \in 1 .. Len(Append(s, e)) : Append(s, e)[i] = f}
<1>1. /\ Len(s) \in Nat /\ Len(Append(s, e)) = Len(s) + 1
      /\ \A i \in 1 .. Len(s) : Append(s, e)[i] = s[i]
      /\ Append(s, e)[Len(s) + 1] = e
  OBVIOUS
<1>2. IsFiniteSet(I)
  <2>1. IsFiniteSet(1 .. Len(s))
    BY <1>1, FS_Interval
  <2> QED BY <2>1, FS_Subset
<1>3. Cardinality(I) \in Nat
  BY <1>2, FS_CardinalityType
<1>4. CASE f = e
  <2>1. J = I \cup {Len(s) + 1} /\ Len(s) + 1 \notin I
    BY <1>1, <1>4
  <2>2. Cardinality(J) = Cardinality(I) + 1
    BY <1>2, <2>1, FS_AddElement
  <2> QED BY <1>4, <2>2 DEF Occurrences
<1>5. CASE f # e
  <2>1. J = I
    BY <1>1, <1>5
  <2>2. Cardinality(J) = Cardinality(I) + 0
    <3> HIDE DEF I, J
    <3> QED BY <1>3, <2>1
  <2> QED BY <1>5, <2>2 DEF Occurrences
<1> QED BY <1>4, <1>5

(* The first entry of a list is one occurrence. *)
LEMMA OccurrencesOfTail ==
  ASSUME NEW s \in Seq(Entries), s # <<>>, NEW f
  PROVE  Occurrences(f, s) = Occurrences(f, Tail(s)) + IF f = Head(s) THEN 1 ELSE 0
<1> DEFINE I == {i \in 1 .. Len(s) : s[i] = f}
           T == {i \in 1 .. Len(Tail(s)) : Tail(s)[i] = f}
           L == {i \in 2 .. Len(s) : s[i] = f}
           g == [i \in T |-> i + 1]
<1>1. /\ Len(s) \in Nat /\ Len(s) > 0 /\ Head(s) = s[1]
      /\ Len(Tail(s)) = Len(s) - 1
      /\ \A i \in 1 .. Len(s) - 1 : Tail(s)[i] = s[i + 1]
  OBVIOUS
<1>2. IsFiniteSet(T)
  <2>1. IsFiniteSet(1 .. Len(Tail(s)))
    BY <1>1, FS_Interval
  <2> QED BY <2>1, FS_Subset
<1>3. IsFiniteSet(L) /\ Cardinality(L) = Cardinality(T)
  <2>1. \A i \in T : g[i] \in L
    BY <1>1
  <2>2. \A i, j \in T : g[i] = g[j] => i = j
    BY <1>1
  <2>3. \A j \in L : \E i \in T : g[i] = j
    <3> SUFFICES ASSUME NEW j \in L PROVE \E i \in T : g[i] = j
      OBVIOUS
    <3>1. j - 1 \in T
      BY <1>1
    <3>2. g[j - 1] = j
      BY <3>1
    <3> QED BY <3>1, <3>2
  <2>4. g \in [T -> L]
    BY <2>1
  <2>5. g \in Bijection(T, L)
    BY <2>2, <2>3, <2>4 DEF Bijection, Injection, Surjection, IsInjective
  <2>6. ExistsBijection(T, L)
    BY <2>5 DEF ExistsBijection
  <2> QED BY <1>2, <2>6, FS_Bijection
<1>4. Cardinality(L) \in Nat /\ 1 \notin L
  BY <1>3, FS_CardinalityType
<1>5. CASE f = Head(s)
  <2>1. I = L \cup {1}
    BY <1>1, <1>5
  <2>2. Cardinality(I) = Cardinality(L) + 1
    BY <1>3, <1>4, <2>1, FS_AddElement
  <2> QED BY <1>3, <1>5, <2>2 DEF Occurrences
<1>6. CASE f # Head(s)
  <2>1. I = L
    BY <1>1, <1>6
  <2>2. Cardinality(I) = Cardinality(T) + 0
    <3> HIDE DEF I, L, T
    <3> QED BY <1>3, <1>4, <2>1
  <2> QED BY <1>6, <2>2 DEF Occurrences
<1> QED BY <1>5, <1>6

(* What one call holds, among what all of them hold. *)
Own(calls, w, e) == {x \in WrittenBy(calls, e) : x[1] = w}

Others(calls, w, e) == {x \in WrittenBy(calls, e) : x[1] # w}

LEMMA WrittenCounted ==
  ASSUME NEW calls, NEW e
  PROVE  IsFiniteSet(WrittenBy(calls, e)) /\ Cardinality(WrittenBy(calls, e)) \in Nat
<1>1. IsFiniteSet(Writers) /\ BATCH_SIZE \in Nat
  BY AuditAssumption
<1>2. IsFiniteSet(1 .. BATCH_SIZE)
  BY <1>1, FS_Interval
<1>3. IsFiniteSet(Writers \X (1 .. BATCH_SIZE))
  BY <1>1, <1>2, FS_Product
<1>4. WrittenBy(calls, e) \subseteq Writers \X (1 .. BATCH_SIZE)
  BY DEF WrittenBy
<1>5. IsFiniteSet(WrittenBy(calls, e))
  BY <1>3, <1>4, FS_Subset
<1> QED BY <1>5, FS_CardinalityType

LEMMA OwnIsOccurrences ==
  ASSUME NEW calls, NEW w \in Writers, NEW e,
         calls[w].todo \in Seq(Entries), Len(calls[w].todo) <= BATCH_SIZE
  PROVE  Cardinality(Own(calls, w, e)) = Occurrences(e, calls[w].todo)
<1> DEFINE I == {i \in 1 .. Len(calls[w].todo) : calls[w].todo[i] = e}
           O == Own(calls, w, e)
           g == [i \in I |-> <<w, i>>]
<1>1. BATCH_SIZE \in Nat /\ Len(calls[w].todo) \in Nat
  BY AuditAssumption
<1>2. IsFiniteSet(I)
  <2>1. IsFiniteSet(1 .. Len(calls[w].todo))
    BY <1>1, FS_Interval
  <2> QED BY <2>1, FS_Subset
<1>3. \A i \in I : g[i] \in O
  BY <1>1 DEF Own, WrittenBy
<1>4. \A i, j \in I : g[i] = g[j] => i = j
  OBVIOUS
<1>5. \A x \in O : \E i \in I : g[i] = x
  <2> SUFFICES ASSUME NEW x \in O PROVE \E i \in I : g[i] = x
    OBVIOUS
  <2>1. /\ x \in Writers \X (1 .. BATCH_SIZE) /\ x[1] = w
        /\ x[2] <= Len(calls[w].todo) /\ calls[w].todo[x[2]] = e
    BY DEF Own, WrittenBy
  <2>2. x = <<w, x[2]>> /\ x[2] \in 1 .. BATCH_SIZE
    BY <2>1
  <2>3. x[2] \in I
    BY <1>1, <2>1, <2>2
  <2> QED BY <2>2, <2>3
<1>6. g \in [I -> O]
  BY <1>3
<1>7. g \in Bijection(I, O)
  BY <1>4, <1>5, <1>6 DEF Bijection, Injection, Surjection, IsInjective
<1>8. ExistsBijection(I, O)
  BY <1>7 DEF ExistsBijection
<1>9. Cardinality(O) = Cardinality(I)
  BY <1>2, <1>8, FS_Bijection
<1> QED BY <1>9 DEF Occurrences

LEMMA WrittenIsSum ==
  ASSUME NEW calls, NEW w \in Writers, NEW e,
         calls[w].todo \in Seq(Entries), Len(calls[w].todo) <= BATCH_SIZE
  PROVE  /\ Cardinality(Others(calls, w, e)) \in Nat
         /\ Cardinality(WrittenBy(calls, e))
              = Cardinality(Others(calls, w, e)) + Occurrences(e, calls[w].todo)
<1>1. IsFiniteSet(WrittenBy(calls, e))
  BY WrittenCounted
<1>2. /\ Own(calls, w, e) \subseteq WrittenBy(calls, e)
      /\ Others(calls, w, e) \subseteq WrittenBy(calls, e)
      /\ WrittenBy(calls, e) = Others(calls, w, e) \cup Own(calls, w, e)
      /\ Others(calls, w, e) \cap Own(calls, w, e) = {}
  BY DEF Own, Others
<1>3. IsFiniteSet(Own(calls, w, e)) /\ IsFiniteSet(Others(calls, w, e))
  BY <1>1, <1>2, FS_Subset
<1>4. /\ Cardinality(Others(calls, w, e)) \in Nat
      /\ Cardinality(Own(calls, w, e)) \in Nat
  BY <1>3, FS_CardinalityType
<1>5. Cardinality(WrittenBy(calls, e))
        = Cardinality(Others(calls, w, e)) + Cardinality(Own(calls, w, e))
          - Cardinality(Others(calls, w, e) \cap Own(calls, w, e))
  BY <1>2, <1>3, FS_Union
<1>6. Cardinality(Others(calls, w, e) \cap Own(calls, w, e)) = 0
  BY <1>2, FS_EmptySet
<1>7. Cardinality(Own(calls, w, e)) = Occurrences(e, calls[w].todo)
  BY OwnIsOccurrences
<1> QED BY <1>4, <1>5, <1>6, <1>7

(* A call that changes what it holds leaves what the others hold. *)
Turns(calls, after, w, old, new) ==
  /\ calls \in [Writers -> WriterRecord]
  /\ old = calls[w] /\ after = [calls EXCEPT ![w] = new]
  /\ old.todo \in Seq(Entries) /\ Len(old.todo) <= BATCH_SIZE
  /\ new.todo \in Seq(Entries) /\ Len(new.todo) <= BATCH_SIZE

LEMMA CallChanges ==
  ASSUME NEW calls, NEW after, NEW w \in Writers, NEW old, NEW new,
         Turns(calls, after, w, old, new), NEW e
  PROVE  \E others \in Nat :
           /\ Cardinality(WrittenBy(calls, e)) = others + Occurrences(e, old.todo)
           /\ Cardinality(WrittenBy(after, e)) = others + Occurrences(e, new.todo)
<1>1. /\ \A v \in Writers : after[v] = IF v = w THEN new ELSE calls[v]
      /\ old = calls[w] /\ after[w] = new
      /\ old.todo \in Seq(Entries) /\ Len(old.todo) <= BATCH_SIZE
      /\ new.todo \in Seq(Entries) /\ Len(new.todo) <= BATCH_SIZE
  BY DEF Turns
<1>2. Others(after, w, e) = Others(calls, w, e)
  BY <1>1 DEF Others, WrittenBy
<1>3. /\ Cardinality(Others(calls, w, e)) \in Nat
      /\ Cardinality(WrittenBy(calls, e))
           = Cardinality(Others(calls, w, e)) + Occurrences(e, calls[w].todo)
  BY <1>1, WrittenIsSum
<1>4. Cardinality(WrittenBy(after, e))
        = Cardinality(Others(after, w, e)) + Occurrences(e, after[w].todo)
  BY <1>1, WrittenIsSum
<1> QED BY <1>1, <1>2, <1>3, <1>4

-----------------------------------------------------------------------------
(* What the steps do to the copies of one entry. *)

LEMMA CopiesCounted ==
  ASSUME TypeOK, NEW e \in Entries
  PROVE  /\ queue[e] \in Nat /\ rows[e] \in Nat /\ Occurrences(e, batch) \in Nat
         /\ Cardinality(WrittenBy(writer, e)) \in Nat
         /\ InFlight(e) \in Nat /\ Copies(e) \in Nat /\ faults \in Nat
         /\ InFlight(e) <= Copies(e)
<1>1. queue[e] \in Nat /\ rows[e] \in Nat /\ batch \in Seq(Entries) /\ faults \in Nat
  BY DEF TypeOK
<1>2. Occurrences(e, batch) \in Nat
  BY <1>1, OccurrencesCounted
<1>3. Cardinality(WrittenBy(writer, e)) \in Nat
  BY WrittenCounted
<1>4. InFlight(e) \in Nat
  BY <1>1, <1>2, <1>3 DEF InFlight
<1>5. Copies(e) \in Nat /\ InFlight(e) <= Copies(e)
  BY <1>1, <1>4 DEF Copies
<1> QED BY <1>1, <1>2, <1>3, <1>4, <1>5

LEMMA CopiesCountedNext ==
  ASSUME TypeOK', NEW e \in Entries
  PROVE  /\ queue'[e] \in Nat /\ rows'[e] \in Nat /\ Occurrences(e, batch') \in Nat
         /\ Cardinality(WrittenBy(writer', e)) \in Nat
         /\ InFlight(e)' \in Nat /\ Copies(e)' \in Nat /\ faults' \in Nat
         /\ InFlight(e)' <= Copies(e)'
<1>1. queue'[e] \in Nat /\ rows'[e] \in Nat /\ batch' \in Seq(Entries) /\ faults' \in Nat
  BY DEF TypeOK
<1>2. Occurrences(e, batch') \in Nat
  BY <1>1, OccurrencesCounted
<1>3. Cardinality(WrittenBy(writer', e)) \in Nat
  BY WrittenCounted
<1>4. InFlight(e)' \in Nat
  BY <1>1, <1>2, <1>3 DEF InFlight
<1>5. Copies(e)' \in Nat /\ InFlight(e)' <= Copies(e)'
  BY <1>1, <1>4 DEF Copies
<1> QED BY <1>1, <1>2, <1>3, <1>4, <1>5

(* An entry a step neither logs nor multiplies. *)
NoMoreOf(e) ==
  InFlight(e)' <= InFlight(e) /\ Copies(e)' <= Copies(e)

LEMMA ScarceKept ==
  ASSUME TypeOK, TypeOK', NEW e \in Entries, Scarce(e), NoMoreOf(e),
         e \in logged => e \in logged', faults <= faults'
  PROVE  Scarce(e)'
<1>1. /\ InFlight(e) \in Nat /\ Copies(e) \in Nat /\ faults \in Nat
      /\ InFlight(e)' \in Nat /\ Copies(e)' \in Nat /\ faults' \in Nat
  BY CopiesCounted, CopiesCountedNext
<1>2. InFlight(e)' <= InFlight(e) /\ Copies(e)' <= Copies(e)
  BY DEF NoMoreOf
<1>3. FewCopies(InFlight(e), Copies(e), faults)
  BY DEF Scarce
<1>4. FewCopies(InFlight(e)', Copies(e)', faults')
  BY <1>1, <1>2, <1>3, FewKept
<1>5. e \notin logged' => Copies(e)' = 0
  BY <1>1, <1>2 DEF Scarce, NoneUnlogged
<1> QED BY <1>4, <1>5 DEF Scarce, NoneUnlogged, FewCopies

LEMMA LogCopies ==
  ASSUME AuditInv, AuditInv', CopyInv, NEW e \in Entries, Log(e)
  PROVE  CopyInv'
<1>1. /\ e \notin logged /\ logged' = logged \cup {e}
      /\ queue' = [queue EXCEPT ![e] = @ + 1] /\ queue \in [Entries -> Nat]
      /\ UNCHANGED <<batch, writer, rows, faults>>
      /\ TypeOK /\ TypeOK'
  BY DEF Log, AuditInv, Inv, TypeOK
<1>2. SizesBounded' /\ JobsLogged'
  BY <1>1 DEF CopyInv, SizesBounded, JobsLogged
<1>3. ASSUME NEW f \in Entries PROVE Scarce(f)'
  <2>1. /\ queue[f] \in Nat /\ rows[f] \in Nat /\ Occurrences(f, batch) \in Nat
        /\ Cardinality(WrittenBy(writer, f)) \in Nat /\ faults \in Nat
    BY <1>1, CopiesCounted
  <2>2. Scarce(f)
    BY DEF CopyInv
  <2>3. CASE f = e
    <3>1. Copies(e) = 0
      BY <1>1, <2>2, <2>3 DEF Scarce, NoneUnlogged
    <3>2. /\ queue[e] = 0 /\ rows[e] = 0 /\ Occurrences(e, batch) = 0
          /\ Cardinality(WrittenBy(writer, e)) = 0
      BY <2>1, <2>3, <3>1 DEF Copies, InFlight
    <3>3. queue'[e] = 1
      BY <1>1, <3>2
    <3>4. InFlight(e)' = 1 /\ Copies(e)' = 1
      BY <1>1, <3>2, <3>3 DEF InFlight, Copies
    <3>5. FewCopies(1, 1, faults')
      BY <1>1, <2>1, FewAtFirst
    <3> QED BY <1>1, <2>3, <3>4, <3>5 DEF Scarce, NoneUnlogged
  <2>4. CASE f # e
    <3>1. queue'[f] = queue[f]
      BY <1>1, <2>4
    <3>2. InFlight(f)' = InFlight(f) /\ Copies(f)' = Copies(f)
      BY <1>1, <3>1 DEF InFlight, Copies
    <3>3. InFlight(f) \in Nat /\ Copies(f) \in Nat
      BY <1>1, CopiesCounted
    <3>4. NoMoreOf(f)
      BY <3>2, <3>3 DEF NoMoreOf
    <3>5. faults <= faults' /\ (f \in logged => f \in logged')
      BY <1>1, <2>1
    <3> QED BY <1>1, <2>2, <3>4, <3>5, ScarceKept
  <2> QED BY <2>3, <2>4
<1> QED BY <1>2, <1>3 DEF CopyInv

(* processBatch takes the batch: what it held is what the call holds. *)
LEMMA BatchCopies ==
  ASSUME AuditInv, AuditInv', CopyInv, NEW todo \in Seq(Entries),
         Len(todo) <= BATCH_SIZE, NEW job \in logged \cup {NoEntry}, job \in Entries \cup {NoEntry},
         NEW flush \in BOOLEAN, ProcessBatch(todo, job, flush), UNCHANGED logged
  PROVE  /\ SizesBounded' /\ JobsLogged'
         /\ \A f \in Entries :
              /\ Occurrences(f, batch') = 0
              /\ Cardinality(WrittenBy(writer', f))
                   = Cardinality(WrittenBy(writer, f)) + Occurrences(f, todo)
<1> DEFINE new == Waiting(todo, job, flush)
<1>1. PICK w \in Writers : /\ writer[w].pc = "idle"
                           /\ writer' = [writer EXCEPT ![w] = new]
                           /\ batch' = <<>>
  BY DEF ProcessBatch
<1>2. writer \in [Writers -> WriterRecord]
  BY DEF AuditInv, Inv, TypeOK
<1>3. new \in WriterRecord /\ new.todo = todo /\ new.job = job
  BY DEF Waiting, WriterRecord
<1> HIDE DEF new
<1>4. \A v \in Writers : writer'[v] = IF v = w THEN new ELSE writer[v]
  BY <1>1, <1>2
<1>5. SizesBounded' /\ JobsLogged'
  BY <1>3, <1>4 DEF CopyInv, SizesBounded, JobsLogged
<1>6. writer[w].todo = <<>> /\ Len(writer[w].todo) <= BATCH_SIZE
  BY <1>1 DEF AuditInv, WritersBusy, WriterBusy, CopyInv, SizesBounded
<1>7. ASSUME NEW f \in Entries
      PROVE  /\ Occurrences(f, batch') = 0
             /\ Cardinality(WrittenBy(writer', f))
                  = Cardinality(WrittenBy(writer, f)) + Occurrences(f, todo)
  <2>1. PICK others \in Nat :
          /\ Cardinality(WrittenBy(writer, f)) = others + Occurrences(f, writer[w].todo)
          /\ Cardinality(WrittenBy(writer', f)) = others + Occurrences(f, new.todo)
    <3>1. Turns(writer, writer', w, writer[w], new)
      BY <1>1, <1>2, <1>3, <1>6, EmptyBatch DEF Turns
    <3> QED BY <3>1, CallChanges
  <2>2. Occurrences(f, writer[w].todo) = 0 /\ Occurrences(f, batch') = 0
    BY <1>1, <1>6, OccurrencesOfNone
  <2> QED BY <1>3, <2>1, <2>2
<1> QED BY <1>5, <1>7

LEMMA CollectCopies ==
  ASSUME AuditInv, AuditInv', CopyInv, NEW e \in Entries, Collect(e)
  PROVE  CopyInv'
<1> DEFINE todo == Append(batch, e)
<1>1. /\ queue[e] > 0 /\ queue' = [queue EXCEPT ![e] = @ - 1]
      /\ queue \in [Entries -> Nat] /\ batch \in Seq(Entries)
      /\ Len(batch) \in Nat /\ Len(batch) < BATCH_SIZE /\ BATCH_SIZE \in Nat
      /\ UNCHANGED <<logged, rows, faults>>
      /\ TypeOK /\ TypeOK'
  BY AuditAssumption DEF Collect, NoFault, AuditInv, Inv, TypeOK
<1>2. todo \in Seq(Entries) /\ Len(todo) = Len(batch) + 1 /\ Len(todo) <= BATCH_SIZE
  BY <1>1
<1>3. e \in logged
  <2>1. /\ queue[e] \in Nat /\ rows[e] \in Nat /\ Occurrences(e, batch) \in Nat
        /\ Cardinality(WrittenBy(writer, e)) \in Nat
    BY <1>1, CopiesCounted
  <2>2. Copies(e) # 0
    BY <1>1, <2>1 DEF Copies, InFlight
  <2> QED BY <2>2 DEF CopyInv, Scarce, NoneUnlogged
<1>4. /\ SizesBounded' /\ JobsLogged'
      /\ \A f \in Entries :
           Occurrences(f, batch') + Cardinality(WrittenBy(writer', f))
             = Cardinality(WrittenBy(writer, f)) + Occurrences(f, todo)
  <2>1. CASE Full(todo) /\ ProcessBatch(todo, e, FALSE)
    <3>1. FALSE \in BOOLEAN /\ e \in logged \cup {NoEntry} /\ e \in Entries \cup {NoEntry}
      BY <1>3
    <3>2. /\ SizesBounded' /\ JobsLogged'
          /\ \A f \in Entries :
               /\ Occurrences(f, batch') = 0
               /\ Cardinality(WrittenBy(writer', f))
                    = Cardinality(WrittenBy(writer, f)) + Occurrences(f, todo)
      BY <1>1, <1>2, <2>1, <3>1, BatchCopies
    <3>3. \A f \in Entries : Cardinality(WrittenBy(writer', f)) \in Nat
      BY WrittenCounted
    <3> QED BY <3>2, <3>3
  <2>2. CASE ~Full(todo) /\ batch' = todo /\ timer' = TRUE /\ UNCHANGED writer
    <3>1. SizesBounded' /\ JobsLogged'
      BY <1>1, <2>2 DEF CopyInv, SizesBounded, JobsLogged
    <3>2. ASSUME NEW f \in Entries
          PROVE  /\ Cardinality(WrittenBy(writer, f)) \in Nat
                 /\ Occurrences(f, todo) \in Nat
      BY <1>2, WrittenCounted, OccurrencesCounted
    <3> QED BY <2>2, <3>1, <3>2
  <2> QED BY <2>1, <2>2 DEF Collect
<1>5. ASSUME NEW f \in Entries PROVE Scarce(f)'
  <2>1. /\ queue[f] \in Nat /\ rows[f] \in Nat /\ Occurrences(f, batch) \in Nat
        /\ Cardinality(WrittenBy(writer, f)) \in Nat /\ faults \in Nat
    BY <1>1, CopiesCounted
  <2>2. /\ Occurrences(f, batch') \in Nat /\ Cardinality(WrittenBy(writer', f)) \in Nat
        /\ queue'[f] \in Nat
    BY <1>1, CopiesCountedNext
  <2>3. queue'[f] + Occurrences(f, todo) = queue[f] + Occurrences(f, batch)
    <3>1. Occurrences(f, todo) = Occurrences(f, batch) + IF f = e THEN 1 ELSE 0
      BY <1>1, OccurrencesAppended
    <3>2. CASE f = e
      BY <1>1, <2>1, <3>1, <3>2
    <3>3. CASE f # e
      BY <1>1, <2>1, <3>1, <3>3
    <3> QED BY <3>2, <3>3
  <2>4. Occurrences(f, todo) \in Nat
    BY <1>2, OccurrencesCounted
  <2>5. InFlight(f)' = InFlight(f)
    <3>1. Occurrences(f, batch') + Cardinality(WrittenBy(writer', f))
            = Cardinality(WrittenBy(writer, f)) + Occurrences(f, todo)
      BY <1>4
    <3> HIDE DEF todo
    <3> QED BY <2>1, <2>2, <2>3, <2>4, <3>1 DEF InFlight
  <2>6. Copies(f)' = Copies(f)
    BY <1>1, <2>5 DEF Copies
  <2>7. NoMoreOf(f)
    <3>1. InFlight(f) \in Nat /\ Copies(f) \in Nat
      BY <1>1, CopiesCounted
    <3> QED BY <2>5, <2>6, <3>1 DEF NoMoreOf
  <2>8. Scarce(f) /\ faults <= faults' /\ (f \in logged => f \in logged')
    BY <1>1, <2>1 DEF CopyInv
  <2> QED BY <1>1, <2>7, <2>8, ScarceKept
<1> QED BY <1>4, <1>5 DEF CopyInv

(* A flush, of the timer or of a shutdown. *)
LEMMA FlushCopies ==
  ASSUME AuditInv, AuditInv', CopyInv, NEW flush \in BOOLEAN,
         ProcessBatch(batch, NoEntry, flush), faults <= faults',
         UNCHANGED <<logged, queue, rows>>
  PROVE  CopyInv'
<1>1. TypeOK /\ TypeOK' /\ batch \in Seq(Entries) /\ Len(batch) <= BATCH_SIZE
  <2>1. TypeOK /\ TypeOK' /\ batch \in Seq(Entries) /\ Len(batch) < BATCH_SIZE
    BY DEF AuditInv, Inv, TypeOK
  <2>2. Len(batch) \in Nat /\ BATCH_SIZE \in Nat
    BY <2>1, AuditAssumption
  <2> QED BY <2>1, <2>2
<1>2. NoEntry \in logged \cup {NoEntry} /\ NoEntry \in Entries \cup {NoEntry}
  OBVIOUS
<1>3. /\ SizesBounded' /\ JobsLogged'
      /\ \A f \in Entries :
           /\ Occurrences(f, batch') = 0
           /\ Cardinality(WrittenBy(writer', f))
                = Cardinality(WrittenBy(writer, f)) + Occurrences(f, batch)
  BY <1>1, <1>2, BatchCopies
<1>4. ASSUME NEW f \in Entries PROVE Scarce(f)'
  <2>1. /\ queue[f] \in Nat /\ rows[f] \in Nat /\ Occurrences(f, batch) \in Nat
        /\ Cardinality(WrittenBy(writer, f)) \in Nat
        /\ InFlight(f) \in Nat /\ Copies(f) \in Nat
    BY <1>1, CopiesCounted
  <2>2. InFlight(f)' = InFlight(f)
    BY <1>3, <2>1 DEF InFlight
  <2>3. Copies(f)' = Copies(f)
    BY <2>2 DEF Copies
  <2>4. NoMoreOf(f)
    BY <2>1, <2>2, <2>3 DEF NoMoreOf
  <2>5. Scarce(f) /\ (f \in logged => f \in logged')
    BY DEF CopyInv
  <2> QED BY <1>1, <2>4, <2>5, ScarceKept
<1> QED BY <1>3, <1>4 DEF CopyInv

(* PostgreSQL answers, or rejects: what was held is stored, or only told to   *)
(* have failed, in which case it is held and stored.                          *)
LEMMA WriteCopies ==
  ASSUME AuditInv, AuditInv', CopyInv, NEW w \in Writers, WriteOk(w) \/ WriteFails(w)
  PROVE  CopyInv'
<1>1. /\ TypeOK /\ TypeOK' /\ writer \in [Writers -> WriterRecord]
      /\ writer[w].todo \in Seq(Entries) /\ Len(writer[w].todo) <= BATCH_SIZE
      /\ rows \in [Entries -> Nat]
      /\ UNCHANGED <<logged, queue, batch>>
  BY DEF AuditInv, Inv, TypeOK, WriterRecord, CopyInv, SizesBounded, WriteOk, WriteFails
<1>2. ASSUME NEW f \in Entries
      PROVE  /\ queue[f] \in Nat /\ rows[f] \in Nat /\ Occurrences(f, batch) \in Nat
             /\ Cardinality(WrittenBy(writer, f)) \in Nat /\ faults \in Nat
             /\ InFlight(f) \in Nat /\ Copies(f) \in Nat
             /\ Occurrences(f, writer[w].todo) \in Nat
             /\ Stored(w)[f] = rows[f] + Occurrences(f, writer[w].todo)
  BY <1>1, CopiesCounted, OccurrencesCounted DEF Stored
<1>3. CASE WriteOk(w)
  <2>1. /\ writer' = [writer EXCEPT ![w] = Idle] /\ rows' = Stored(w)
        /\ UNCHANGED faults
    BY <1>3 DEF WriteOk, NoFault
  <2>2. /\ Idle \in WriterRecord /\ Idle.todo = <<>> /\ Len(Idle.todo) <= BATCH_SIZE
        /\ Idle.job = NoEntry
    BY EmptyBatch, AuditAssumption DEF Idle, WriterRecord
  <2>3. \A v \in Writers : writer'[v] = IF v = w THEN Idle ELSE writer[v]
    BY <1>1, <2>1
  <2>4. SizesBounded' /\ JobsLogged'
    BY <1>1, <2>2, <2>3 DEF CopyInv, SizesBounded, JobsLogged
  <2>5. ASSUME NEW f \in Entries PROVE Scarce(f)'
    <3>1. PICK others \in Nat :
            /\ Cardinality(WrittenBy(writer, f)) = others + Occurrences(f, writer[w].todo)
            /\ Cardinality(WrittenBy(writer', f)) = others + Occurrences(f, Idle.todo)
      <4>1. Turns(writer, writer', w, writer[w], Idle)
        BY <1>1, <2>1, <2>2, EmptyBatch DEF Turns
      <4> QED BY <4>1, CallChanges
    <3>2. Cardinality(WrittenBy(writer', f)) = others
      BY <2>2, <3>1, OccurrencesOfNone
    <3>3. /\ queue[f] \in Nat /\ rows[f] \in Nat /\ Occurrences(f, batch) \in Nat
          /\ Occurrences(f, writer[w].todo) \in Nat /\ faults \in Nat
          /\ rows'[f] = rows[f] + Occurrences(f, writer[w].todo)
      BY <1>2, <2>1
    <3>4. InFlight(f) = InFlight(f)' + Occurrences(f, writer[w].todo)
      BY <1>1, <3>1, <3>2, <3>3 DEF InFlight
    <3>5. InFlight(f)' \in Nat
      BY <1>1, CopiesCountedNext
    <3>6. Copies(f)' = Copies(f)
      BY <3>3, <3>4, <3>5 DEF Copies
    <3>7. NoMoreOf(f)
      BY <1>2, <3>3, <3>4, <3>5, <3>6 DEF NoMoreOf
    <3>8. Scarce(f) /\ faults <= faults' /\ (f \in logged => f \in logged')
      BY <1>1, <2>1, <3>3 DEF CopyInv
    <3> QED BY <1>1, <3>7, <3>8, ScarceKept
  <2> QED BY <2>4, <2>5 DEF CopyInv
<1>4. CASE WriteFails(w)
  <2> DEFINE new == [writer[w] EXCEPT !.pc = "requeue"]
  <2>1. /\ writer' = [writer EXCEPT ![w] = new] /\ rows' \in {rows, Stored(w)}
        /\ faults' = faults + 1
    BY <1>4 DEF WriteFails, Fault
  <2>2. /\ new \in WriterRecord /\ new.todo = writer[w].todo /\ new.job = writer[w].job
        /\ Len(new.todo) <= BATCH_SIZE
    BY <1>1 DEF WriterRecord
  <2> HIDE DEF new
  <2>3. \A v \in Writers : writer'[v] = IF v = w THEN new ELSE writer[v]
    BY <1>1, <2>1
  <2>4. SizesBounded' /\ JobsLogged'
    BY <1>1, <2>2, <2>3 DEF CopyInv, SizesBounded, JobsLogged
  <2>5. ASSUME NEW f \in Entries PROVE Scarce(f)'
    <3>1. PICK others \in Nat :
            /\ Cardinality(WrittenBy(writer, f)) = others + Occurrences(f, writer[w].todo)
            /\ Cardinality(WrittenBy(writer', f)) = others + Occurrences(f, new.todo)
      <4>1. Turns(writer, writer', w, writer[w], new)
        BY <1>1, <2>1, <2>2 DEF Turns
      <4> QED BY <4>1, CallChanges
    <3>2. InFlight(f)' = InFlight(f)
      BY <1>1, <2>1, <2>2, <3>1 DEF InFlight
    <3>3. rows'[f] = rows[f] \/ rows'[f] = rows[f] + Occurrences(f, writer[w].todo)
      BY <1>2, <2>1
    <3>4. /\ InFlight(f) \in Nat /\ Copies(f) \in Nat /\ faults \in Nat /\ rows[f] \in Nat
          /\ Occurrences(f, writer[w].todo) \in Nat
          /\ Occurrences(f, writer[w].todo) <= InFlight(f)
      BY <1>2, <3>1 DEF InFlight
    <3>5. Copies(f)' \in Nat
      BY <1>1, CopiesCountedNext
    <3>6. Copies(f)' <= Copies(f) + InFlight(f)
      BY <3>2, <3>3, <3>4 DEF Copies
    <3>7. Scarce(f)
      BY DEF CopyInv
    <3>8. FewCopies(InFlight(f), Copies(f)', faults + 1)
      BY <3>4, <3>5, <3>6, <3>7, FewAfterLostAnswer DEF Scarce
    <3>9. FewCopies(InFlight(f)', Copies(f)', faults')
      BY <2>1, <3>2, <3>8
    <3>10. ASSUME f \notin logged' PROVE Copies(f)' = 0
      <4>1. Copies(f) = 0
        BY <1>1, <3>7, <3>10 DEF Scarce, NoneUnlogged
      <4>2. InFlight(f) <= Copies(f)
        BY <1>1, CopiesCounted
      <4> QED BY <3>4, <3>5, <3>6, <4>1, <4>2
    <3> QED BY <3>9, <3>10 DEF Scarce, NoneUnlogged
  <2> QED BY <2>4, <2>5 DEF CopyInv
<1> QED BY <1>3, <1>4

(* An entry that could not be written goes back to the queue, or is lost. *)
LEMMA RequeueCopies ==
  ASSUME AuditInv, AuditInv', CopyInv, NEW w \in Writers, Requeue(w) \/ RequeueFails(w)
  PROVE  CopyInv'
<1> DEFINE e == Head(writer[w].todo)
<1>1. /\ TypeOK /\ TypeOK' /\ writer \in [Writers -> WriterRecord]
      /\ writer[w] \in WriterRecord
      /\ writer[w].pc = "requeue" /\ writer[w].todo # <<>>
      /\ writer[w].todo \in Seq(Entries) /\ Len(writer[w].todo) <= BATCH_SIZE
      /\ queue \in [Entries -> Nat] /\ Settle(w)
      /\ UNCHANGED <<logged, batch, rows>>
  BY DEF AuditInv, Inv, TypeOK, WritersBusy, WriterBusy, WriterRecord, CopyInv, SizesBounded,
         Requeue, RequeueFails
<1>2. e \in Entries
  BY <1>1, TailElements
<1>3. PICK new \in WriterRecord :
        /\ writer' = [writer EXCEPT ![w] = new]
        /\ Len(new.todo) <= BATCH_SIZE
        /\ new.job \in {writer[w].job, NoEntry}
        /\ \A f : Occurrences(f, new.todo) = Occurrences(f, Tail(writer[w].todo))
  <2>1. /\ Len(writer[w].todo) \in Nat /\ Len(writer[w].todo) > 0
        /\ Len(Tail(writer[w].todo)) = Len(writer[w].todo) - 1
        /\ Tail(writer[w].todo) \in Seq(Entries) /\ BATCH_SIZE \in Nat
    BY <1>1, AuditAssumption
  <2>2. CASE Len(writer[w].todo) = 1
    <3>1. /\ Idle \in WriterRecord /\ Idle.todo = <<>> /\ Len(Idle.todo) <= BATCH_SIZE
          /\ Idle.job = NoEntry
      BY EmptyBatch, AuditAssumption DEF Idle, WriterRecord
    <3>2. Tail(writer[w].todo) = <<>>
      <4>1. PICK tail \in Seq(Entries) : tail = Tail(writer[w].todo)
        BY <2>1
      <4>2. Len(tail) = 0
        BY <2>1, <2>2, <4>1
      <4>3. tail = <<>>
        BY <4>2
      <4> QED BY <4>1, <4>3
    <3>3. writer' = [writer EXCEPT ![w] = Idle]
      BY <1>1, <2>2 DEF Settle
    <3> QED BY <3>1, <3>2, <3>3
  <2>3. CASE Len(writer[w].todo) # 1
    <3> DEFINE new == [writer[w] EXCEPT !.todo = Tail(writer[w].todo)]
    <3>1. /\ new \in WriterRecord /\ new.todo = Tail(writer[w].todo)
          /\ new.job = writer[w].job
      BY <1>1, <2>1 DEF WriterRecord
    <3>2. Len(new.todo) <= BATCH_SIZE
      BY <1>1, <2>1, <3>1
    <3>3. writer' = [writer EXCEPT ![w] = new]
      BY <1>1, <2>3 DEF Settle
    <3> QED BY <3>1, <3>2, <3>3
  <2> QED BY <2>2, <2>3
<1>4. \A v \in Writers : writer'[v] = IF v = w THEN new ELSE writer[v]
  BY <1>1, <1>3
<1>5. SizesBounded' /\ JobsLogged'
  BY <1>1, <1>3, <1>4 DEF CopyInv, SizesBounded, JobsLogged
<1>6. ASSUME NEW f \in Entries PROVE Scarce(f)'
  <2>1. PICK others \in Nat :
          /\ Cardinality(WrittenBy(writer, f)) = others + Occurrences(f, writer[w].todo)
          /\ Cardinality(WrittenBy(writer', f)) = others + Occurrences(f, new.todo)
    <3>1. Turns(writer, writer', w, writer[w], new)
      BY <1>1, <1>3 DEF Turns, WriterRecord
    <3> QED BY <3>1, CallChanges
  <2>2. PICK one : one = IF f = e THEN 1 ELSE 0
    OBVIOUS
  <2>3. one \in Nat
    BY <2>2
  <2>4. Occurrences(f, writer[w].todo) = Occurrences(f, new.todo) + one
    BY <1>1, <1>3, <2>2, OccurrencesOfTail
  <2>5. /\ queue[f] \in Nat /\ rows[f] \in Nat /\ Occurrences(f, batch) \in Nat
        /\ InFlight(f) \in Nat /\ Copies(f) \in Nat /\ faults \in Nat
    BY <1>1, CopiesCounted
  <2>6. /\ queue'[f] \in Nat /\ queue'[f] <= queue[f] + one
        /\ faults <= faults'
    <3>1. CASE Requeue(w)
      <4>1. queue' = [queue EXCEPT ![e] = @ + 1] /\ UNCHANGED faults
        BY <3>1 DEF Requeue, NoFault
      <4>2. CASE f = e
        BY <1>1, <1>2, <2>2, <2>5, <4>1, <4>2
      <4>3. CASE f # e
        BY <1>1, <1>2, <2>2, <2>5, <4>1, <4>3
      <4> QED BY <4>2, <4>3
    <3>2. CASE RequeueFails(w)
      <4>1. UNCHANGED queue /\ faults' = faults + 1
        BY <3>2 DEF RequeueFails, Fault
      <4> QED BY <2>3, <2>5, <4>1
    <3> QED BY <3>1, <3>2
  <2>7. Occurrences(f, new.todo) \in Nat
    <3>1. new.todo \in Seq(Entries)
      BY DEF WriterRecord
    <3> QED BY <3>1, OccurrencesCounted
  <2>8. Cardinality(WrittenBy(writer, f)) = Cardinality(WrittenBy(writer', f)) + one
    BY <1>3, <2>1, <2>3, <2>4, <2>7
  <2>9. InFlight(f)' <= InFlight(f)
    <3>1. Cardinality(WrittenBy(writer', f)) \in Nat
      BY WrittenCounted
    <3> QED BY <1>1, <2>3, <2>5, <2>6, <2>8, <3>1 DEF InFlight
  <2>10. InFlight(f)' \in Nat
    BY <1>1, CopiesCountedNext
  <2>11. NoMoreOf(f)
    BY <1>1, <2>5, <2>9, <2>10 DEF NoMoreOf, Copies
  <2>12. Scarce(f) /\ (f \in logged => f \in logged')
    BY <1>1 DEF CopyInv
  <2> QED BY <1>1, <2>6, <2>11, <2>12, ScarceKept
<1> QED BY <1>5, <1>6 DEF CopyInv

(* A restart forgets what the worker held; the queue gives back at most one   *)
(* job of an entry, and none when no job was in progress.                     *)
LEMMA RestartCopies ==
  ASSUME AuditInv, AuditInv', CopyInv, Restart, UNCHANGED <<logged, rows>>,
         faults' = faults + 1 \/ (faults' = faults /\ Active = {})
  PROVE  CopyInv'
<1>1. /\ TypeOK /\ TypeOK' /\ queue \in [Entries -> Nat]
      /\ batch' = <<>> /\ writer' = [v \in Writers |-> Idle]
      /\ queue' = [e \in Entries |-> queue[e] + IF e \in Active \ stalled THEN 1 ELSE 0]
  BY DEF AuditInv, Inv, TypeOK, Restart
<1>2. Idle.todo = <<>> /\ Len(Idle.todo) <= BATCH_SIZE /\ Idle.job = NoEntry
  BY EmptyBatch, AuditAssumption DEF Idle
<1>3. SizesBounded' /\ JobsLogged'
  BY <1>1, <1>2 DEF SizesBounded, JobsLogged
<1>4. Active \subseteq logged
  BY DEF Active, CopyInv, JobsLogged
<1>5. ASSUME NEW f \in Entries PROVE Scarce(f)'
  <2>1. WrittenBy(writer', f) = {}
    <3>1. \A v \in Writers : Len(writer'[v].todo) = 0
      BY <1>1, <1>2
    <3> QED BY <3>1 DEF WrittenBy
  <2>2. Cardinality(WrittenBy(writer', f)) = 0 /\ Occurrences(f, batch') = 0
    BY <1>1, <2>1, FS_EmptySet, OccurrencesOfNone
  <2>3. /\ queue[f] \in Nat /\ rows[f] \in Nat /\ Occurrences(f, batch) \in Nat
        /\ Cardinality(WrittenBy(writer, f)) \in Nat
        /\ InFlight(f) \in Nat /\ Copies(f) \in Nat /\ faults \in Nat
    BY <1>1, CopiesCounted
  <2>4. InFlight(f)' \in Nat /\ Copies(f)' \in Nat /\ queue'[f] \in Nat
    BY <1>1, CopiesCountedNext
  <2>5. InFlight(f)' = queue'[f]
    BY <2>2, <2>4, CopiesCountedNext DEF InFlight
  <2>6. Scarce(f)
    BY DEF CopyInv
  <2>7. CASE f \in Active \ stalled
    <3>1. queue'[f] = queue[f] + 1
      BY <1>1, <2>7
    <3>2. InFlight(f)' <= InFlight(f) + 1
      BY <2>3, <2>5, <3>1 DEF InFlight
    <3>3. Copies(f)' <= Copies(f) + 1
      BY <2>3, <2>4, <3>2 DEF Copies
    <3>4. FewCopies(InFlight(f)', Copies(f)', faults + 1)
      BY <2>3, <2>4, <2>6, <3>2, <3>3, FewAfterCrash DEF Scarce
    <3>5. faults' = faults + 1 /\ f \in logged'
      BY <1>4, <2>7
    <3> QED BY <3>4, <3>5 DEF Scarce, NoneUnlogged
  <2>8. CASE f \notin Active \ stalled
    <3>1. queue'[f] = queue[f]
      BY <1>1, <2>3, <2>8
    <3>2. InFlight(f)' <= InFlight(f)
      BY <2>3, <2>5, <3>1 DEF InFlight
    <3>3. NoMoreOf(f)
      BY <2>3, <2>4, <3>2 DEF NoMoreOf, Copies
    <3>4. faults <= faults' /\ (f \in logged => f \in logged')
      BY <2>3
    <3> QED BY <1>1, <2>6, <3>3, <3>4, ScarceKept
  <2> QED BY <2>7, <2>8
<1> QED BY <1>3, <1>5 DEF CopyInv

(* A step that moves no copy. *)
LEMMA StillCopies ==
  ASSUME TypeOK, TypeOK', CopyInv, faults <= faults',
         UNCHANGED <<logged, queue, batch, writer, rows>>
  PROVE  CopyInv'
<1>1. SizesBounded' /\ JobsLogged'
  BY DEF CopyInv, SizesBounded, JobsLogged
<1>2. ASSUME NEW f \in Entries PROVE Scarce(f)'
  <2>1. InFlight(f)' = InFlight(f) /\ Copies(f)' = Copies(f)
    BY DEF InFlight, Copies
  <2>2. InFlight(f) \in Nat /\ Copies(f) \in Nat
    BY CopiesCounted
  <2>3. NoMoreOf(f) /\ Scarce(f) /\ (f \in logged => f \in logged')
    BY <2>1, <2>2 DEF NoMoreOf, CopyInv
  <2> QED BY <2>3, ScarceKept
<1> QED BY <1>1, <1>2 DEF CopyInv

LEMMA InitCopies == Init => CopyInv
<1> SUFFICES ASSUME Init PROVE CopyInv
  OBVIOUS
<1>1. Idle.todo = <<>> /\ Len(Idle.todo) <= BATCH_SIZE /\ Idle.job = NoEntry
  BY EmptyBatch, AuditAssumption DEF Idle
<1>2. SizesBounded /\ JobsLogged
  BY <1>1 DEF Init, SizesBounded, JobsLogged
<1>3. ASSUME NEW f \in Entries PROVE Scarce(f)
  <2>1. WrittenBy(writer, f) = {}
    <3>1. \A v \in Writers : Len(writer[v].todo) = 0
      BY <1>1 DEF Init
    <3> QED BY <3>1 DEF WrittenBy
  <2>2. Cardinality(WrittenBy(writer, f)) = 0 /\ Occurrences(f, batch) = 0
    BY <2>1, FS_EmptySet, OccurrencesOfNone DEF Init
  <2>3. queue[f] = 0 /\ rows[f] = 0 /\ faults = 0
    BY DEF Init
  <2>4. InFlight(f) = 0 /\ Copies(f) = 0
    BY <2>2, <2>3 DEF InFlight, Copies
  <2>5. FewCopies(0, 0, faults)
    BY <2>3, FewAtFirst
  <2> QED BY <2>4, <2>5 DEF Scarce, NoneUnlogged
<1> QED BY <1>2, <1>3 DEF CopyInv

LEMMA NextCopies == AuditInv /\ CopyInv /\ [Next]_vars => CopyInv'
<1> SUFFICES ASSUME AuditInv, CopyInv, [Next]_vars PROVE CopyInv'
  OBVIOUS
<1>1. AuditInv'
  BY NextKeeps
<1>2. /\ TypeOK /\ TypeOK' /\ faults \in Nat /\ faults <= faults + 1 /\ faults <= faults
  BY <1>1 DEF AuditInv, Inv, TypeOK
<1>3. CASE TimerFires
  <2>1. /\ ProcessBatch(batch, NoEntry, FALSE) /\ UNCHANGED <<logged, queue, rows>>
        /\ faults <= faults'
    BY <1>2, <1>3 DEF TimerFires, NoFault
  <2> QED BY <1>1, <2>1, FlushCopies
<1>4. CASE Crash
  <2>1. Restart /\ UNCHANGED <<logged, rows>> /\ faults' = faults + 1
    BY <1>4 DEF Crash, Fault
  <2> QED BY <1>1, <2>1, RestartCopies
<1>5. CASE Stop
  <2>1. /\ faults <= faults' /\ UNCHANGED <<logged, queue, rows>>
    BY <1>2, <1>5 DEF Stop, Fault
  <2>2. CASE batch = <<>> /\ phase' = "close" /\ UNCHANGED <<batch, timer, writer>>
    BY <1>2, <2>1, <2>2, StillCopies
  <2>3. CASE batch # <<>> /\ phase' = "flush" /\ ProcessBatch(batch, NoEntry, TRUE)
    BY <1>1, <2>1, <2>3, FlushCopies
  <2> QED BY <1>5, <2>2, <2>3 DEF Stop
<1>6. CASE Close
  <2>1. faults <= faults' /\ UNCHANGED <<logged, queue, batch, writer, rows>>
    BY <1>2, <1>6 DEF Close, NoFault
  <2> QED BY <1>2, <2>1, StillCopies
<1>7. CASE Exit
  <2>1. Restart /\ UNCHANGED <<logged, rows>> /\ faults' = faults /\ Active = {}
    BY <1>7 DEF Exit, NoFault
  <2> QED BY <1>1, <2>1, RestartCopies
<1>8. CASE \E e \in Entries : Log(e) \/ Collect(e)
  BY <1>1, <1>8, LogCopies, CollectCopies
<1>9. CASE \E w \in Writers : WriteOk(w) \/ WriteFails(w) \/ Requeue(w) \/ RequeueFails(w)
  BY <1>1, <1>9, WriteCopies, RequeueCopies
<1>10. CASE UNCHANGED vars
  <2>1. faults <= faults' /\ UNCHANGED <<logged, queue, batch, writer, rows>>
    BY <1>2, <1>10 DEF vars
  <2> QED BY <1>2, <2>1, StillCopies
<1> QED BY <1>3, <1>4, <1>5, <1>6, <1>7, <1>8, <1>9, <1>10 DEF Next

LEMMA CopiesBounded == AuditInv /\ CopyInv => BoundedCopies
<1> SUFFICES ASSUME AuditInv, CopyInv, NEW e \in Entries
             PROVE  4 * Copies(e) <= (faults + 2) * (faults + 2)
  BY DEF BoundedCopies
<1>1. InFlight(e) \in Nat /\ Copies(e) \in Nat /\ faults \in Nat
  BY CopiesCounted DEF AuditInv, Inv
<1>2. FewCopies(InFlight(e), Copies(e), faults)
  BY DEF CopyInv, Scarce
<1> QED BY <1>1, <1>2, FewIsSquare

(* Without a fault the audit trail counts no denial twice; with faults, the   *)
(* copies of an entry stay below the square of 1 + faults/2, whatever batches *)
(* they travel in (audit-log.worker.ts, processBatch and its job handler).    *)
THEOREM CopiesStayBounded == Spec => []BoundedCopies
<1>1. Init => AuditInv /\ CopyInv
  BY InitKeeps, InitCopies
<1>2. AuditInv /\ CopyInv /\ [Next]_vars => (AuditInv /\ CopyInv)'
  BY NextKeeps, NextCopies
<1>3. AuditInv /\ CopyInv => BoundedCopies
  BY CopiesBounded
<1> QED BY <1>1, <1>2, <1>3, PTL DEF Spec
=============================================================================
