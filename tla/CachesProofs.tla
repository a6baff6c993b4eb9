----------------------------- MODULE CachesProofs -----------------------------
(***************************************************************************)
(* Machine-checked proofs about Caches, for every set of readers and all   *)
(* lives, delays and bounds.                                               *)
(***************************************************************************)
EXTENDS Caches, TLAPS

-----------------------------------------------------------------------------
(* The inductive invariant.  A reader holds what was the present version at  *)
(* `got'; a copy is as young as the reader that stored it.                   *)

Fresh(x) ==
  x.pc # "idle" =>
    /\ x.begun <= x.got /\ x.got <= now /\ now <= x.begun + DELAY
    /\ x.pc \in {"store", "use"} => x.version # 0
    /\ x.pc = "load_missing" => x.version = 0
    /\ x.version # 0 => x.got < replaced[x.version] + TTL[kind] + DELAY
    /\ x.pc \in {"get", "store"} /\ x.version # 0 => x.got <= replaced[x.version]

NotOlder(x) == x.pc \in {"get", "store"} /\ x.version # 0 => floor <= x.version

PresentNotReplaced ==
  row # 0 => \A v \in Versions : row <= v => replaced[v] = Never

CopyFresh ==
  copy # NoCopy =>
    /\ copy.until <= now + TTL[kind]
    /\ copy.until <= replaced[copy.version] + TTL[kind] + DELAY

FloorReached == row # 0 => floor <= row

Inv ==
  /\ TypeOK
  /\ PresentNotReplaced /\ CopyFresh /\ FloorReached /\ InvalidatedIsGone
  /\ \A r \in Readers : Fresh(reader[r]) /\ NotOlder(reader[r])

-----------------------------------------------------------------------------
(* A step of one reader that leaves the value, its copy and the history alone *)
(* keeps the invariant if what the reader has become satisfies it.            *)
LEMMA ReaderMoves ==
  ASSUME Inv, NEW r \in Readers, NEW x \in ReaderRecord,
         reader' = [reader EXCEPT ![r] = x], Fresh(x), NotOlder(x),
         faults' \in Nat, UNCHANGED <<kind, row, copy, job, now, history>>
  PROVE  Inv'
<1>1. TypeOK'
  BY DEF Inv, TypeOK, history
<1>2. (PresentNotReplaced /\ CopyFresh /\ FloorReached /\ InvalidatedIsGone)'
  BY DEF Inv, PresentNotReplaced, CopyFresh, FloorReached, InvalidatedIsGone, history
<1>3. ASSUME NEW s \in Readers PROVE (Fresh(reader[s]) /\ NotOlder(reader[s]))'
  <2>1. reader'[s] = IF s = r THEN x ELSE reader[s]
    BY DEF Inv, TypeOK
  <2>2. Fresh(reader'[s]) /\ NotOlder(reader'[s])
    BY <2>1 DEF Inv
  <2> QED BY <2>2 DEF Fresh, NotOlder, history
<1> QED BY <1>1, <1>2, <1>3 DEF Inv

LEMMA ReaderFinishes ==
  ASSUME Inv, NEW r \in Readers, Finished(r), faults' \in Nat,
         UNCHANGED <<kind, row, copy, job, now, history>>
  PROVE  Inv'
<1>1. Idle \in ReaderRecord /\ Fresh(Idle) /\ NotOlder(Idle)
  BY CachesAssumption DEF Idle, ReaderRecord, Pc, Times, Fresh, NotOlder
<1> QED BY <1>1, ReaderMoves DEF Finished

(* A reader that has just read the present version. *)
LEMMA ReaderLoads ==
  ASSUME Inv, NEW r \in Readers, NEW pc \in {"get", "store"},
         reader[r].pc # "idle", row # 0, Holds(r, pc, row),
         UNCHANGED <<kind, row, copy, job, now, faults, history>>
  PROVE  Inv'
<1> DEFINE x == [pc |-> pc, version |-> row, begun |-> reader[r].begun, got |-> now]
<1>1. x \in ReaderRecord
  BY DEF Inv, TypeOK, ReaderRecord, Pc
<1>2. replaced[row] = Never /\ floor <= row /\ row \in Versions
  BY DEF Inv, TypeOK, PresentNotReplaced, FloorReached, Versions
<1>3. TTL[kind] \in Nat \ {0} /\ DELAY \in Nat /\ now \in 0 .. MaxTime /\ MaxTime \in Nat
  BY CachesAssumption DEF Inv, TypeOK, Times
<1>4. reader[r].begun <= now /\ now <= reader[r].begun + DELAY
  <2>1. reader[r] \in ReaderRecord
    BY DEF Inv, TypeOK
  <2> QED BY <2>1, <1>3 DEF Inv, Fresh, ReaderRecord, Times
<1>5. Fresh(x)
  BY <1>2, <1>3, <1>4 DEF Fresh, Never, Versions
<1>6. NotOlder(x)
  BY <1>2 DEF NotOlder
<1> QED BY <1>1, <1>5, <1>6, ReaderMoves DEF Holds, Inv, TypeOK

-----------------------------------------------------------------------------
LEMMA InvInit == Init => Inv
<1> SUFFICES ASSUME Init PROVE Inv
  OBVIOUS
<1> USE CachesAssumption
<1>1. Idle \in ReaderRecord /\ Fresh(Idle) /\ NotOlder(Idle)
  BY DEF Idle, ReaderRecord, Pc, Times, Fresh, NotOlder
<1>2. TypeOK
  BY <1>1 DEF Init, TypeOK, Versions, Times, Never
<1>3. PresentNotReplaced /\ CopyFresh /\ FloorReached /\ InvalidatedIsGone
  BY DEF Init, PresentNotReplaced, CopyFresh, FloorReached, InvalidatedIsGone
<1> QED BY <1>1, <1>2, <1>3 DEF Inv, Init

LEMMA BeginKeeps ==
  ASSUME Inv, NEW r \in Readers, NEW pc \in {"load", "get"}, Begin(r, pc)
  PROVE  Inv'
<1> DEFINE x == [pc |-> pc, version |-> 0, begun |-> now, got |-> now]
<1>1. x \in ReaderRecord
  BY DEF Inv, TypeOK, ReaderRecord, Pc
<1>2. Fresh(x) /\ NotOlder(x)
  BY CachesAssumption DEF Inv, TypeOK, Fresh, NotOlder, Times
<1> QED BY <1>1, <1>2, ReaderMoves DEF Begin, Inv, TypeOK

LEMMA MovedKeeps ==
  ASSUME Inv, NEW r \in Readers, reader[r].pc = "get",
         UNCHANGED <<kind, row, copy, job, now, faults, history>>,
         \/ reader[r].version # 0 /\ Moved(r, "store")
         \/ reader[r].version = 0 /\ Moved(r, "load_missing")
  PROVE  Inv'
<1>1. PICK pc \in {"store", "load_missing"} :
        /\ reader' = [reader EXCEPT ![r].pc = pc]
        /\ (pc = "store") <=> (reader[r].version # 0)
  BY DEF Moved
<1> DEFINE x == [reader[r] EXCEPT !.pc = pc]
<1>2. reader[r] \in ReaderRecord
  BY DEF Inv, TypeOK
<1>3. x \in ReaderRecord
  BY <1>2 DEF ReaderRecord, Pc
<1>4. /\ x.pc = pc /\ x.version = reader[r].version
      /\ x.begun = reader[r].begun /\ x.got = reader[r].got
  BY <1>2 DEF ReaderRecord
<1>5. Fresh(x) /\ NotOlder(x)
  <2>1. Fresh(reader[r]) /\ NotOlder(reader[r])
    BY DEF Inv
  <2> HIDE DEF x
  <2> QED BY <2>1, <1>1, <1>4 DEF Fresh, NotOlder
<1>6. reader' = [reader EXCEPT ![r] = x]
  BY <1>1
<1> HIDE DEF x
<1> QED BY <1>3, <1>5, <1>6, ReaderMoves DEF Inv, TypeOK

LEMMA GetKeeps == ASSUME Inv, NEW r \in Readers, Get(r) PROVE Inv'
<1>1. CASE Alive /\ Holds(r, "use", copy.version)
  <2> DEFINE x == [pc |-> "use", version |-> copy.version,
                   begun |-> reader[r].begun, got |-> now]
  <2>1. reader[r] \in ReaderRecord /\ now \in Times /\ TTL[kind] \in Nat \ {0} /\ DELAY \in Nat
    BY CachesAssumption DEF Inv, TypeOK
  <2>2. /\ copy \in [version : Versions, until : 1 .. MaxTime + TTL[kind]]
        /\ now < copy.until
    BY <1>1 DEF Inv, TypeOK, Alive
  <2>3. copy.version \in Versions /\ copy.until \in Int
    BY <2>2
  <2>4. replaced[copy.version] \in Int
    BY <2>3, CachesAssumption DEF Inv, TypeOK, Times, Never
  <2>5. copy.until <= replaced[copy.version] + TTL[kind] + DELAY
    BY <1>1 DEF Inv, CopyFresh, Alive
  <2>6. now < replaced[copy.version] + TTL[kind] + DELAY
    BY <2>1, <2>2, <2>3, <2>4, <2>5 DEF Times
  <2>7. reader[r].begun <= now /\ now <= reader[r].begun + DELAY
    BY <2>1 DEF Inv, Fresh, Get, ReaderRecord, Times
  <2>8. x \in ReaderRecord
    BY <2>1, <2>3 DEF ReaderRecord, Pc
  <2>9. Fresh(x) /\ NotOlder(x)
    BY <2>1, <2>3, <2>6, <2>7 DEF Fresh, NotOlder, Versions, Times
  <2> QED BY <1>1, <2>8, <2>9, ReaderMoves DEF Get, Holds, Inv, TypeOK
<1>2. CASE ~Alive
  BY <1>2, MovedKeeps DEF Get
<1> QED BY <1>1, <1>2 DEF Get

LEMMA StoreKeeps == ASSUME Inv, NEW r \in Readers, Store(r) PROVE Inv'
<1> DEFINE x == reader[r]  v == reader[r].version
<1>1. x \in ReaderRecord /\ Fresh(x) /\ NotOlder(x) /\ x.pc = "store"
  BY DEF Inv, TypeOK, Store
<1>2. /\ now \in Times /\ TTL[kind] \in Nat \ {0} /\ DELAY \in Nat /\ MaxTime \in Nat
      /\ floor \in Versions \cup {0}
  BY CachesAssumption DEF Inv, TypeOK
<1>3. v \in Versions /\ x.got \in Times /\ x.begun \in Times
  BY <1>1 DEF Fresh, ReaderRecord
<1>4. replaced[v] \in Int
  BY <1>3, CachesAssumption DEF Inv, TypeOK, Times, Never
<1>5. x.got <= replaced[v] /\ now <= x.begun + DELAY /\ x.begun <= x.got /\ floor <= v
  BY <1>1, <1>3 DEF Fresh, NotOlder, Versions
<1> DEFINE c == [version |-> v, until |-> now + TTL[kind]]
<1>6. /\ copy' = c /\ reader' = [reader EXCEPT ![r].pc = "use"]
      /\ UNCHANGED <<kind, row, job, now, faults, replaced, floor>>
  BY DEF Store, Moved, history
<1>7. c \in [version : Versions, until : 1 .. MaxTime + TTL[kind]]
  BY <1>2, <1>3 DEF Times
<1>8. c.until <= now + TTL[kind] /\ c.until <= replaced[v] + TTL[kind] + DELAY
  BY <1>2, <1>3, <1>4, <1>5 DEF Times
<1> DEFINE y == [reader[r] EXCEPT !.pc = "use"]
<1>9. /\ y \in ReaderRecord /\ y.pc = "use" /\ y.version = v
      /\ y.begun = x.begun /\ y.got = x.got
  BY <1>1 DEF ReaderRecord, Pc
<1>10. TypeOK'
  BY <1>6, <1>7, <1>9 DEF Inv, TypeOK
<1>11. (PresentNotReplaced /\ FloorReached)'
  BY <1>6 DEF Inv, PresentNotReplaced, FloorReached
<1>12. (CopyFresh /\ InvalidatedIsGone)'
  <2> HIDE DEF y
  <2> QED BY <1>5, <1>6, <1>8 DEF CopyFresh, InvalidatedIsGone
<1>13. Fresh(y) /\ NotOlder(y)
  <2> HIDE DEF y
  <2> QED BY <1>1, <1>9 DEF Fresh, NotOlder
<1>14. ASSUME NEW s \in Readers PROVE (Fresh(reader[s]) /\ NotOlder(reader[s]))'
  <2>1. reader'[s] = IF s = r THEN y ELSE reader[s]
    BY <1>6 DEF Inv, TypeOK
  <2> HIDE DEF y
  <2>2. Fresh(reader'[s]) /\ NotOlder(reader'[s])
    BY <2>1, <1>13 DEF Inv
  <2> QED BY <2>2, <1>6 DEF Fresh, NotOlder
<1> QED BY <1>10, <1>11, <1>12, <1>14 DEF Inv

(* The present version is replaced, by the next one or by none. *)
LEMMA ReplacedKeeps ==
  ASSUME Inv, row # 0, row' \in {row + 1, 0} \cap (Versions \cup {0}), job' \in Nat,
         replaced' = [replaced EXCEPT ![row] = now],
         UNCHANGED <<kind, copy, reader, now, faults, floor>>
  PROVE  Inv'
<1>1. /\ now \in 0 .. MaxTime /\ TTL[kind] \in Nat \ {0} /\ DELAY \in Nat /\ MaxTime \in Nat
      /\ row \in Versions /\ row \in Nat /\ floor \in Nat
      /\ replaced \in [Versions -> Times \cup {Never}]
  BY CachesAssumption DEF Inv, TypeOK, Times, Versions
<1>2. \A v \in Versions : replaced'[v] = IF v = row THEN now ELSE replaced[v]
  BY <1>1
<1>3. TypeOK'
  BY <1>1 DEF Inv, TypeOK, Times
<1>4. PresentNotReplaced'
  BY <1>1, <1>2 DEF Inv, PresentNotReplaced, Versions, Never
<1>5. CopyFresh'
  <2> SUFFICES ASSUME copy # NoCopy
               PROVE  /\ copy.until <= now + TTL[kind]
                      /\ copy.until <= replaced'[copy.version] + TTL[kind] + DELAY
    BY DEF CopyFresh
  <2>1. copy.version \in Versions /\ copy.until \in Int
    BY DEF Inv, TypeOK
  <2> QED BY <1>1, <1>2, <2>1 DEF Inv, CopyFresh
<1>6. (FloorReached /\ InvalidatedIsGone)'
  BY <1>1 DEF Inv, FloorReached, InvalidatedIsGone
<1>7. ASSUME NEW r \in Readers PROVE (Fresh(reader[r]) /\ NotOlder(reader[r]))'
  <2>1. reader[r] \in ReaderRecord /\ Fresh(reader[r]) /\ NotOlder(reader[r])
    BY DEF Inv, TypeOK
  <2>2. /\ reader[r].version \in Versions \cup {0} /\ reader[r].got \in Int
        /\ reader[r].begun \in Int
    BY <2>1 DEF ReaderRecord, Times
  <2>3. NotOlder(reader[r])'
    BY <2>1 DEF NotOlder
  <2>4. Fresh(reader[r])'
    BY <1>1, <1>2, <2>1, <2>2 DEF Fresh
  <2> QED BY <2>3, <2>4
<1> QED BY <1>3, <1>4, <1>5, <1>6, <1>7 DEF Inv

(* The copy is dropped; floor may rise to the present version if no reader     *)
(* holds an older one.                                                         *)
LEMMA DroppedKeeps ==
  ASSUME Inv, copy' = NoCopy, job' \in Nat, faults' \in Nat,
         \/ floor' = floor
         \/ floor' = row /\ \A r \in Readers : ~Outdated(r),
         UNCHANGED <<kind, row, reader, now, replaced>>
  PROVE  Inv'
<1>1. TypeOK'
  BY DEF Inv, TypeOK
<1>2. (PresentNotReplaced /\ CopyFresh /\ InvalidatedIsGone)'
  BY DEF Inv, PresentNotReplaced, CopyFresh, InvalidatedIsGone
<1>3. FloorReached'
  BY DEF Inv, TypeOK, FloorReached, Versions
<1>4. ASSUME NEW r \in Readers PROVE (Fresh(reader[r]) /\ NotOlder(reader[r]))'
  <2>1. Fresh(reader[r])'
    BY DEF Inv, Fresh
  <2>2. reader[r] \in ReaderRecord /\ NotOlder(reader[r])
    BY DEF Inv, TypeOK
  <2>3. NotOlder(reader[r])'
    BY <2>2 DEF NotOlder, Outdated, ReaderRecord, Versions
  <2> QED BY <2>1, <2>3
<1> QED BY <1>1, <1>2, <1>3, <1>4 DEF Inv

LEMMA TickKeeps == ASSUME Inv, Tick PROVE Inv'
<1>1. /\ now \in 0 .. MaxTime /\ now' = now + 1 /\ now' \in 0 .. MaxTime
      /\ TTL[kind] \in Nat \ {0} /\ DELAY \in Nat
      /\ replaced \in [Versions -> Times \cup {Never}]
  BY CachesAssumption DEF Inv, TypeOK, Times, Tick
<1>2. copy' = copy \/ copy' = NoCopy
  BY DEF Tick
<1>3. UNCHANGED <<kind, row, job, reader, faults, replaced, floor>>
  BY DEF Tick, history
<1>4. TypeOK'
  BY <1>1, <1>2, <1>3 DEF Inv, TypeOK, Times
<1>5. (PresentNotReplaced /\ FloorReached /\ InvalidatedIsGone)'
  BY <1>2, <1>3 DEF Inv, PresentNotReplaced, FloorReached, InvalidatedIsGone
<1>6. CopyFresh'
  <2>1. CASE copy' = NoCopy
    BY <2>1 DEF CopyFresh
  <2>2. CASE copy' = copy /\ copy # NoCopy
    <3>1. copy.until \in Int /\ copy.version \in Versions
      BY <2>2 DEF Inv, TypeOK
    <3> QED BY <1>1, <1>3, <2>2, <3>1 DEF Inv, CopyFresh
  <2> QED BY <1>2, <2>1, <2>2
<1>7. ASSUME NEW r \in Readers PROVE (Fresh(reader[r]) /\ NotOlder(reader[r]))'
  <2>1. reader[r] \in ReaderRecord /\ Fresh(reader[r]) /\ NotOlder(reader[r])
    BY DEF Inv, TypeOK
  <2>2. reader[r].got \in Int /\ reader[r].begun \in Int
    BY <2>1 DEF ReaderRecord, Times
  <2>3. reader[r].pc # "idle" => now < reader[r].begun + DELAY
    BY DEF Tick
  <2>4. Fresh(reader[r])'
    BY <1>1, <1>3, <2>1, <2>2, <2>3 DEF Fresh
  <2>5. NotOlder(reader[r])'
    BY <1>3, <2>1 DEF NotOlder
  <2> QED BY <2>4, <2>5
<1> QED BY <1>4, <1>5, <1>6, <1>7 DEF Inv

-----------------------------------------------------------------------------
LEMMA InvNext == Inv /\ [Next]_vars => Inv'
<1> SUFFICES ASSUME Inv, [Next]_vars PROVE Inv'
  OBVIOUS
<1>1. ASSUME NEW r \in Readers, ReaderStep(r) PROVE Inv'
  <2>1. CASE BeginSigning(r)
    BY <2>1, BeginKeeps DEF BeginSigning
  <2>2. CASE BeginLookup(r)
    BY <2>2, BeginKeeps DEF BeginLookup
  <2>3. CASE Load(r)
    BY <2>3, ReaderLoads, ReaderFinishes DEF Load, Inv, TypeOK
  <2>4. CASE Get(r)
    BY <2>4, GetKeeps
  <2>5. CASE LoadMissing(r)
    BY <2>5, ReaderLoads, ReaderFinishes DEF LoadMissing, Inv, TypeOK
  <2>6. CASE Store(r)
    BY <2>6, StoreKeeps
  <2>7. CASE Use(r)
    BY <2>7, ReaderFinishes DEF Use, Inv, TypeOK
  <2>8. CASE ReaderFails(r)
    BY <2>8, ReaderFinishes DEF ReaderFails, Inv, TypeOK
  <2> QED BY <1>1, <2>1, <2>2, <2>3, <2>4, <2>5, <2>6, <2>7, <2>8 DEF ReaderStep
<1>2. CASE RotateSecret
  <2>1. row # 0 /\ row' \in {row + 1, 0} \cap (Versions \cup {0}) /\ job' \in Nat
    BY <1>2, CachesAssumption DEF RotateSecret, Inv, TypeOK, Versions
  <2> QED BY <1>2, <2>1, ReplacedKeeps DEF RotateSecret
<1>9. CASE ChangeConfigurations
  <2>1. row # 0 /\ row' \in {row + 1, 0} \cap (Versions \cup {0}) /\ job' \in Nat
    BY <1>9, CachesAssumption DEF ChangeConfigurations, Inv, TypeOK, Versions
  <2> QED BY <1>9, <2>1, ReplacedKeeps DEF ChangeConfigurations
<1>3. CASE DeleteDestination
  BY <1>3, ReplacedKeeps DEF DeleteDestination, Inv, TypeOK
<1>4. CASE Invalidate
  <2>1. job' \in Nat /\ faults' \in Nat
    BY <1>4 DEF Invalidate, Inv, TypeOK
  <2> QED BY <1>4, <2>1, DroppedKeeps DEF Invalidate
<1>5. CASE JobLost
  BY <1>5 DEF JobLost, Inv, TypeOK, PresentNotReplaced, CopyFresh, FloorReached,
              InvalidatedIsGone, Fresh, NotOlder, history
<1>6. CASE RedisLosesCopies
  <2>1. job' \in Nat /\ faults' \in Nat
    BY <1>6 DEF RedisLosesCopies, Inv, TypeOK
  <2> QED BY <1>6, <2>1, DroppedKeeps DEF RedisLosesCopies, history
<1>7. CASE Tick
  BY <1>7, TickKeeps
<1>8. CASE UNCHANGED vars
  BY <1>8 DEF vars, history, Inv, TypeOK, PresentNotReplaced, CopyFresh, FloorReached,
              InvalidatedIsGone, Fresh, NotOlder
<1> QED BY <1>1, <1>2, <1>3, <1>4, <1>5, <1>6, <1>7, <1>8, <1>9 DEF Next

LEMMA Invariance == Spec => []Inv
BY InvInit, InvNext, PTL DEF Spec

(* Every variable keeps its type. *)
THEOREM CachesType == Spec => []TypeOK
<1>1. Inv => TypeOK
  BY DEF Inv
<1> QED BY Invariance, <1>1, PTL

(* However many readers overlap a rotation of the secret, a change of the     *)
(* configurations and each other, none uses what was replaced longer ago than *)
(* the life of one copy and the delay of one reader.                          *)
THEOREM BoundedStaleness == Spec => []StaleBounded
<1>1. Inv => StaleBounded
  BY DEF Inv, Fresh, StaleBounded
<1> QED BY Invariance, <1>1, PTL

(* An invalidation that meets no reader with an older version is final: Redis *)
(* never holds an older version again.                                        *)
THEOREM InvalidationIsFinal == Spec => []InvalidatedIsGone
<1>1. Inv => InvalidatedIsGone
  BY DEF Inv
<1> QED BY Invariance, <1>1, PTL
=============================================================================
