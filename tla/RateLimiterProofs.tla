-------------------------- MODULE RateLimiterProofs --------------------------
(***************************************************************************)
(* Machine-checked proofs about RateLimiter, for every list of             *)
(* configurations, any number of requests, delays, ticks and failed checks.*)
(***************************************************************************)
EXTENDS RateLimiter, FiniteSetTheorems, TLAPS

-----------------------------------------------------------------------------
(* Types.  A time stamp is not older than MAX_DELAY when its script runs, and *)
(* a check that let its request pass is behind that request.                 *)

Stamped(x) ==
  /\ x.cfg \in Configs /\ x.at <= now
  /\ x.pc = "script" => now <= x.at + MAX_DELAY

Past(a) ==
  /\ a.cfg \in Configs /\ a.at <= a.time /\ a.time <= a.at + MAX_DELAY /\ a.time <= now
  /\ request[a.request].pc = "allowed" \/ a.cfg < request[a.request].cfg

TypeInv ==
  /\ TypeOK
  /\ \A c \in Configs : IsFiniteSet(hits[c])
  /\ IsFiniteSet(admitted)
  /\ \A r \in Requests : Stamped(request[r])
  /\ \A a \in admitted : Past(a)

LEMMA ConfigTypes ==
  ASSUME chain \in Chains, NEW c \in Configs
  PROVE  /\ chain[c].strategy \in Strategies
         /\ chain[c].limit \in Nat /\ chain[c].limit > 0
         /\ chain[c].window \in Nat /\ chain[c].window > 0
         /\ chain[c].refill \in Nat /\ chain[c].refill > 0
         /\ Capacity(c) \in Nat /\ Capacity(c) >= chain[c].refill
         /\ c \in Nat /\ c <= Len(chain) /\ Len(chain) \in Nat
<1>1. chain \in Seq(Config) /\ chain[c] \in Config /\ Len(chain) \in Nat
  BY LimiterAssumption DEF Configs
<1>2. \A m, n \in Nat : m > 0 => m * n \in Nat /\ m * n >= n
  OBVIOUS
<1>3. /\ chain[c].limit \in Nat /\ chain[c].limit > 0 /\ chain[c].window \in Nat /\ chain[c].window > 0
      /\ chain[c].refill \in Nat /\ chain[c].refill > 0 /\ chain[c].strategy \in Strategies
  BY <1>1 DEF Config
<1>4. Capacity(c) \in Nat /\ Capacity(c) >= chain[c].refill
  BY <1>2, <1>3 DEF Capacity
<1>5. c \in Nat /\ c <= Len(chain)
  BY <1>1 DEF Configs
<1> QED BY <1>1, <1>3, <1>4, <1>5

LEMMA FirstConfig ==
  ASSUME chain \in Chains
  PROVE  1 \in Configs
<1>1. chain \in Seq(Config) /\ chain # <<>>
  BY LimiterAssumption
<1> QED BY <1>1 DEF Configs

LEMMA Division ==
  ASSUME NEW a \in Nat, NEW w \in Nat, w > 0
  PROVE  /\ a \div w \in Nat
         /\ (a \div w) * w <= a /\ a < (a \div w) * w + w
         /\ a \div w <= a
  OBVIOUS

LEMMA TypeInit == Init => TypeInv
<1> SUFFICES ASSUME Init PROVE TypeInv
  OBVIOUS
<1>1. chain \in Chains /\ 1 \in Configs
  BY FirstConfig DEF Init
<1>2. TypeOK
  BY <1>1, ConfigTypes, LimiterAssumption DEF Init, TypeOK, NoHash, RequestRecord, Indices, Of, Capacity
<1> QED BY <1>1, <1>2, FS_EmptySet, LimiterAssumption DEF Init, TypeInv, Stamped

StoreOK ==
  /\ hits \in [Configs -> SUBSET (Nat \X Draws)]
  /\ \A c \in Configs : IsFiniteSet(hits[c])
  /\ counts \in [Configs -> [Indices -> Nat]]
  /\ bucket \in [Configs -> [level : Int, last : Int]]
  /\ \A c \in Of("TOKEN_BUCKET") : bucket[c].level <= chain[c].limit * chain[c].refill
  /\ expires \in [Configs -> [Indices -> Nat]]

LEMMA RequestTypes ==
  ASSUME TypeInv, NEW r \in Requests
  PROVE  /\ request[r] \in RequestRecord /\ Stamped(request[r])
         /\ request[r].cfg \in Configs /\ request[r].at \in Nat /\ request[r].at <= now
         /\ now \in Nat /\ now <= MaxNow /\ MaxNow \in Nat /\ MAX_DELAY \in Nat /\ GRACE \in Nat
         /\ MAX_DELAY <= GRACE
         /\ request[r].pc = "script" => now <= request[r].at + MAX_DELAY
  BY LimiterAssumption DEF TypeInv, TypeOK, RequestRecord, Stamped

LEMMA IndexType ==
  ASSUME TypeInv, NEW c \in Configs, NEW at \in Nat, at <= now
  PROVE  /\ Index(c, at) \in Indices /\ Index(c, at) \in Nat
         /\ Index(c, at) * chain[c].window \in Nat
         /\ Index(c, at) * chain[c].window <= at
         /\ at < Index(c, at) * chain[c].window + chain[c].window
<1>1. chain[c].window \in Nat /\ chain[c].window > 0
  BY ConfigTypes DEF TypeInv, TypeOK
<1>2. now \in Nat /\ now <= MaxNow /\ MaxNow \in Nat
  BY LimiterAssumption DEF TypeInv, TypeOK
<1>3. /\ at \div chain[c].window \in Nat /\ at \div chain[c].window <= at
      /\ (at \div chain[c].window) * chain[c].window <= at
      /\ at < (at \div chain[c].window) * chain[c].window + chain[c].window
  BY <1>1, Division
<1>4. (at \div chain[c].window) * chain[c].window \in Nat
  <2>1. \A m, n \in Nat : m * n \in Nat
    OBVIOUS
  <2> QED BY <1>1, <1>3, <2>1
<1> QED BY <1>2, <1>3, <1>4 DEF Index, Indices

LEMMA CellWritten ==
  ASSUME NEW S, NEW T, NEW f \in [S -> [T -> Nat]], NEW c \in S, NEW i \in T, NEW n \in Nat
  PROVE  /\ [f EXCEPT ![c][i] = n] \in [S -> [T -> Nat]]
         /\ \A d \in S, j \in T :
              [f EXCEPT ![c][i] = n][d][j] = IF d = c /\ j = i THEN n ELSE f[d][j]
<1>1. [f[c] EXCEPT ![i] = n] \in [T -> Nat]
  OBVIOUS
<1> QED BY <1>1

LEMMA ZeroIndex == 0 \in Indices
  BY LimiterAssumption DEF Indices

LEMMA ScriptTyped ==
  ASSUME TypeInv, NEW r \in Requests, request[r].pc = "script", chain' = chain,
         NEW draw \in DrawsOf(request[r].cfg), RunScript(request[r].cfg, request[r].at, draw)
  PROVE  StoreOK'
<1> DEFINE c == request[r].cfg
           at == request[r].at
<1>1. /\ c \in Configs /\ at \in Nat /\ at <= now /\ now \in Nat /\ GRACE \in Nat /\ chain \in Chains
      /\ Configs' = Configs
  BY RequestTypes DEF TypeInv, TypeOK, Configs
<1>2. StoreOK
  BY DEF StoreOK, TypeInv, TypeOK
<1>3. draw \in Draws
  BY <1>1, LimiterAssumption DEF DrawsOf
<1>4. /\ chain[c].window \in Nat /\ chain[c].refill \in Nat /\ chain[c].refill > 0
      /\ Capacity(c) \in Nat
  BY <1>1, ConfigTypes
<1> HIDE DEF c, at
<1>5. ASSUME /\ hits' \in [Configs -> SUBSET (Nat \X Draws)]
             /\ \A d \in Configs : IsFiniteSet(hits'[d])
             /\ counts' \in [Configs -> [Indices -> Nat]]
             /\ bucket' \in [Configs -> [level : Int, last : Int]]
             /\ \A d \in Of("TOKEN_BUCKET") : bucket'[d].level <= chain[d].limit * chain[d].refill
             /\ expires' \in [Configs -> [Indices -> Nat]]
      PROVE  StoreOK'
  <2>1. Of("TOKEN_BUCKET")' = Of("TOKEN_BUCKET")
    BY <1>1 DEF Of
  <2> QED BY <1>1, <1>5, <2>1 DEF StoreOK
<1>6. CASE c \in Of("SLIDING_WINDOW") /\ SlidingScript(c, at, draw)
  <2>1. Kept(c, at) \subseteq hits[c] /\ IsFiniteSet(Kept(c, at)) /\ hits[c] \in SUBSET (Nat \X Draws)
    BY <1>1, <1>2, FS_Subset DEF StoreOK, Kept
  <2>2. IsFiniteSet(Kept(c, at) \cup {<<at, draw>>})
    BY <2>1, FS_AddElement
  <2>3. Expiry(c) \in Nat
    BY <1>1, <1>4 DEF Expiry
  <2>4. /\ hits' \in [Configs -> SUBSET (Nat \X Draws)]
        /\ \A d \in Configs : IsFiniteSet(hits'[d])
    <3>1. PICK left \in {Kept(c, at), Kept(c, at) \cup {<<at, draw>>}} : hits' = [hits EXCEPT ![c] = left]
      BY <1>6 DEF SlidingScript
    <3>2. <<at, draw>> \in Nat \X Draws
      BY <1>1, <1>3
    <3>3. left \in SUBSET (Nat \X Draws) /\ IsFiniteSet(left)
      BY <2>1, <2>2, <3>2
    <3> QED BY <1>1, <1>2, <3>1, <3>3 DEF StoreOK
  <2>5. expires' \in [Configs -> [Indices -> Nat]]
    <3>1. [expires EXCEPT ![c][0] = Expiry(c)] \in [Configs -> [Indices -> Nat]]
      BY <1>1, <1>2, <2>3, ZeroIndex, CellWritten DEF StoreOK
    <3> QED BY <1>2, <1>6, <3>1 DEF StoreOK, SlidingScript
  <2>6. UNCHANGED <<counts, bucket>>
    BY <1>6 DEF SlidingScript
  <2> QED BY <1>2, <1>5, <2>4, <2>5, <2>6 DEF StoreOK
<1>7. CASE c \in Of("FIXED_WINDOW") /\ FixedScript(c, at)
  <2>1. Index(c, at) \in Indices
    BY <1>1, IndexType
  <2>2. Count(c, Index(c, at)) \in Nat /\ Expiry(c) \in Nat
    BY <1>1, <1>2, <1>4, <2>1 DEF StoreOK, Count, Expiry
  <2>3. counts' \in [Configs -> [Indices -> Nat]] /\ expires' \in [Configs -> [Indices -> Nat]]
    <3>1. Count(c, Index(c, at)) + 1 \in Nat
      BY <2>2
    <3>2. /\ [counts EXCEPT ![c][Index(c, at)] = Count(c, Index(c, at)) + 1] \in [Configs -> [Indices -> Nat]]
          /\ [expires EXCEPT ![c][Index(c, at)] = Expiry(c)] \in [Configs -> [Indices -> Nat]]
      BY <1>1, <1>2, <2>1, <2>2, <3>1, CellWritten DEF StoreOK
    <3> QED BY <1>2, <1>7, <3>2 DEF StoreOK, FixedScript
  <2>4. UNCHANGED <<hits, bucket>>
    BY <1>7 DEF FixedScript
  <2> QED BY <1>2, <1>5, <2>3, <2>4 DEF StoreOK
<1>8. CASE c \in Of("TOKEN_BUCKET") /\ BucketScript(c, at)
  <2>1. /\ Hash(c, at).level \in Int /\ Hash(c, at).last \in Int
        /\ bucket[c] \in [level : Int, last : Int]
    BY <1>1, <1>2, <1>4 DEF StoreOK, Hash
  <2>2. Level(c, at) \in Int /\ Level(c, at) <= Capacity(c)
    BY <1>1, <1>4, <2>1 DEF Level, Least
  <2>3. PICK taken \in {0, chain[c].refill} :
          /\ bucket' = [bucket EXCEPT ![c] = [level |-> Level(c, at) - taken, last |-> at]]
          /\ expires' = [expires EXCEPT ![c][0] = now + Capacity(c) + GRACE]
          /\ UNCHANGED <<hits, counts>>
    BY <1>8 DEF BucketScript
  <2>4. Level(c, at) - taken \in Int /\ Level(c, at) - taken <= Capacity(c)
    BY <1>4, <2>2
  <2>5. bucket' \in [Configs -> [level : Int, last : Int]]
    BY <1>1, <1>2, <2>3, <2>4 DEF StoreOK
  <2>6. \A d \in Of("TOKEN_BUCKET") : bucket'[d].level <= chain[d].limit * chain[d].refill
    <3> SUFFICES ASSUME NEW d \in Of("TOKEN_BUCKET")
                 PROVE  bucket'[d].level <= chain[d].limit * chain[d].refill
      OBVIOUS
    <3>1. d \in Configs
      BY DEF Of
    <3>2. CASE d = c
      BY <1>1, <1>2, <2>3, <2>4, <3>2 DEF StoreOK, Capacity
    <3>3. CASE d # c
      BY <1>2, <2>3, <3>1, <3>3 DEF StoreOK
    <3> QED BY <3>2, <3>3
  <2>7. expires' \in [Configs -> [Indices -> Nat]]
    <3>1. now + Capacity(c) + GRACE \in Nat
      BY <1>1, <1>4
    <3> QED BY <1>1, <1>2, <2>3, <3>1, ZeroIndex, CellWritten DEF StoreOK
  <2>8. UNCHANGED <<hits, counts>>
    BY <2>3
  <2> QED BY <1>2, <1>5, <2>5, <2>6, <2>7, <2>8 DEF StoreOK
<1> QED BY <1>6, <1>7, <1>8 DEF RunScript, c, at

(* What a step of a request leaves of the types. *)
LEMMA RequestMoves ==
  ASSUME TypeInv, StoreOK', UNCHANGED <<chain, now>>,
         faults' \in 0..MaxFaults,
         NEW r \in Requests, NEW x \in RequestRecord, request' = [request EXCEPT ![r] = x],
         Stamped(x), x.pc = "allowed" \/ request[r].cfg <= x.cfg,
         request[r].pc = "allowed" => x.pc = "allowed",
         \/ UNCHANGED admitted
         \/ \E a \in Admission : /\ admitted' = admitted \cup {a}
                                 /\ a.request = r /\ a.cfg = request[r].cfg
                                 /\ x.pc = "allowed" \/ a.cfg < x.cfg
                                 /\ a.at <= a.time /\ a.time <= a.at + MAX_DELAY /\ a.time <= now
  PROVE  TypeInv'
<1>1. Configs' = Configs
  BY DEF Configs
<1>2. /\ request \in [Requests -> RequestRecord] /\ admitted \subseteq Admission /\ IsFiniteSet(admitted)
      /\ \A s \in Requests : Stamped(request[s])
      /\ \A a \in admitted : Past(a)
  BY DEF TypeInv, TypeOK
<1>3. /\ request' \in [Requests -> RequestRecord]
      /\ \A s \in Requests : request'[s] = IF s = r THEN x ELSE request[s]
  BY <1>2
<1>4. admitted' \subseteq Admission /\ IsFiniteSet(admitted')
  <2>1. CASE UNCHANGED admitted
    BY <1>2, <2>1
  <2>2. CASE ~(UNCHANGED admitted)
    <3>1. PICK a \in Admission : admitted' = admitted \cup {a}
      BY <2>2
    <3> QED BY <1>2, <3>1, FS_AddElement
  <2> QED BY <2>1, <2>2
<1>5. TypeOK'
  BY <1>1, <1>3, <1>4 DEF TypeInv, TypeOK, StoreOK
<1>6. \A s \in Requests : Stamped(request[s])'
  BY <1>1, <1>2, <1>3 DEF Stamped
<1>7. \A a \in admitted' : Past(a)'
  <2> SUFFICES ASSUME NEW a \in admitted' PROVE Past(a)'
    OBVIOUS
  <2>1. a.request \in Requests /\ a.cfg \in Nat
    BY <1>4 DEF Admission
  <2>2. CASE a \in admitted
    <3>1. Past(a)
      BY <1>2, <2>2
    <3>2. a.request = r => request[r].cfg \in Nat /\ x.cfg \in Nat
      BY <1>2 DEF RequestRecord
    <3> QED BY <1>1, <1>3, <2>1, <3>1, <3>2 DEF Past
  <2>3. CASE a \notin admitted
    <3>1. /\ a.request = r /\ a.cfg = request[r].cfg
          /\ x.pc = "allowed" \/ a.cfg < x.cfg
          /\ a.at <= a.time /\ a.time <= a.at + MAX_DELAY /\ a.time <= now
      BY <2>3
    <3>2. a.cfg \in Configs
      BY <1>2, <3>1 DEF Stamped
    <3> QED BY <1>1, <1>3, <3>1, <3>2 DEF Past
  <2> QED BY <2>2, <2>3
<1>8. \A c \in Configs' : IsFiniteSet(hits'[c])
  BY DEF StoreOK
<1> QED BY <1>4, <1>5, <1>6, <1>7, <1>8 DEF TypeInv

LEMMA PassedTyped ==
  ASSUME TypeInv, NEW r \in Requests
  PROVE  /\ Passed(r) \in RequestRecord /\ Stamped(Passed(r))
         /\ Passed(r).pc = "allowed" \/ request[r].cfg < Passed(r).cfg
<1>1. /\ request[r].cfg \in Configs /\ request[r].at \in Nat /\ request[r].at <= now
      /\ request[r] \in RequestRecord
  BY RequestTypes
<1>2. Len(chain) \in Nat /\ request[r].cfg \in Nat /\ request[r].cfg <= Len(chain) /\ 1 <= request[r].cfg
  BY <1>1, ConfigTypes DEF TypeInv, TypeOK, Configs
<1>3. CASE request[r].cfg = Len(chain)
  BY <1>1, <1>3 DEF Passed, RequestRecord, Stamped
<1>4. CASE request[r].cfg # Len(chain)
  <2>1. request[r].cfg + 1 \in Configs /\ request[r].cfg + 1 \in Nat
    BY <1>2, <1>4 DEF Configs
  <2> QED BY <1>1, <1>2, <1>4, <2>1 DEF Passed, RequestRecord, Stamped
<1> QED BY <1>3, <1>4

LEMMA StoreKept ==
  ASSUME TypeInv, UNCHANGED <<chain, store>>
  PROVE  StoreOK'
<1>1. StoreOK
  BY DEF StoreOK, TypeInv, TypeOK
<1> QED BY <1>1 DEF StoreOK, Configs, Of, store

LEMMA NextTyped == TypeInv /\ [Next]_vars => TypeInv'
<1> SUFFICES ASSUME TypeInv, [Next]_vars PROVE TypeInv'
  OBVIOUS
<1>1. CASE UNCHANGED vars
  BY <1>1 DEF TypeInv, TypeOK, Configs, Of, Stamped, Past, vars, store
<1>2. CASE Tick
  <2>1. /\ now \in Nat /\ now' = now + 1 /\ now < MaxNow /\ MaxNow \in Nat /\ MAX_DELAY \in Nat
        /\ UNCHANGED <<chain, store, request, admitted, faults>>
        /\ Configs' = Configs
        /\ \A r \in Requests : request[r].pc = "script" => now < request[r].at + MAX_DELAY
    BY <1>2, LimiterAssumption DEF Tick, TypeInv, TypeOK, Configs
  <2>2. TypeOK'
    BY <2>1 DEF TypeInv, TypeOK, Of, store, Configs
  <2>3. \A r \in Requests : Stamped(request[r])'
    <3> SUFFICES ASSUME NEW r \in Requests PROVE Stamped(request[r])'
      OBVIOUS
    <3>1. Stamped(request[r]) /\ request[r].at \in Nat
      BY RequestTypes
    <3> QED BY <2>1, <3>1 DEF Stamped
  <2>4. \A a \in admitted' : Past(a)'
    <3> SUFFICES ASSUME NEW a \in admitted PROVE Past(a)'
      BY <2>1
    <3>1. Past(a) /\ a.time \in Nat
      BY DEF TypeInv, TypeOK, Admission
    <3> QED BY <2>1, <3>1 DEF Past
  <2> QED BY <2>1, <2>2, <2>3, <2>4 DEF TypeInv, store
<1>3. ASSUME NEW r \in Requests, Stamp(r) PROVE TypeInv'
  <2> DEFINE x == [request[r] EXCEPT !.pc = "script", !.at = now]
  <2>1. /\ request' = [request EXCEPT ![r] = x]
        /\ UNCHANGED <<chain, now, store, admitted, faults>> /\ request[r].pc = "check"
    BY <1>3, RequestTypes DEF Stamp, TypeInv, TypeOK
  <2>2. /\ x \in RequestRecord /\ x.pc = "script" /\ x.at = now /\ x.cfg = request[r].cfg
        /\ x.cfg \in Configs /\ request[r].cfg <= x.cfg
    <3>1. request[r] \in RequestRecord /\ now \in Nat /\ request[r].cfg \in Configs
      BY RequestTypes
    <3>2. x \in RequestRecord /\ x.pc = "script" /\ x.at = now /\ x.cfg = request[r].cfg
      BY <3>1 DEF RequestRecord
    <3>3. request[r].cfg \in Nat
      BY <3>1 DEF RequestRecord
    <3> HIDE DEF x
    <3> QED BY <3>1, <3>2, <3>3
  <2>3. Stamped(x)
    BY <2>2, RequestTypes DEF Stamped
  <2>4. StoreOK' /\ faults' \in 0..MaxFaults
    BY <2>1, StoreKept DEF TypeInv, TypeOK
  <2>5. request[r].pc # "allowed" /\ UNCHANGED <<chain, now, admitted>>
    BY <2>1
  <2> HIDE DEF x
  <2> QED BY <2>1, <2>2, <2>3, <2>4, <2>5, RequestMoves
<1>4. ASSUME NEW r \in Requests, Script(r) PROVE TypeInv'
  <2> DEFINE c == request[r].cfg
             at == request[r].at
  <2>1. PICK draw \in DrawsOf(c) :
          /\ RunScript(c, at, draw)
          /\ \/ /\ request' = [request EXCEPT ![r] = Passed(r)]
                /\ admitted' = admitted \cup {[cfg |-> c, time |-> now, at |-> at,
                                               draw |-> draw, request |-> r]}
             \/ /\ request' = [request EXCEPT ![r].pc = "refused"]
                /\ UNCHANGED admitted
    BY <1>4 DEF Script
  <2>2. request[r].pc = "script" /\ UNCHANGED <<chain, now, faults>>
    BY <1>4 DEF Script
  <2>3. StoreOK' /\ faults' \in 0..MaxFaults
    BY <2>1, <2>2, ScriptTyped DEF TypeInv, TypeOK
  <2>4. CASE /\ request' = [request EXCEPT ![r] = Passed(r)]
             /\ admitted' = admitted \cup {[cfg |-> c, time |-> now, at |-> at,
                                            draw |-> draw, request |-> r]}
    <3> DEFINE a == [cfg |-> c, time |-> now, at |-> at, draw |-> draw, request |-> r]
    <3>1. draw \in Draws /\ c \in Nat /\ at \in Nat /\ now \in Nat /\ at <= now /\ now <= at + MAX_DELAY
      BY <2>2, RequestTypes, ConfigTypes, LimiterAssumption DEF DrawsOf, TypeInv, TypeOK
    <3>2. /\ a \in Admission /\ a.request = r /\ a.cfg = c /\ a.at <= a.time
          /\ a.time <= a.at + MAX_DELAY /\ a.time <= now
      BY <3>1 DEF Admission
    <3>3. /\ Passed(r) \in RequestRecord /\ Stamped(Passed(r))
          /\ Passed(r).pc = "allowed" \/ c < Passed(r).cfg
          /\ Passed(r).cfg \in Nat
      BY PassedTyped DEF RequestRecord
    <3>4. admitted' = admitted \cup {a} /\ request' = [request EXCEPT ![r] = Passed(r)]
      BY <2>4
    <3>5. Passed(r).pc = "allowed" \/ a.cfg < Passed(r).cfg
      BY <3>2, <3>3
    <3>6. Passed(r).pc = "allowed" \/ request[r].cfg <= Passed(r).cfg
      BY <3>1, <3>3
    <3>7. \E b \in Admission : /\ admitted' = admitted \cup {b}
                               /\ b.request = r /\ b.cfg = request[r].cfg
                               /\ Passed(r).pc = "allowed" \/ b.cfg < Passed(r).cfg
                               /\ b.at <= b.time /\ b.time <= b.at + MAX_DELAY /\ b.time <= now
      <4> HIDE DEF a
      <4> QED BY <3>2, <3>4, <3>5
    <3>8. request[r].pc # "allowed" /\ UNCHANGED <<chain, now>>
      BY <2>2
    <3> QED BY ONLY TypeInv, <2>3, <3>3, <3>4, <3>6, <3>7, <3>8, RequestMoves
  <2>5. CASE /\ request' = [request EXCEPT ![r].pc = "refused"]
             /\ UNCHANGED admitted
    <3> DEFINE x == [request[r] EXCEPT !.pc = "refused"]
    <3>1. x \in RequestRecord /\ Stamped(x) /\ x.cfg = request[r].cfg /\ x.cfg \in Nat
      BY RequestTypes DEF RequestRecord, Stamped
    <3>2. request' = [request EXCEPT ![r] = x]
      BY <2>5
    <3>3. request[r].cfg <= x.cfg /\ request[r].pc # "allowed"
      BY <2>2, <3>1
    <3> HIDE DEF x
    <3> QED BY <2>2, <2>3, <2>5, <3>1, <3>2, <3>3, RequestMoves
  <2> QED BY <2>1, <2>4, <2>5
<1>5. ASSUME NEW r \in Requests, CheckFails(r) PROVE TypeInv'
  <2>1. /\ request[r].pc = "script" /\ UNCHANGED <<chain, now, admitted>>
        /\ request' = [request EXCEPT ![r] = Passed(r)]
        /\ faults' \in 0..MaxFaults
    BY <1>5, LimiterAssumption DEF CheckFails, TypeInv, TypeOK
  <2>2. StoreOK'
    BY <1>5, <2>1, ScriptTyped, StoreKept DEF CheckFails
  <2>3. /\ Passed(r) \in RequestRecord /\ Stamped(Passed(r))
        /\ Passed(r).pc = "allowed" \/ request[r].cfg <= Passed(r).cfg
    BY PassedTyped, RequestTypes DEF RequestRecord
  <2> QED BY <2>1, <2>2, <2>3, RequestMoves
<1>6. ASSUME NEW r \in Requests, FailOpen(r) PROVE TypeInv'
  <2> DEFINE x == [request[r] EXCEPT !.pc = "allowed"]
  <2>1. /\ UNCHANGED <<chain, now, store, admitted>> /\ faults' \in 0..MaxFaults
        /\ request' = [request EXCEPT ![r] = x]
    BY <1>6, LimiterAssumption DEF FailOpen, TypeInv, TypeOK
  <2>2. x \in RequestRecord /\ Stamped(x) /\ x.pc = "allowed"
    BY RequestTypes DEF RequestRecord, Stamped
  <2>3. StoreOK'
    BY <2>1, StoreKept
  <2> HIDE DEF x
  <2> QED BY <2>1, <2>2, <2>3, RequestMoves
<1> QED BY <1>1, <1>2, <1>3, <1>4, <1>5, <1>6 DEF Next

LEMMA TypeAlways == Spec => []TypeInv
  BY TypeInit, NextTyped, PTL DEF Spec

-----------------------------------------------------------------------------
(* What the properties see of a step: time passes, or a script runs and its   *)
(* request is admitted or not, or nothing happens to the store.               *)

Quiet == UNCHANGED <<chain, now, hits, counts, bucket, expires, admitted>>

Ticks == UNCHANGED <<chain, hits, counts, bucket, expires, admitted>> /\ now' = now + 1

Ran(r, draw) ==
  LET c == request[r].cfg
      at == request[r].at
  IN
  /\ request[r].pc = "script" /\ draw \in DrawsOf(c) /\ UNCHANGED <<chain, now>>
  /\ RunScript(c, at, draw)
  /\ \/ UNCHANGED admitted
     \/ /\ Answer(c, at) >= 0
        /\ admitted' = admitted \cup {[cfg |-> c, time |-> now, at |-> at,
                                       draw |-> draw, request |-> r]}

LEMMA StepKinds ==
  ASSUME [Next]_vars
  PROVE  Quiet \/ Ticks \/ \E r \in Requests : \E draw \in DrawsOf(request[r].cfg) : Ran(r, draw)
<1>1. CASE UNCHANGED vars
  BY <1>1 DEF vars, store, Quiet
<1>2. CASE Tick
  BY <1>2 DEF Tick, store, Ticks
<1>3. ASSUME NEW r \in Requests, Stamp(r) PROVE Quiet
  BY <1>3 DEF Stamp, store, Quiet
<1>4. ASSUME NEW r \in Requests, Script(r)
      PROVE  \E draw \in DrawsOf(request[r].cfg) : Ran(r, draw)
  BY <1>4 DEF Script, Ran
<1>5. ASSUME NEW r \in Requests, CheckFails(r)
      PROVE  Quiet \/ \E draw \in DrawsOf(request[r].cfg) : Ran(r, draw)
  BY <1>5 DEF CheckFails, Ran, Quiet, store
<1>6. ASSUME NEW r \in Requests, FailOpen(r) PROVE Quiet
  BY <1>6 DEF FailOpen, store, Quiet
<1> QED BY <1>1, <1>2, <1>3, <1>4, <1>5, <1>6 DEF Next

LEMMA AdmissionTypes ==
  ASSUME TypeInv, NEW a \in admitted
  PROVE  /\ a.cfg \in Configs /\ a.at \in Nat /\ a.time \in Nat /\ a.draw \in Draws
         /\ a.at <= a.time /\ a.time <= a.at + MAX_DELAY /\ a.time <= now
  BY DEF TypeInv, TypeOK, Admission, Past

LEMMA ScriptTypes ==
  ASSUME TypeInv, NEW r \in Requests, NEW draw \in DrawsOf(request[r].cfg), request[r].pc = "script"
  PROVE  /\ request[r].cfg \in Configs /\ request[r].at \in Nat /\ draw \in Draws
         /\ request[r].at <= now /\ now <= request[r].at + MAX_DELAY
         /\ now \in Nat /\ MAX_DELAY \in Nat /\ GRACE \in Nat /\ MAX_DELAY <= GRACE
  BY RequestTypes, LimiterAssumption DEF DrawsOf

(* A script writes the keys of its own configuration only. *)
LEMMA OtherKeys ==
  ASSUME TypeInv, NEW c \in Configs, NEW at, NEW draw, RunScript(c, at, draw),
         NEW d \in Configs, d # c
  PROVE  hits'[d] = hits[d] /\ counts'[d] = counts[d] /\ bucket'[d] = bucket[d] /\ expires'[d] = expires[d]
<1>1. CASE SlidingScript(c, at, draw)
  BY <1>1 DEF SlidingScript, TypeInv, TypeOK
<1>2. CASE FixedScript(c, at)
  BY <1>2 DEF FixedScript, TypeInv, TypeOK
<1>3. CASE BucketScript(c, at)
  BY <1>3 DEF BucketScript, TypeInv, TypeOK
<1> QED BY <1>1, <1>2, <1>3 DEF RunScript

-----------------------------------------------------------------------------
(* The answer of a sliding window.                                            *)

(* A set of numbers has a least element: the intervals up to its elements are *)
(* finite sets, whose strict inclusion is well founded.                       *)
LEMMA LeastElement ==
  ASSUME NEW S \in SUBSET Nat, S # {}
  PROVE  \E m \in S : \A n \in S : m <= n
<1> DEFINE T == {0..n : n \in S}
<1>1. \A n \in Nat : 0..n \in FiniteSubsetsOf(Nat)
  BY FS_Interval DEF FiniteSubsetsOf
<1>2. T \subseteq FiniteSubsetsOf(Nat) /\ T # {}
  BY <1>1
<1>3. PICK x \in T : \A y \in T : <<y, x>> \notin StrictSubsetOrdering(Nat)
  <2> HIDE DEF T
  <2> QED BY <1>2, FS_StrictSubsetOrderingWellFounded, WFMin
<1>4. PICK m \in S : x = 0..m
  BY <1>3
<1>5. ASSUME NEW n \in S PROVE m <= n
  <2>1. <<0..n, 0..m>> \notin StrictSubsetOrdering(Nat)
    BY <1>3, <1>4
  <2>2. m \in Nat /\ n \in Nat
    OBVIOUS
  <2>3. CASE n < m
    <3>1. 0..n \subseteq 0..m /\ m \in 0..m /\ m \notin 0..n
      BY <2>2, <2>3
    <3>2. 0..n \subseteq Nat /\ 0..m \subseteq Nat
      BY <2>2
    <3> QED BY <2>1, <3>1, <3>2 DEF StrictSubsetOrdering
  <2> QED BY <2>2, <2>3
<1> QED BY <1>5

LEMMA SlidingAnswers ==
  ASSUME TypeInv, NEW c \in Of("SLIDING_WINDOW"), NEW at \in Nat
  PROVE  /\ IsFiniteSet(Kept(c, at)) /\ Cardinality(Kept(c, at)) \in Nat
         /\ SlidingAnswer(c, at) \in Int
         /\ SlidingAnswer(c, at) >= 0 <=> Cardinality(Kept(c, at)) < chain[c].limit
         /\ Cardinality(Kept(c, at)) >= chain[c].limit =>
              /\ Oldest(Kept(c, at)) \in {h[1] : h \in Kept(c, at)}
              /\ \A h \in Kept(c, at) : Oldest(Kept(c, at)) <= h[1]
<1> DEFINE K == Kept(c, at)
<1>1. /\ c \in Configs /\ chain[c].window \in Nat /\ chain[c].limit \in Nat /\ chain[c].limit > 0
      /\ hits[c] \in SUBSET (Nat \X Draws) /\ IsFiniteSet(hits[c])
  BY ConfigTypes DEF Of, TypeInv, TypeOK
<1>2. K \subseteq hits[c] /\ IsFiniteSet(K) /\ Cardinality(K) \in Nat
  BY <1>1, FS_Subset, FS_CardinalityType DEF Kept
<1>3. \A h \in K : h[1] \in Nat /\ h[1] > at - chain[c].window
  BY <1>1, <1>2 DEF Kept
<1> HIDE DEF K
<1>4. CASE Cardinality(K) < chain[c].limit
  <2>1. SlidingAnswer(c, at) = at
    BY <1>4 DEF SlidingAnswer, K
  <2> QED BY <1>1, <1>2, <1>4, <2>1 DEF K
<1>5. CASE Cardinality(K) >= chain[c].limit
  <2>1. K # {}
    BY <1>1, <1>5, FS_EmptySet
  <2>2. \E m \in {h[1] : h \in K} : \A n \in {h[1] : h \in K} : m <= n
    BY <1>3, <2>1, LeastElement
  <2>3. Oldest(K) \in {h[1] : h \in K} /\ \A h \in K : Oldest(K) <= h[1]
    <3>1. \E m \in {h[1] : h \in K} : \A h \in K : m <= h[1]
      BY <2>2
    <3> QED BY <3>1 DEF Oldest
  <2>4. Oldest(K) \in Nat /\ Oldest(K) > at - chain[c].window
    BY <1>3, <2>3
  <2>5. SlidingAnswer(c, at) = -(Oldest(K) + chain[c].window - at)
    BY <1>1, <1>2, <1>5 DEF SlidingAnswer, K
  <2>6. SlidingAnswer(c, at) \in Int /\ SlidingAnswer(c, at) < 0
    BY <1>1, <2>4, <2>5
  <2> QED BY <1>1, <1>2, <1>5, <2>3, <2>6 DEF K
<1> QED BY <1>1, <1>2, <1>4, <1>5

-----------------------------------------------------------------------------
(* SlidingBound.  An admission younger than a window is in the sorted set, and *)
(* the key has not expired: no script is given a newer time than the clock's.  *)

SlidingInv ==
  \A c \in Of("SLIDING_WINDOW") : \A a \in admitted :
    a.cfg = c /\ a.at > now - chain[c].window =>
      <<a.at, a.draw>> \in hits[c] /\ expires[c][0] >= a.time + chain[c].window + GRACE

Marks(c, from, to) == {<<a.at, a.draw>> : a \in AdmittedBy(c, from, to)}

SlidingLimit ==
  \A c \in Of("SLIDING_WINDOW") : \A from, to \in Nat :
    to - from < chain[c].window - MAX_DELAY => Cardinality(Marks(c, from, to)) <= chain[c].limit

LEMMA SlidingRun ==
  ASSUME TypeInv, SlidingInv, NEW r \in Requests, NEW draw \in DrawsOf(request[r].cfg), Ran(r, draw)
  PROVE  SlidingInv'
<1> DEFINE k == request[r].cfg
           at == request[r].at
           new == [cfg |-> k, time |-> now, at |-> at, draw |-> draw, request |-> r]
<1>1. /\ k \in Configs /\ at \in Nat /\ draw \in Draws /\ at <= now /\ now \in Nat /\ GRACE \in Nat
      /\ UNCHANGED <<chain, now>> /\ RunScript(k, at, draw)
      /\ admitted' = admitted \/ (Answer(k, at) >= 0 /\ admitted' = admitted \cup {new})
  BY ScriptTypes DEF Ran
<1>2. new.cfg = k /\ new.time = now /\ new.at = at /\ new.draw = draw
  OBVIOUS
<1> HIDE DEF k, at, new
<1> SUFFICES ASSUME NEW c \in Of("SLIDING_WINDOW"), NEW a \in admitted', a.cfg = c,
                    a.at > now - chain[c].window
             PROVE  <<a.at, a.draw>> \in hits'[c] /\ expires'[c][0] >= a.time + chain[c].window + GRACE
  BY <1>1 DEF SlidingInv, Of, Configs
<1>3. /\ c \in Configs /\ chain[c].window \in Nat /\ chain[c].window > 0
      /\ chain[c].strategy = "SLIDING_WINDOW"
  BY ConfigTypes DEF Of, TypeInv, TypeOK
<1>4. a \in admitted =>
        /\ a.at \in Nat /\ a.time \in Nat /\ a.at <= a.time /\ a.time <= now
        /\ <<a.at, a.draw>> \in hits[c] /\ expires[c][0] >= a.time + chain[c].window + GRACE
  BY AdmissionTypes DEF SlidingInv
<1>5. CASE k # c
  <2>1. hits'[c] = hits[c] /\ expires'[c] = expires[c]
    BY <1>1, <1>3, <1>5, OtherKeys
  <2>2. a \in admitted
    BY <1>1, <1>2, <1>5
  <2> QED BY <1>4, <2>1, <2>2
<1>6. CASE k = c
  <2>1. SlidingScript(c, at, draw)
    BY <1>1, <1>3, <1>6 DEF RunScript, Of
  <2>2. /\ hits \in [Configs -> SUBSET (Nat \X Draws)] /\ expires \in [Configs -> [Indices -> Nat]]
        /\ Answer(c, at) = SlidingAnswer(c, at) /\ 0 \in Indices /\ Expiry(c) \in Nat
        /\ Expiry(c) = now + chain[c].window + GRACE
    BY <1>1, <1>3, ZeroIndex DEF TypeInv, TypeOK, Answer, Expiry
  <2>3. \/ hits'[c] = Kept(c, at) \cup {<<at, draw>>} /\ expires'[c][0] = Expiry(c)
        \/ SlidingAnswer(c, at) < 0 /\ hits'[c] = Kept(c, at) /\ expires'[c][0] = expires[c][0]
    BY <1>3, <2>1, <2>2, CellWritten DEF SlidingScript
  <2>4. CASE a \in admitted
    <3>1. <<a.at, a.draw>> \in Kept(c, at)
      BY <1>1, <1>3, <1>4, <2>2, <2>4 DEF Kept, Live
    <3>2. Expiry(c) >= a.time + chain[c].window + GRACE
      BY <1>1, <1>3, <1>4, <2>2, <2>4
    <3> QED BY <1>4, <2>3, <2>4, <3>1, <3>2
  <2>5. CASE a \notin admitted
    <3>1. a = new /\ Answer(k, at) >= 0
      BY <1>1, <2>5
    <3>2. SlidingAnswer(c, at) >= 0 /\ SlidingAnswer(c, at) \in Int
      BY <1>1, <1>6, <2>2, <3>1, SlidingAnswers
    <3> QED BY <1>2, <1>6, <2>2, <2>3, <3>1, <3>2
  <2> QED BY <2>4, <2>5
<1> QED BY <1>5, <1>6

LEMMA SlidingMarks ==
  ASSUME TypeInv, SlidingInv, NEW c \in Of("SLIDING_WINDOW"), NEW at \in Nat,
         at <= now, now <= at + MAX_DELAY,
         NEW from \in Nat, now - from < chain[c].window - MAX_DELAY
  PROVE  Marks(c, from, now) \subseteq Kept(c, at)
<1>1. /\ c \in Configs /\ chain[c].window \in Nat /\ now \in Nat /\ MAX_DELAY \in Nat /\ GRACE \in Nat
      /\ expires[c][0] \in Nat
  BY ConfigTypes, ZeroIndex, LimiterAssumption DEF Of, TypeInv, TypeOK
<1> SUFFICES ASSUME NEW a \in AdmittedBy(c, from, now) PROVE <<a.at, a.draw>> \in Kept(c, at)
  BY DEF Marks
<1>2. /\ a \in admitted /\ a.cfg = c /\ a.time >= from
      /\ a.at \in Nat /\ a.time \in Nat /\ a.at <= a.time /\ a.time <= a.at + MAX_DELAY
  BY AdmissionTypes, <1>1 DEF AdmittedBy
<1>3. a.at > now - chain[c].window
  BY <1>1, <1>2
<1>4. <<a.at, a.draw>> \in hits[c] /\ expires[c][0] >= a.time + chain[c].window + GRACE
  BY <1>2, <1>3 DEF SlidingInv
<1> QED BY <1>1, <1>2, <1>3, <1>4 DEF Kept, Live

LEMMA SlidingKeeps ==
  TypeInv /\ SlidingInv /\ SlidingLimit /\ [Next]_vars => SlidingInv' /\ SlidingLimit'
<1> SUFFICES ASSUME TypeInv, SlidingInv, SlidingLimit, [Next]_vars
             PROVE  SlidingInv' /\ SlidingLimit'
  OBVIOUS
<1>1. ASSUME UNCHANGED <<chain, admitted>> PROVE SlidingLimit'
  <2>1. /\ \A c, from, to : Marks(c, from, to)' = Marks(c, from, to)
        /\ Of("SLIDING_WINDOW")' = Of("SLIDING_WINDOW")
    BY <1>1 DEF Marks, AdmittedBy, Of, Configs
  <2> QED BY <1>1, <2>1 DEF SlidingLimit
<1>2. CASE Quiet
  <2>1. SlidingInv'
    BY <1>2 DEF Quiet, SlidingInv, Of, Configs
  <2> QED BY <1>1, <1>2, <2>1 DEF Quiet
<1>3. CASE Ticks
  <2>1. now \in Nat /\ now' = now + 1 /\ UNCHANGED <<chain, hits, expires, admitted>>
    BY <1>3 DEF Ticks, TypeInv, TypeOK
  <2>2. SlidingInv'
    <3> SUFFICES ASSUME NEW c \in Of("SLIDING_WINDOW"), NEW a \in admitted, a.cfg = c,
                        a.at > now' - chain[c].window
                 PROVE  <<a.at, a.draw>> \in hits[c] /\ expires[c][0] >= a.time + chain[c].window + GRACE
      BY <2>1 DEF SlidingInv, Of, Configs
    <3>1. a.at \in Nat /\ chain[c].window \in Nat
      BY AdmissionTypes, ConfigTypes DEF Of, TypeInv, TypeOK
    <3>2. a.at > now - chain[c].window
      BY <2>1, <3>1
    <3> QED BY <3>2 DEF SlidingInv
  <2> QED BY <1>1, <2>1, <2>2
<1>4. ASSUME NEW r \in Requests, NEW draw \in DrawsOf(request[r].cfg), Ran(r, draw)
      PROVE  SlidingInv' /\ SlidingLimit'
  <2> DEFINE k == request[r].cfg
             at == request[r].at
             new == [cfg |-> k, time |-> now, at |-> at, draw |-> draw, request |-> r]
  <2>1. /\ k \in Configs /\ at \in Nat /\ at <= now /\ now \in Nat /\ MAX_DELAY \in Nat
        /\ now <= at + MAX_DELAY /\ UNCHANGED <<chain, now>>
        /\ admitted' = admitted \/ (Answer(k, at) >= 0 /\ admitted' = admitted \cup {new})
    BY <1>4, ScriptTypes DEF Ran
  <2>2. new.cfg = k /\ new.time = now /\ new.at = at /\ new.draw = draw
    OBVIOUS
  <2> HIDE DEF k, at, new
  <2>3. CASE admitted' = admitted
    BY <1>1, <1>4, <2>1, <2>3, SlidingRun
  <2>4. CASE Answer(k, at) >= 0 /\ admitted' = admitted \cup {new}
    <3> SUFFICES ASSUME NEW c \in Of("SLIDING_WINDOW"), NEW from \in Nat, NEW to \in Nat,
                        to - from < chain[c].window - MAX_DELAY
                 PROVE  Cardinality(Marks(c, from, to)') <= chain[c].limit
      <4>1. Of("SLIDING_WINDOW")' = Of("SLIDING_WINDOW")
        BY <2>1 DEF Of, Configs
      <4> QED BY <1>4, <2>1, <4>1, SlidingRun DEF SlidingLimit
    <3>1. /\ c \in Configs /\ chain[c].window \in Nat /\ chain[c].limit \in Nat
          /\ chain[c].limit > 0 /\ chain[c].strategy = "SLIDING_WINDOW"
      BY ConfigTypes DEF Of, TypeInv, TypeOK
    <3>2. CASE k # c \/ now \notin from..to
      <4>1. AdmittedBy(c, from, to)' = AdmittedBy(c, from, to)
        BY <2>2, <2>4, <3>2 DEF AdmittedBy
      <4>2. Marks(c, from, to)' = Marks(c, from, to)
        BY <4>1 DEF Marks
      <4> QED BY <4>2 DEF SlidingLimit
    <3>3. CASE k = c /\ now \in from..to
      <4>1. now - from < chain[c].window - MAX_DELAY
        BY <2>1, <3>1, <3>3
      <4>2. AdmittedBy(c, from, to)' \subseteq AdmittedBy(c, from, now) \cup {new}
        <5>1. \A a \in admitted : a.time \in Nat /\ a.time <= now
          BY AdmissionTypes
        <5> QED BY <2>1, <2>4, <5>1 DEF AdmittedBy
      <4>3. Marks(c, from, to)' \subseteq Marks(c, from, now) \cup {<<at, draw>>}
        BY <2>2, <4>2 DEF Marks
      <4>4. Marks(c, from, now) \subseteq Kept(c, at)
        BY <2>1, <4>1, SlidingMarks
      <4>5. /\ IsFiniteSet(Kept(c, at)) /\ Cardinality(Kept(c, at)) < chain[c].limit
            /\ Cardinality(Kept(c, at)) \in Nat
        BY <2>1, <2>4, <3>1, <3>3, SlidingAnswers DEF Answer
      <4> DEFINE K == Kept(c, at) \cup {<<at, draw>>}
                 M == Marks(c, from, to)'
      <4>6. M \subseteq K
        BY <4>3, <4>4
      <4>7. /\ IsFiniteSet(K) /\ Cardinality(K) \in Nat
            /\ Cardinality(K) = Cardinality(Kept(c, at)) \/ Cardinality(K) = Cardinality(Kept(c, at)) + 1
        BY <4>5, FS_AddElement, FS_CardinalityType
      <4> HIDE DEF K, M
      <4>8. Cardinality(M) <= Cardinality(K) /\ Cardinality(M) \in Nat
        BY <4>6, <4>7, FS_Subset, FS_CardinalityType
      <4>9. Cardinality(M) <= chain[c].limit
        BY <3>1, <4>5, <4>7, <4>8
      <4> QED BY <4>9 DEF M
    <3> QED BY <3>2, <3>3
  <2> QED BY <2>1, <2>3, <2>4
<1> QED BY <1>2, <1>3, <1>4, StepKinds

LEMMA SlidingInit == Init => SlidingInv /\ SlidingLimit
<1> SUFFICES ASSUME Init PROVE SlidingInv /\ SlidingLimit
  OBVIOUS
<1>1. admitted = {}
  BY DEF Init
<1>2. \A c, from, to : Marks(c, from, to) = {}
  BY <1>1 DEF Marks, AdmittedBy
<1>3. \A c \in Of("SLIDING_WINDOW") : chain[c].limit \in Nat /\ chain[c].limit > 0
  BY ConfigTypes DEF Of, Init
<1> QED BY <1>1, <1>2, <1>3, FS_EmptySet DEF SlidingInv, SlidingLimit

LEMMA SlidingFollows == TypeInv /\ SlidingLimit => SlidingBound
<1> SUFFICES ASSUME TypeInv, SlidingLimit PROVE SlidingBound
  OBVIOUS
<1>1. Times \subseteq Nat
  BY AdmissionTypes DEF Times
<1> QED BY <1>1 DEF SlidingBound, SlidingLimit, Marks

-----------------------------------------------------------------------------
(* FixedBound.  The counter of a window is not behind its admissions: it is    *)
(* stamped first when the window has begun, so it is still there for the last  *)
(* script that is given a time in the window.                                  *)

Stampings(c, i) == {a \in admitted : a.cfg = c /\ Index(c, a.at) = i}

Counter(c, i) ==
  /\ counts[c][i] <= chain[c].limit
  /\ counts[c][i] > 0 => expires[c][i] >= i * chain[c].window + chain[c].window + GRACE
  /\ Cardinality(Stampings(c, i)) <= counts[c][i]

FixedInv == \A c \in Of("FIXED_WINDOW") : \A i \in Indices : Counter(c, i)

LEMMA FixedAnswers ==
  ASSUME TypeInv, NEW c \in Of("FIXED_WINDOW"), NEW at \in Nat, at <= now
  PROVE  /\ Count(c, Index(c, at)) \in Nat /\ FixedAnswer(c, at) \in Int
         /\ FixedAnswer(c, at) >= 0 <=> Count(c, Index(c, at)) < chain[c].limit
<1> DEFINE i == Index(c, at)
<1>1. /\ c \in Configs /\ chain[c].window \in Nat /\ chain[c].window > 0 /\ chain[c].limit \in Nat
  BY ConfigTypes DEF Of, TypeInv, TypeOK
<1>2. /\ i \in Indices /\ i \in Nat /\ i * chain[c].window \in Nat
      /\ i * chain[c].window <= at /\ at < i * chain[c].window + chain[c].window
  BY <1>1, IndexType
<1>3. Count(c, i) \in Nat
  BY <1>1, <1>2 DEF Count, TypeInv, TypeOK
<1>4. (i + 1) * chain[c].window = i * chain[c].window + chain[c].window
  BY <1>1, <1>2
<1> HIDE DEF i
<1>5. PICK end : /\ end = (i + 1) * chain[c].window
                 /\ FixedAnswer(c, at) = IF Count(c, i) < chain[c].limit THEN end ELSE -(end - at)
  BY DEF FixedAnswer, i
<1>6. Count(c, i) \in Nat /\ FixedAnswer(c, at) \in Int
      /\ (FixedAnswer(c, at) >= 0 <=> Count(c, i) < chain[c].limit)
  <2> DEFINE m == i * chain[c].window
  <2>1. m \in Nat /\ m <= at /\ at < m + chain[c].window /\ end = m + chain[c].window
    BY <1>2, <1>4, <1>5
  <2> HIDE DEF m
  <2> QED BY <1>1, <1>3, <1>5, <2>1
<1> QED BY <1>6 DEF i

LEMMA StampingsFinite ==
  ASSUME TypeInv, NEW c, NEW i
  PROVE  IsFiniteSet(Stampings(c, i)) /\ Cardinality(Stampings(c, i)) \in Nat
<1>1. Stampings(c, i) \subseteq admitted /\ IsFiniteSet(admitted)
  BY DEF Stampings, TypeInv
<1> QED BY <1>1, FS_Subset, FS_CardinalityType

LEMMA FixedKeeps == TypeInv /\ FixedInv /\ [Next]_vars => FixedInv'
<1> SUFFICES ASSUME TypeInv, FixedInv, [Next]_vars PROVE FixedInv'
  OBVIOUS
<1>1. ASSUME UNCHANGED <<chain, counts, expires, admitted>> PROVE FixedInv'
  <2>1. /\ \A c, i : Stampings(c, i)' = Stampings(c, i)
        /\ Of("FIXED_WINDOW")' = Of("FIXED_WINDOW")
    BY <1>1 DEF Stampings, Index, Of, Configs
  <2> QED BY <1>1, <2>1 DEF FixedInv, Counter
<1>2. CASE Quiet \/ Ticks
  BY <1>1, <1>2 DEF Quiet, Ticks
<1>3. ASSUME NEW r \in Requests, NEW draw \in DrawsOf(request[r].cfg), Ran(r, draw)
      PROVE  FixedInv'
  <2> DEFINE k == request[r].cfg
             at == request[r].at
             new == [cfg |-> k, time |-> now, at |-> at, draw |-> draw, request |-> r]
  <2>1. /\ k \in Configs /\ at \in Nat /\ at <= now /\ now \in Nat
        /\ MAX_DELAY \in Nat /\ GRACE \in Nat /\ MAX_DELAY <= GRACE
        /\ now <= at + MAX_DELAY /\ UNCHANGED <<chain, now>> /\ RunScript(k, at, draw)
        /\ admitted' = admitted \/ (Answer(k, at) >= 0 /\ admitted' = admitted \cup {new})
    BY <1>3, ScriptTypes DEF Ran
  <2>2. new.cfg = k /\ new.at = at
    OBVIOUS
  <2> HIDE DEF k, at, new
  <2> SUFFICES ASSUME NEW c \in Of("FIXED_WINDOW"), NEW i \in Indices PROVE Counter(c, i)'
    BY <2>1 DEF FixedInv, Of, Configs
  <2>3. /\ c \in Configs /\ chain[c].window \in Nat /\ chain[c].limit \in Nat /\ chain[c].limit > 0
        /\ chain[c].strategy = "FIXED_WINDOW" /\ i \in Nat
        /\ counts[c][i] \in Nat /\ expires[c][i] \in Nat
    <3>1. c \in Configs /\ chain[c].strategy = "FIXED_WINDOW" /\ chain \in Chains
      BY DEF Of, TypeInv, TypeOK
    <3>2. i \in Nat
      BY LimiterAssumption DEF Indices
    <3>3. counts[c][i] \in Nat /\ expires[c][i] \in Nat
      BY <3>1 DEF TypeInv, TypeOK
    <3> QED BY <3>1, <3>2, <3>3, ConfigTypes
  <2>4. Counter(c, i)
    BY DEF FixedInv
  <2>5. CASE k # c
    <3>1. counts'[c] = counts[c] /\ expires'[c] = expires[c]
      BY <2>1, <2>3, <2>5, OtherKeys
    <3>2. Stampings(c, i)' = Stampings(c, i)
      BY <2>1, <2>2, <2>5 DEF Stampings, Index
    <3> QED BY <2>1, <2>4, <3>1, <3>2 DEF Counter
  <2>6. CASE k = c
    <3> DEFINE j == Index(c, at)
    <3>1. FixedScript(c, at) /\ Answer(k, at) = FixedAnswer(c, at)
      BY <2>1, <2>3, <2>6 DEF RunScript, Of, Answer
    <3>2. /\ j \in Indices /\ j * chain[c].window \in Nat
          /\ j * chain[c].window <= at /\ at < j * chain[c].window + chain[c].window
      BY <2>1, <2>3, IndexType
    <3>3. /\ Count(c, j) \in Nat /\ FixedAnswer(c, at) \in Int
          /\ FixedAnswer(c, at) >= 0 <=> Count(c, j) < chain[c].limit
      BY <2>1, FixedAnswers
    <3>4. counts \in [Configs -> [Indices -> Nat]] /\ expires \in [Configs -> [Indices -> Nat]]
      BY DEF TypeInv, TypeOK
    <3>5. CASE FixedAnswer(c, at) < 0
      <4>1. UNCHANGED <<counts, expires>> /\ admitted' = admitted
        BY <2>1, <3>1, <3>3, <3>5 DEF FixedScript
      <4>2. Stampings(c, i)' = Stampings(c, i)
        BY <2>1, <4>1 DEF Stampings, Index
      <4> QED BY <2>1, <2>4, <4>1, <4>2 DEF Counter
    <3>6. CASE FixedAnswer(c, at) >= 0
      <4>1. /\ counts' = [counts EXCEPT ![c][j] = Count(c, j) + 1]
            /\ expires' = IF Count(c, j) = 0 THEN [expires EXCEPT ![c][j] = Expiry(c)] ELSE expires
        BY <3>1, <3>6 DEF FixedScript
      <4> HIDE DEF j
      <4>2. Expiry(c) = now + chain[c].window + GRACE /\ Expiry(c) \in Nat /\ Count(c, j) + 1 \in Nat
        BY <2>1, <2>3, <3>3 DEF Expiry
      <4>3. /\ counts'[c][i] = IF i = j THEN Count(c, j) + 1 ELSE counts[c][i]
            /\ expires'[c][i] = IF i = j /\ Count(c, j) = 0 THEN Expiry(c) ELSE expires[c][i]
        <5>1. j \in Indices /\ c \in Configs
          BY <2>3, <3>2 DEF j
        <5>2. [counts EXCEPT ![c][j] = Count(c, j) + 1][c][i]
                = IF c = c /\ i = j THEN Count(c, j) + 1 ELSE counts[c][i]
          BY <3>4, <4>2, <5>1, CellWritten
        <5>3. [expires EXCEPT ![c][j] = Expiry(c)][c][i]
                = IF c = c /\ i = j THEN Expiry(c) ELSE expires[c][i]
          BY <3>4, <4>2, <5>1, CellWritten
        <5> QED BY <4>1, <5>2, <5>3
      <4>4. CASE i # j
        <5>1. Stampings(c, i)' = Stampings(c, i)
          BY <2>1, <2>2, <2>6, <4>4 DEF Stampings, Index, j
        <5> QED BY <2>1, <2>4, <4>3, <4>4, <5>1 DEF Counter
      <4>5. CASE i = j
        <5> DEFINE m == j * chain[c].window
                   S == Stampings(c, i)
                   T == Stampings(c, i)'
        <5>1. m \in Nat /\ m <= at /\ at < m + chain[c].window
          BY <3>2
        <5>2. /\ counts[c][i] <= chain[c].limit
              /\ counts[c][i] > 0 => expires[c][i] >= m + chain[c].window + GRACE
              /\ Cardinality(S) <= counts[c][i]
          BY <2>4, <4>5 DEF Counter
        <5>3. IsFiniteSet(S) /\ Cardinality(S) \in Nat /\ T \subseteq S \cup {new}
          BY <2>1, StampingsFinite DEF Stampings, Index
        <5>4. Cardinality(T) \in Nat /\ Cardinality(T) <= Cardinality(S) + 1
          <6> HIDE DEF S, T
          <6>1. /\ IsFiniteSet(S \cup {new}) /\ Cardinality(S \cup {new}) \in Nat
                /\ Cardinality(S \cup {new}) <= Cardinality(S) + 1
            <7>1. /\ IsFiniteSet(S \cup {new})
                  /\ \/ Cardinality(S \cup {new}) = Cardinality(S)
                     \/ Cardinality(S \cup {new}) = Cardinality(S) + 1
              BY <5>3, FS_AddElement
            <7> QED BY <5>3, <7>1
          <6>2. /\ Cardinality(T) \in Nat /\ Cardinality(T) <= Cardinality(S \cup {new})
            BY <5>3, <6>1, FS_Subset, FS_CardinalityType
          <6> QED BY <5>3, <6>1, <6>2
        <5> HIDE DEF m, S, T
        <5>5. counts[c][i] > 0 => Live(c, i)
          BY <2>1, <2>3, <5>1, <5>2 DEF Live
        <5>6. Count(c, j) = counts[c][i]
          BY <2>3, <4>5, <5>5 DEF Count
        <5>7. /\ counts'[c][i] <= chain[c].limit
              /\ expires'[c][i] >= m + chain[c].window + GRACE
              /\ Cardinality(T) <= counts'[c][i]
          BY <2>1, <2>3, <3>3, <3>6, <4>2, <4>3, <4>5, <5>1, <5>2, <5>3, <5>4, <5>6
        <5> QED BY <2>1, <4>5, <5>7 DEF Counter, m, T
      <4> QED BY <4>4, <4>5
    <3> QED BY <3>3, <3>5, <3>6
  <2> QED BY <2>5, <2>6
<1> QED BY <1>2, <1>3, StepKinds

LEMMA FixedInit == Init => FixedInv
<1> SUFFICES ASSUME Init, NEW c \in Of("FIXED_WINDOW"), NEW i \in Indices PROVE Counter(c, i)
  BY DEF FixedInv
<1>1. Stampings(c, i) = {} /\ counts[c][i] = 0 /\ chain[c].limit \in Nat
  BY ConfigTypes DEF Init, Stampings, Of
<1> QED BY <1>1, FS_EmptySet DEF Counter

LEMMA FixedFollows == TypeInv /\ FixedInv => FixedBound
<1> SUFFICES ASSUME TypeInv, FixedInv, NEW c \in Of("FIXED_WINDOW"), NEW i \in Indices
             PROVE  Cardinality(Stampings(c, i)) <= chain[c].limit
  BY DEF FixedBound, Stampings
<1>1. Counter(c, i) /\ chain[c].limit \in Nat /\ counts[c][i] \in Nat
  BY ConfigTypes DEF FixedInv, TypeInv, TypeOK, Of
<1> QED BY <1>1, StampingsFinite DEF Counter

-----------------------------------------------------------------------------
(* BucketBound.  The level a bucket would have at time zero only falls, by a   *)
(* token for each admission; a bucket that is forgotten has been full again    *)
(* since before the scripts that are still to come were stamped.               *)

Base(c) == bucket[c].level - bucket[c].last

Drawn(c, from) == {a \in admitted : a.cfg = c /\ a.time >= from}

(* The time of the last script, as the expiry of the key tells it. *)
LastScript(c) == expires[c][0] - Capacity(c) - GRACE

Drained(c) ==
  /\ LastScript(c) <= now
  /\ Drawn(c, 0) # {} => Base(c) + LastScript(c) >= 0
  /\ \A from \in Nat : Drawn(c, from) # {} =>
       Cardinality(Drawn(c, from)) * chain[c].refill + Base(c) <= Capacity(c) - from + MAX_DELAY

BucketInv == \A c \in Of("TOKEN_BUCKET") : Drained(c)

BucketLimit ==
  \A c \in Of("TOKEN_BUCKET") : \A from, to \in Nat :
    from <= to =>
      Cardinality(AdmittedBy(c, from, to)) * chain[c].refill <= Capacity(c) + (to - from) + MAX_DELAY

LEMMA Products ==
  ASSUME NEW m \in Nat, NEW n \in Nat, NEW q \in Nat
  PROVE  /\ m * q \in Nat
         /\ m <= n => m * q <= n * q
         /\ m <= n + 1 => m * q <= n * q + q
<1>1. m * q \in Nat /\ (n + 1) * q = n * q + q
  OBVIOUS
<1>2. \A l \in Nat : m <= l => m * q <= l * q
  OBVIOUS
<1> QED BY <1>1, <1>2

LEMMA BucketRan ==
  ASSUME TypeInv, NEW c \in Of("TOKEN_BUCKET"), NEW at \in Nat, BucketScript(c, at)
  PROVE  /\ bucket[c].level \in Int /\ bucket[c].last \in Int /\ expires[c][0] \in Nat
         /\ bucket'[c].last = at /\ expires'[c][0] = now + Capacity(c) + GRACE
         /\ Level(c, at) \in Int /\ Level(c, at) <= Capacity(c)
         /\ Live(c, 0) => Level(c, at) <= bucket[c].level + (at - bucket[c].last)
         /\ \/ Level(c, at) = Capacity(c)
            \/ Live(c, 0) /\ Level(c, at) = bucket[c].level + (at - bucket[c].last)
         /\ \/ Level(c, at) >= chain[c].refill /\ bucket'[c].level = Level(c, at) - chain[c].refill
            \/ /\ Level(c, at) < chain[c].refill /\ bucket'[c].level = Level(c, at)
               /\ ~(BucketAnswer(c, at) >= 0)
<1>1. /\ c \in Configs /\ chain[c].refill \in Nat /\ chain[c].refill > 0 /\ Capacity(c) \in Nat
      /\ bucket[c] \in [level : Int, last : Int] /\ now \in Nat /\ GRACE \in Nat
  BY ConfigTypes, LimiterAssumption DEF Of, TypeInv, TypeOK
<1>2. /\ bucket \in [Configs -> [level : Int, last : Int]] /\ expires \in [Configs -> [Indices -> Nat]]
      /\ 0 \in Indices
  BY ZeroIndex DEF TypeInv, TypeOK
<1>3. /\ Hash(c, at).level \in Int /\ Hash(c, at).last \in Int
      /\ Live(c, 0) => Hash(c, at) = bucket[c]
      /\ ~Live(c, 0) => Hash(c, at).level = Capacity(c) /\ Hash(c, at).last = at
  BY <1>1 DEF Hash
<1>4. Level(c, at) = Least(Capacity(c), Hash(c, at).level + (at - Hash(c, at).last))
  BY DEF Level
<1>5. /\ Level(c, at) \in Int /\ Level(c, at) <= Capacity(c)
      /\ Live(c, 0) => Level(c, at) <= bucket[c].level + (at - bucket[c].last)
      /\ \/ Level(c, at) = Capacity(c)
         \/ Live(c, 0) /\ Level(c, at) = bucket[c].level + (at - bucket[c].last)
  BY <1>1, <1>3, <1>4 DEF Least
<1>6. PICK taken : /\ taken = IF BucketAnswer(c, at) >= 0 THEN chain[c].refill ELSE 0
                   /\ bucket' = [bucket EXCEPT ![c] = [level |-> Level(c, at) - taken, last |-> at]]
                   /\ expires' = [expires EXCEPT ![c][0] = now + Capacity(c) + GRACE]
  BY DEF BucketScript
<1>7. bucket'[c].level = Level(c, at) - taken /\ bucket'[c].last = at
  BY <1>1, <1>2, <1>6
<1>8. expires'[c][0] = now + Capacity(c) + GRACE
  <2>1. now + Capacity(c) + GRACE \in Nat
    BY <1>1
  <2> QED BY <1>1, <1>2, <1>6, <2>1, CellWritten
<1>9. BucketAnswer(c, at) >= 0 <=> Level(c, at) >= chain[c].refill
  BY <1>1, <1>5 DEF BucketAnswer
<1>10. \/ Level(c, at) >= chain[c].refill /\ bucket'[c].level = Level(c, at) - chain[c].refill
       \/ /\ Level(c, at) < chain[c].refill /\ bucket'[c].level = Level(c, at)
          /\ ~(BucketAnswer(c, at) >= 0)
  BY <1>1, <1>5, <1>6, <1>7, <1>9
<1>11. bucket[c].level \in Int /\ bucket[c].last \in Int /\ expires[c][0] \in Nat
  BY <1>1, <1>2
<1> QED BY <1>5, <1>7, <1>8, <1>10, <1>11

LEMMA DrawnFinite ==
  ASSUME TypeInv, NEW c, NEW from
  PROVE  IsFiniteSet(Drawn(c, from)) /\ Cardinality(Drawn(c, from)) \in Nat
<1>1. Drawn(c, from) \subseteq admitted /\ IsFiniteSet(admitted)
  BY DEF Drawn, TypeInv
<1> QED BY <1>1, FS_Subset, FS_CardinalityType

LEMMA OneMore ==
  ASSUME NEW S, IsFiniteSet(S), NEW T, NEW z, T \subseteq S \cup {z}
  PROVE  /\ Cardinality(S) \in Nat /\ Cardinality(T) \in Nat
         /\ Cardinality(T) <= Cardinality(S) + 1
<1>1. /\ IsFiniteSet(S \cup {z})
      /\ \/ Cardinality(S \cup {z}) = Cardinality(S)
         \/ Cardinality(S \cup {z}) = Cardinality(S) + 1
  BY FS_AddElement
<1>2. Cardinality(S) \in Nat /\ Cardinality(S \cup {z}) \in Nat
  BY <1>1, FS_CardinalityType
<1>3. Cardinality(T) \in Nat /\ Cardinality(T) <= Cardinality(S \cup {z})
  BY <1>1, FS_Subset, FS_CardinalityType
<1> QED BY <1>1, <1>2, <1>3

(* The script of a bucket keeps Drained, whether its request is admitted or its *)
(* answer is lost.                                                              *)
LEMMA BucketRun ==
  ASSUME TypeInv, BucketInv, NEW c \in Of("TOKEN_BUCKET"), NEW at \in Nat,
         at <= now, now <= at + MAX_DELAY, UNCHANGED <<chain, now>>, BucketScript(c, at),
         NEW new, new.time = now, new.cfg = c,
         admitted' = admitted \/ (BucketAnswer(c, at) >= 0 /\ admitted' = admitted \cup {new})
  PROVE  Drained(c)' /\ (admitted' # admitted => Base(c)' + now >= 0)
<1> DEFINE cap == Capacity(c)
           q == chain[c].refill
           level == Level(c, at)
           base == Base(c)
           last == LastScript(c)
<1>1. /\ c \in Configs /\ q \in Nat /\ q > 0 /\ cap \in Nat /\ cap >= q
      /\ now \in Nat /\ GRACE \in Nat /\ MAX_DELAY \in Nat /\ MAX_DELAY <= GRACE
      /\ Capacity(c)' = cap
  BY ConfigTypes, LimiterAssumption DEF Of, TypeInv, TypeOK, Capacity
<1>2. /\ base \in Int /\ last \in Int /\ expires[c][0] = last + cap + GRACE
      /\ level \in Int /\ level <= cap
      /\ Live(c, 0) => level <= base + at
      /\ level = cap \/ (Live(c, 0) /\ level = base + at)
      /\ Live(c, 0) <=> last + cap + GRACE > now
  BY <1>1, BucketRan DEF Base, LastScript, Live
<1>3. PICK taken \in Nat :
        /\ Base(c)' = level - taken - at
        /\ taken = q \/ taken = 0
        /\ taken = q => level >= q
        /\ taken = 0 => ~(BucketAnswer(c, at) >= 0)
  <2>1. Base(c)' = bucket'[c].level - at
    BY BucketRan DEF Base
  <2>2. \/ level >= q /\ bucket'[c].level = level - q
        \/ level < q /\ bucket'[c].level = level /\ ~(BucketAnswer(c, at) >= 0)
    BY BucketRan
  <2> HIDE DEF level, q
  <2>3. CASE level >= q /\ bucket'[c].level = level - q
    <3>1. /\ q \in Nat /\ Base(c)' = level - q - at /\ level >= q /\ q # 0
      BY <1>1, <1>2, <2>1, <2>3
    <3> QED BY <3>1
  <2>4. CASE level < q /\ bucket'[c].level = level /\ ~(BucketAnswer(c, at) >= 0)
    <3>1. Base(c)' = level - 0 - at
      BY <1>2, <2>1, <2>4
    <3>2. 0 \in Nat /\ 0 # q
      BY <1>1
    <3> QED BY <2>4, <3>1, <3>2
  <2> QED BY <2>2, <2>3, <2>4
<1>4. LastScript(c)' = now
  <2>1. expires'[c][0] = now + cap + GRACE
    BY BucketRan
  <2> HIDE DEF cap
  <2>2. LastScript(c)' = expires'[c][0] - cap - GRACE
    BY <1>1 DEF LastScript
  <2> QED BY <1>1, <2>1, <2>2
<1>5. /\ last <= now
      /\ Drawn(c, 0) # {} => base + last >= 0
      /\ \A from \in Nat : Drawn(c, from) # {} =>
           Cardinality(Drawn(c, from)) * q + base <= cap - from + MAX_DELAY
  BY DEF BucketInv, Drained
<1> HIDE DEF cap, q, level, base, last
<1>6. Drawn(c, 0)' # {} => Base(c)' + now >= 0
  <2>1. CASE taken = q
    BY <1>1, <1>2, <1>3, <2>1
  <2>2. CASE taken = 0
    <3>1. Drawn(c, 0)' = Drawn(c, 0)
      BY <1>3, <2>2 DEF Drawn
    <3> QED BY <1>1, <1>2, <1>3, <1>5, <2>2, <3>1
  <2> QED BY <1>3, <2>1, <2>2
<1>7. ASSUME NEW from \in Nat, Drawn(c, from)' # {}
      PROVE  Cardinality(Drawn(c, from)') * q + Base(c)' <= cap - from + MAX_DELAY
  <2> DEFINE S == Drawn(c, from)
             T == Drawn(c, from)'
             n == Cardinality(S)
             m == Cardinality(T)
  <2>1. S \subseteq Drawn(c, 0)
    <3>1. \A a \in admitted : a.time \in Nat
      BY AdmissionTypes
    <3> QED BY <3>1 DEF Drawn
  <2>2. IsFiniteSet(S) /\ T \subseteq S \cup {new} /\ (T = S \/ (now >= from /\ taken = q))
    BY <1>3, DrawnFinite DEF Drawn
  <2> HIDE DEF S, T
  <2>3. n \in Nat /\ m \in Nat /\ m <= n + 1
    BY <2>2, OneMore
  <2>4. n * q \in Nat /\ m * q \in Nat /\ m * q <= n * q + q /\ (T = S => m * q = n * q)
    BY <1>1, <2>3, Products
  <2> DEFINE nq == n * q
             mq == m * q
  <2>5. nq \in Nat /\ mq \in Nat /\ mq <= nq + q /\ (T = S => mq = nq) /\ (S = {} => nq = 0)
    <3>1. S = {} => n = 0
      BY FS_EmptySet
    <3> QED BY <1>1, <2>4, <3>1
  <2>6. mq <= nq + taken
    BY <1>1, <1>3, <2>2, <2>5
  <2>7. S # {} => nq + base <= cap - from + MAX_DELAY /\ base + last >= 0
    BY <1>5, <2>1 DEF S
  <2>8. S = {} => now >= from
    BY <1>7, <2>2 DEF T
  <2> HIDE DEF nq, mq
  <2>9. mq + Base(c)' <= cap - from + MAX_DELAY
    <3>1. CASE S = {}
      BY <1>1, <1>2, <1>3, <2>5, <2>6, <2>8, <3>1
    <3>2. CASE S # {} /\ Live(c, 0)
      BY <1>1, <1>2, <1>3, <2>5, <2>6, <2>7, <3>2
    <3>3. CASE S # {} /\ ~Live(c, 0)
      BY <1>1, <1>2, <1>3, <2>5, <2>6, <2>7, <3>3
    <3> QED BY <3>1, <3>2, <3>3
  <2> QED BY <2>9 DEF mq, m, T
<1>8. admitted' # admitted => Base(c)' + now >= 0
  BY <1>1, <1>2, <1>3
<1>9. chain'[c].refill = q /\ Capacity(c)' = cap /\ MAX_DELAY' = MAX_DELAY
  BY <1>1 DEF q
<1>10. Drained(c)'
  BY <1>1, <1>4, <1>6, <1>7, <1>9 DEF Drained
<1> QED BY <1>8, <1>10

LEMMA BucketKeeps ==
  TypeInv /\ BucketInv /\ BucketLimit /\ [Next]_vars => BucketInv' /\ BucketLimit'
<1> SUFFICES ASSUME TypeInv, BucketInv, BucketLimit, [Next]_vars
             PROVE  BucketInv' /\ BucketLimit'
  OBVIOUS
<1>1. ASSUME UNCHANGED <<chain, admitted>> PROVE BucketLimit'
  <2>1. /\ \A c, from, to : AdmittedBy(c, from, to)' = AdmittedBy(c, from, to)
        /\ Of("TOKEN_BUCKET")' = Of("TOKEN_BUCKET")
        /\ \A c : Capacity(c)' = Capacity(c)
    BY <1>1 DEF AdmittedBy, Of, Configs, Capacity
  <2> QED BY <1>1, <2>1 DEF BucketLimit
<1>2. CASE Quiet \/ Ticks
  <2>1. /\ UNCHANGED <<chain, bucket, expires, admitted>> /\ (now' = now \/ now' = now + 1)
        /\ now \in Nat
    BY <1>2 DEF Quiet, Ticks, TypeInv, TypeOK
  <2>2. BucketInv'
    <3> SUFFICES ASSUME NEW c \in Of("TOKEN_BUCKET") PROVE Drained(c)'
      BY <2>1 DEF BucketInv, Of, Configs
    <3>1. /\ Base(c)' = Base(c) /\ LastScript(c)' = LastScript(c) /\ Capacity(c)' = Capacity(c)
          /\ \A from : Drawn(c, from)' = Drawn(c, from)
      BY <2>1 DEF Base, LastScript, Capacity, Drawn
    <3>2. Drained(c) /\ LastScript(c) \in Int
      <4>1. c \in Configs /\ expires[c][0] \in Nat
        BY ZeroIndex DEF Of, TypeInv, TypeOK
      <4>2. Capacity(c) \in Nat /\ GRACE \in Nat
        BY <4>1, ConfigTypes, LimiterAssumption DEF TypeInv, TypeOK
      <4> QED BY <4>1, <4>2 DEF BucketInv, LastScript
    <3>3. LastScript(c) <= now'
      BY <2>1, <3>2 DEF Drained
    <3> QED BY <2>1, <3>1, <3>2, <3>3 DEF Drained
  <2> QED BY <1>1, <2>1, <2>2
<1>3. ASSUME NEW r \in Requests, NEW draw \in DrawsOf(request[r].cfg), Ran(r, draw)
      PROVE  BucketInv' /\ BucketLimit'
  <2>1. PICK k, at, new :
          /\ k \in Configs /\ at \in Nat /\ at <= now /\ now \in Nat /\ MAX_DELAY \in Nat
          /\ now <= at + MAX_DELAY /\ UNCHANGED <<chain, now>> /\ RunScript(k, at, draw)
          /\ admitted' = admitted \/ (Answer(k, at) >= 0 /\ admitted' = admitted \cup {new})
          /\ new.cfg = k /\ new.time = now
    <3> DEFINE new == [cfg |-> request[r].cfg, time |-> now, at |-> request[r].at,
                       draw |-> draw, request |-> r]
    <3>1. /\ request[r].cfg \in Configs /\ request[r].at \in Nat /\ request[r].at <= now
          /\ now \in Nat /\ MAX_DELAY \in Nat
          /\ now <= request[r].at + MAX_DELAY /\ UNCHANGED <<chain, now>>
          /\ RunScript(request[r].cfg, request[r].at, draw)
          /\ \/ admitted' = admitted
             \/ Answer(request[r].cfg, request[r].at) >= 0 /\ admitted' = admitted \cup {new}
      BY <1>3, ScriptTypes DEF Ran
    <3>2. new.cfg = request[r].cfg /\ new.time = now
      OBVIOUS
    <3> HIDE DEF new
    <3> QED BY <3>1, <3>2
  <2>2. new.cfg = k /\ new.time = now
    BY <2>1
  <2>3. ASSUME k \in Of("TOKEN_BUCKET")
        PROVE  Drained(k)' /\ (admitted' # admitted => Base(k)' + now >= 0)
    <3>1. chain[k].strategy = "TOKEN_BUCKET"
      BY <2>3 DEF Of
    <3>2. BucketScript(k, at)
      BY <2>1, <3>1 DEF RunScript, Of
    <3>3. Answer(k, at) = BucketAnswer(k, at)
      BY <3>1 DEF Answer
    <3> QED BY <2>1, <2>2, <2>3, <3>2, <3>3, BucketRun
  <2>4. BucketInv'
    <3> SUFFICES ASSUME NEW c \in Of("TOKEN_BUCKET") PROVE Drained(c)'
      BY <2>1 DEF BucketInv, Of, Configs
    <3>1. CASE k = c
      BY <2>3, <3>1
    <3>2. CASE k # c
      <4>1. bucket'[c] = bucket[c] /\ expires'[c] = expires[c]
        BY <2>1, <3>2, OtherKeys DEF Of
      <4>2. \A from : Drawn(c, from)' = Drawn(c, from)
        BY <2>1, <2>2, <3>2 DEF Drawn
      <4>3. Base(c)' = Base(c) /\ LastScript(c)' = LastScript(c) /\ Capacity(c)' = Capacity(c)
        BY <2>1, <4>1 DEF Base, LastScript, Capacity
      <4> QED BY <2>1, <4>2, <4>3 DEF BucketInv, Drained
    <3> QED BY <3>1, <3>2
  <2>5. CASE admitted' = admitted
    BY <1>1, <2>1, <2>4, <2>5
  <2>6. CASE admitted' # admitted
    <3> SUFFICES ASSUME NEW c \in Of("TOKEN_BUCKET"), NEW from \in Nat, NEW to \in Nat, from <= to
                 PROVE  Cardinality(AdmittedBy(c, from, to)') * chain[c].refill
                          <= Capacity(c) + (to - from) + MAX_DELAY
      <4>1. Of("TOKEN_BUCKET")' = Of("TOKEN_BUCKET") /\ \A c : Capacity(c)' = Capacity(c)
        BY <2>1 DEF Of, Configs, Capacity
      <4> QED BY <2>1, <2>4, <4>1 DEF BucketLimit
    <3>1. admitted' = admitted \cup {new}
      BY <2>1, <2>6
    <3>2. CASE k # c \/ now \notin from..to
      <4>1. AdmittedBy(c, from, to)' = AdmittedBy(c, from, to)
        BY <2>2, <3>1, <3>2 DEF AdmittedBy
      <4> QED BY <4>1 DEF BucketLimit
    <3>3. CASE k = c /\ now \in from..to
      <4> DEFINE S == Drawn(c, from)'
                 T == AdmittedBy(c, from, to)'
                 q == chain[c].refill
      <4>1. Drained(c)' /\ Base(c)' + now >= 0
        BY <2>3, <2>6, <3>3
      <4>2. new \in S /\ T \subseteq S
        BY <2>1, <2>2, <3>1, <3>3 DEF Drawn, AdmittedBy
      <4>3. IsFiniteSet(S) /\ Cardinality(S) \in Nat
        <5>1. IsFiniteSet(admitted')
          BY <3>1, FS_AddElement DEF TypeInv
        <5>2. S \subseteq admitted'
          BY DEF Drawn
        <5> QED BY <5>1, <5>2, FS_Subset, FS_CardinalityType
      <4>4. /\ q \in Nat /\ Capacity(c) \in Nat /\ Capacity(c)' = Capacity(c)
        BY <2>1, ConfigTypes DEF Of, TypeInv, TypeOK, Capacity
      <4>5. Cardinality(S) * q + Base(c)' <= Capacity(c) - from + MAX_DELAY
        BY <2>1, <4>1, <4>2, <4>4 DEF Drained
      <4>6. Base(c)' \in Int
        <5>1. bucket' \in [Configs -> [level : Int, last : Int]] /\ c \in Configs
          <6>1. StoreOK' /\ Configs' = Configs
            BY <1>3, <2>1, ScriptTyped DEF Ran, Configs
          <6> QED BY <6>1 DEF StoreOK, Of
        <5> QED BY <5>1 DEF Base
      <4> HIDE DEF S, T, q
      <4>7. Cardinality(T) \in Nat /\ Cardinality(T) <= Cardinality(S)
        BY <4>2, <4>3, FS_Subset, FS_CardinalityType
      <4>8. /\ Cardinality(S) * q \in Nat /\ Cardinality(T) * q \in Nat
            /\ Cardinality(T) * q <= Cardinality(S) * q
        BY <4>3, <4>4, <4>7, Products
      <4> DEFINE sq == Cardinality(S) * q
                 tq == Cardinality(T) * q
      <4>9. /\ sq \in Nat /\ tq \in Nat /\ tq <= sq
            /\ sq + Base(c)' <= Capacity(c) - from + MAX_DELAY
        BY <4>5, <4>8
      <4> HIDE DEF sq, tq
      <4>10. tq <= Capacity(c) + (to - from) + MAX_DELAY
        BY <2>1, <3>3, <4>1, <4>4, <4>6, <4>9
      <4> QED BY <4>10 DEF tq, T, q
    <3> QED BY <3>2, <3>3
  <2> QED BY <2>5, <2>6
<1> QED BY <1>2, <1>3, StepKinds

LEMMA BucketInit == Init => BucketInv /\ BucketLimit
<1> SUFFICES ASSUME Init, NEW c \in Of("TOKEN_BUCKET")
             PROVE  /\ Drained(c)
                    /\ \A from, to \in Nat : from <= to =>
                         Cardinality(AdmittedBy(c, from, to)) * chain[c].refill
                           <= Capacity(c) + (to - from) + MAX_DELAY
  BY DEF BucketInv, BucketLimit
<1>1. /\ c \in Configs /\ chain[c].refill \in Nat /\ Capacity(c) \in Nat /\ GRACE \in Nat
      /\ MAX_DELAY \in Nat
  BY ConfigTypes, LimiterAssumption DEF Init, Of
<1>2. admitted = {} /\ now = 0 /\ expires[c][0] = 0
  BY <1>1, ZeroIndex DEF Init
<1>3. \A from, to : Drawn(c, from) = {} /\ AdmittedBy(c, from, to) = {}
  BY <1>2 DEF Drawn, AdmittedBy
<1>4. LastScript(c) <= now
  BY <1>1, <1>2 DEF LastScript
<1>5. Cardinality({}) * chain[c].refill = 0
  BY <1>1, FS_EmptySet
<1>6. Drained(c)
  BY <1>3, <1>4 DEF Drained
<1>7. ASSUME NEW from \in Nat, NEW to \in Nat, from <= to
      PROVE  Cardinality(AdmittedBy(c, from, to)) * chain[c].refill
               <= Capacity(c) + (to - from) + MAX_DELAY
  <2>1. Cardinality(AdmittedBy(c, from, to)) * chain[c].refill = 0
    BY <1>3, <1>5
  <2> QED BY <1>1, <1>7, <2>1
<1> QED BY <1>6, <1>7

LEMMA BucketFollows == TypeInv /\ BucketLimit => BucketBound
<1> SUFFICES ASSUME TypeInv, BucketLimit PROVE BucketBound
  OBVIOUS
<1>1. Times \subseteq Nat
  BY AdmissionTypes DEF Times
<1> QED BY <1>1 DEF BucketBound, BucketLimit

(* No strategy lets more requests pass than its limit, in any interval, however *)
(* late its scripts run (rate-limiter.service.ts and the strategies).           *)
THEOREM LimitsAlwaysKept == Spec => []LimitsKept
<1> DEFINE LimiterInv == /\ TypeInv /\ SlidingInv /\ SlidingLimit /\ FixedInv
                         /\ BucketInv /\ BucketLimit
<1>1. Init => LimiterInv
  BY TypeInit, SlidingInit, FixedInit, BucketInit
<1>2. LimiterInv /\ [Next]_vars => LimiterInv'
  BY NextTyped, SlidingKeeps, FixedKeeps, BucketKeeps
<1>3. LimiterInv => LimitsKept
  BY SlidingFollows, FixedFollows, BucketFollows DEF LimitsKept, TypeInv
<1> QED BY <1>1, <1>2, <1>3, PTL DEF Spec

-----------------------------------------------------------------------------
(* Refusals.  What the keys count are admissions and scripts whose answer was  *)
(* lost, and never more than the limit; nothing is counted ahead of the clock. *)

Resolved(r, draw) ==
  LET c == request[r].cfg
      at == request[r].at
  IN
  /\ \A s \in Requests \ {r} : request'[s] = request[s]
  /\ \/ /\ Answer(c, at) >= 0 /\ faults' = faults /\ request'[r].pc # "refused"
        /\ admitted' = admitted \cup {[cfg |-> c, time |-> now, at |-> at,
                                       draw |-> draw, request |-> r]}
     \/ /\ Answer(c, at) < 0 /\ faults' = faults /\ admitted' = admitted
        /\ request'[r].pc = "refused" /\ request'[r].cfg = c /\ request'[r].at = at
     \/ faults' = faults + 1 /\ admitted' = admitted /\ request'[r].pc # "refused"

NoneRefused ==
  /\ faults' >= faults
  /\ \A s \in Requests : request'[s].pc = "refused" => request'[s] = request[s]

LEMMA StepOutcomes ==
  ASSUME TypeInv, [Next]_vars
  PROVE  \/ (Quiet \/ Ticks) /\ NoneRefused
         \/ \E r \in Requests : \E draw \in DrawsOf(request[r].cfg) : Ran(r, draw) /\ Resolved(r, draw)
<1>1. faults \in Nat /\ request \in [Requests -> RequestRecord]
  BY LimiterAssumption DEF TypeInv, TypeOK
<1>2. CASE UNCHANGED vars
  BY <1>1, <1>2 DEF vars, store, Quiet, NoneRefused
<1>3. CASE Tick
  BY <1>1, <1>3 DEF Tick, store, Ticks, NoneRefused
<1>4. ASSUME NEW r \in Requests, Stamp(r) PROVE Quiet /\ NoneRefused
  <2>1. /\ UNCHANGED <<chain, now, store, admitted, faults>>
        /\ request' = [request EXCEPT ![r] = [@ EXCEPT !.pc = "script", !.at = now]]
    BY <1>1, <1>4 DEF Stamp
  <2>2. request'[r].pc = "script" /\ \A s \in Requests \ {r} : request'[s] = request[s]
    <3>1. request[r] \in RequestRecord
      BY <1>1
    <3> QED BY <1>1, <2>1, <3>1 DEF RequestRecord
  <2> QED BY <1>1, <2>1, <2>2 DEF Quiet, store, NoneRefused
<1>5. ASSUME NEW r \in Requests, FailOpen(r) PROVE Quiet /\ NoneRefused
  <2>1. /\ UNCHANGED <<chain, now, store, admitted>> /\ faults' = faults + 1
        /\ request' = [request EXCEPT ![r] = [@ EXCEPT !.pc = "allowed"]]
    BY <1>1, <1>5 DEF FailOpen
  <2>2. request'[r].pc = "allowed" /\ \A s \in Requests \ {r} : request'[s] = request[s]
    <3>1. request[r] \in RequestRecord
      BY <1>1
    <3> QED BY <1>1, <2>1, <3>1 DEF RequestRecord
  <2> QED BY <1>1, <2>1, <2>2 DEF Quiet, store, NoneRefused
<1>6. ASSUME NEW r \in Requests, request' = [request EXCEPT ![r] = Passed(r)], request[r].pc = "script"
      PROVE  request'[r].pc # "refused" /\ \A s \in Requests \ {r} : request'[s] = request[s]
  <2>1. request[r] \in RequestRecord
    BY <1>1
  <2>2. Passed(r).pc # "refused"
    BY <2>1 DEF Passed, RequestRecord
  <2> QED BY <1>1, <1>6, <2>2
<1>7. ASSUME NEW r \in Requests, Script(r)
      PROVE  \E draw \in DrawsOf(request[r].cfg) : Ran(r, draw) /\ Resolved(r, draw)
  <2>1. PICK draw \in DrawsOf(request[r].cfg) :
          /\ RunScript(request[r].cfg, request[r].at, draw)
          /\ \/ /\ Answer(request[r].cfg, request[r].at) >= 0
                /\ request' = [request EXCEPT ![r] = Passed(r)]
                /\ admitted' = admitted \cup {[cfg |-> request[r].cfg, time |-> now, at |-> request[r].at,
                                               draw |-> draw, request |-> r]}
             \/ /\ Answer(request[r].cfg, request[r].at) < 0
                /\ request' = [request EXCEPT ![r] = [@ EXCEPT !.pc = "refused"]]
                /\ UNCHANGED admitted
    BY <1>7 DEF Script
  <2>2. request[r].pc = "script" /\ UNCHANGED <<chain, now, faults>>
    BY <1>7 DEF Script
  <2>3. Ran(r, draw)
    BY <2>1, <2>2 DEF Ran
  <2>4. CASE /\ Answer(request[r].cfg, request[r].at) >= 0
             /\ request' = [request EXCEPT ![r] = Passed(r)]
             /\ admitted' = admitted \cup {[cfg |-> request[r].cfg, time |-> now, at |-> request[r].at,
                                            draw |-> draw, request |-> r]}
    <3>1. request'[r].pc # "refused" /\ \A s \in Requests \ {r} : request'[s] = request[s]
      BY <1>6, <2>2, <2>4
    <3>2. Resolved(r, draw)
      BY <2>2, <2>4, <3>1 DEF Resolved
    <3> QED BY <2>3, <3>2
  <2>5. CASE /\ Answer(request[r].cfg, request[r].at) < 0
             /\ request' = [request EXCEPT ![r] = [@ EXCEPT !.pc = "refused"]]
             /\ UNCHANGED admitted
    <3>1. request[r] \in RequestRecord
      BY <1>1
    <3>2. /\ \A s \in Requests \ {r} : request'[s] = request[s]
          /\ request'[r].pc = "refused" /\ request'[r].cfg = request[r].cfg
          /\ request'[r].at = request[r].at
      BY <1>1, <2>5, <3>1 DEF RequestRecord
    <3>3. Resolved(r, draw)
      BY <2>2, <2>5, <3>2 DEF Resolved
    <3> QED BY <2>3, <3>3
  <2> QED BY <2>1, <2>4, <2>5
<1>8. ASSUME NEW r \in Requests, CheckFails(r)
      PROVE  \/ Quiet /\ NoneRefused
             \/ \E draw \in DrawsOf(request[r].cfg) : Ran(r, draw) /\ Resolved(r, draw)
  <2>1. /\ request[r].pc = "script" /\ faults' = faults + 1 /\ UNCHANGED <<chain, now, admitted>>
        /\ request' = [request EXCEPT ![r] = Passed(r)]
    BY <1>8 DEF CheckFails
  <2>2. request'[r].pc # "refused" /\ \A s \in Requests \ {r} : request'[s] = request[s]
    BY <1>6, <2>1
  <2>3. CASE UNCHANGED store
    BY <1>1, <2>1, <2>2, <2>3 DEF Quiet, store, NoneRefused
  <2>4. ASSUME NEW draw \in DrawsOf(request[r].cfg),
               RunScript(request[r].cfg, request[r].at, draw)
        PROVE  Ran(r, draw) /\ Resolved(r, draw)
    BY <2>1, <2>2, <2>4 DEF Ran, Resolved
  <2> QED BY <1>8, <2>3, <2>4 DEF CheckFails
<1> QED BY <1>2, <1>3, <1>4, <1>5, <1>7, <1>8 DEF Next

(* What a script adds to the keys of its configuration. *)
LEMMA SlidingAdds ==
  ASSUME TypeInv, NEW c \in Of("SLIDING_WINDOW"), NEW at \in Nat, NEW draw,
         SlidingScript(c, at, draw), Cardinality(hits[c]) <= chain[c].limit
  PROVE  /\ hits'[c] \subseteq hits[c] \cup {<<at, draw>>}
         /\ Answer(c, at) < 0 => hits'[c] \subseteq hits[c]
         /\ Cardinality(hits'[c]) <= chain[c].limit
<1>1. /\ c \in Configs /\ chain[c].limit \in Nat /\ chain[c].strategy = "SLIDING_WINDOW"
      /\ hits \in [Configs -> SUBSET (Nat \X Draws)] /\ IsFiniteSet(hits[c])
  BY ConfigTypes DEF Of, TypeInv, TypeOK
<1>2. /\ IsFiniteSet(Kept(c, at)) /\ Cardinality(Kept(c, at)) \in Nat
      /\ SlidingAnswer(c, at) \in Int
      /\ SlidingAnswer(c, at) >= 0 <=> Cardinality(Kept(c, at)) < chain[c].limit
  BY SlidingAnswers
<1>3. Kept(c, at) \subseteq hits[c] /\ Answer(c, at) = SlidingAnswer(c, at)
  BY <1>1 DEF Kept, Answer
<1>4. CASE SlidingAnswer(c, at) >= 0 /\ hits' = [hits EXCEPT ![c] = Kept(c, at) \cup {<<at, draw>>}]
  <2>1. hits'[c] = Kept(c, at) \cup {<<at, draw>>}
    BY <1>1, <1>4
  <2>2. Cardinality(hits'[c]) \in Nat /\ Cardinality(hits'[c]) <= Cardinality(Kept(c, at)) + 1
    BY <1>2, <2>1, OneMore
  <2> QED BY <1>1, <1>2, <1>3, <1>4, <2>1, <2>2
<1>5. CASE SlidingAnswer(c, at) < 0 /\ hits' = [hits EXCEPT ![c] = Kept(c, at)]
  <2>1. hits'[c] = Kept(c, at)
    BY <1>1, <1>5
  <2>2. Cardinality(Kept(c, at)) <= Cardinality(hits[c]) /\ Cardinality(hits[c]) \in Nat
    BY <1>1, <1>3, FS_Subset, FS_CardinalityType
  <2> QED BY <1>1, <1>2, <1>3, <2>1, <2>2
<1> QED BY <1>4, <1>5 DEF SlidingScript

LEMMA FixedAdds ==
  ASSUME TypeInv, NEW c \in Of("FIXED_WINDOW"), NEW at \in Nat, at <= now, FixedScript(c, at),
         NEW i \in Indices
  PROVE  /\ counts[c][i] \in Nat /\ counts'[c][i] \in Nat
         /\ i # Index(c, at) => counts'[c][i] = counts[c][i]
         /\ counts'[c][i] <= counts[c][i] + 1
         /\ Answer(c, at) < 0 => counts'[c][i] = counts[c][i]
<1>1. /\ c \in Configs /\ chain[c].strategy = "FIXED_WINDOW"
      /\ counts \in [Configs -> [Indices -> Nat]] /\ Index(c, at) \in Indices
  <2>1. c \in Configs /\ chain[c].strategy = "FIXED_WINDOW"
    BY DEF Of
  <2> QED BY <2>1, IndexType DEF TypeInv, TypeOK
<1>2. Answer(c, at) = FixedAnswer(c, at) /\ FixedAnswer(c, at) \in Int /\ Count(c, Index(c, at)) \in Nat
  BY <1>1, FixedAnswers DEF Answer
<1>3. Count(c, Index(c, at)) <= counts[c][Index(c, at)]
  BY <1>1 DEF Count
<1>4. CASE FixedAnswer(c, at) >= 0
  <2>1. counts' = [counts EXCEPT ![c][Index(c, at)] = Count(c, Index(c, at)) + 1]
    BY <1>4 DEF FixedScript
  <2>2. counts'[c][i] = IF c = c /\ i = Index(c, at) THEN Count(c, Index(c, at)) + 1 ELSE counts[c][i]
    <3>1. Count(c, Index(c, at)) + 1 \in Nat
      BY <1>2
    <3> QED BY <1>1, <2>1, <3>1, CellWritten
  <2> QED BY <1>1, <1>2, <1>3, <1>4, <2>2
<1>5. CASE FixedAnswer(c, at) < 0
  BY <1>1, <1>2, <1>5 DEF FixedScript
<1> QED BY <1>2, <1>4, <1>5

After(c, x) == {h \in hits[c] : h[1] > x}

Younger(c, x) == {a \in admitted : a.cfg = c /\ a.at > x}

Full == \A c \in Of("SLIDING_WINDOW") : Cardinality(hits[c]) <= chain[c].limit

NotAhead ==
  \A c \in Of("FIXED_WINDOW") : \A i \in Indices : counts[c][i] > 0 => i * chain[c].window <= now

Traced ==
  /\ \A c \in Of("FIXED_WINDOW") : \A i \in Indices :
       counts[c][i] <= Cardinality(Stampings(c, i)) + faults
  /\ \A c \in Of("SLIDING_WINDOW") : \A x \in Int :
       Cardinality(After(c, x)) <= Cardinality(Younger(c, x)) + faults

(* The limit is reached for a request stamped at `at'. *)
Reached(c, at) ==
  /\ c \in Of("FIXED_WINDOW") =>
       Cardinality(Stampings(c, Index(c, at))) + faults >= chain[c].limit
  /\ c \in Of("SLIDING_WINDOW") =>
       Cardinality(Younger(c, at - chain[c].window)) + faults >= chain[c].limit

Justified ==
  \A r \in Requests : \A c, at :
    request[r].pc = "refused" /\ request[r].cfg = c /\ request[r].at = at => Reached(c, at)

RefusalInv == Full /\ NotAhead /\ Traced /\ Justified

LEMMA AdmissionsGrow ==
  ASSUME TypeInv, TypeInv', chain' = chain, admitted \subseteq admitted'
  PROVE  /\ \A c, i : /\ Stampings(c, i) \subseteq Stampings(c, i)'
                      /\ Cardinality(Stampings(c, i)) \in Nat /\ Cardinality(Stampings(c, i)') \in Nat
                      /\ Cardinality(Stampings(c, i)) <= Cardinality(Stampings(c, i)')
         /\ \A c, x : /\ Younger(c, x) \subseteq Younger(c, x)'
                      /\ Cardinality(Younger(c, x)) \in Nat /\ Cardinality(Younger(c, x)') \in Nat
                      /\ Cardinality(Younger(c, x)) <= Cardinality(Younger(c, x)')
<1>1. \A S, T : T \subseteq admitted' /\ S \subseteq T =>
        /\ Cardinality(S) \in Nat /\ Cardinality(T) \in Nat /\ Cardinality(S) <= Cardinality(T)
  BY FS_Subset, FS_CardinalityType DEF TypeInv
<1>2. ASSUME NEW c, NEW i
      PROVE  Stampings(c, i)' \subseteq admitted' /\ Stampings(c, i) \subseteq Stampings(c, i)'
  BY DEF Stampings, Index
<1>3. ASSUME NEW c, NEW x
      PROVE  Younger(c, x)' \subseteq admitted' /\ Younger(c, x) \subseteq Younger(c, x)'
  BY DEF Younger
<1> QED BY <1>1, <1>2, <1>3

(* A set that gains an element its counterpart gains, too, or for a fault. *)
LEMMA StillCovered ==
  ASSUME NEW S, IsFiniteSet(S), NEW T, IsFiniteSet(T), NEW f \in Nat, Cardinality(S) <= Cardinality(T) + f,
         NEW U, NEW V, IsFiniteSet(V), NEW g \in Nat, T \subseteq V, g >= f,
         NEW y, NEW z,
         \/ U \subseteq S
         \/ U \subseteq S \cup {y} /\ (g = f + 1 \/ (z \in V /\ z \notin T))
  PROVE  Cardinality(U) <= Cardinality(V) + g
<1>1. /\ Cardinality(S) \in Nat /\ Cardinality(T) \in Nat /\ Cardinality(V) \in Nat
      /\ Cardinality(T) <= Cardinality(V)
  BY FS_Subset, FS_CardinalityType
<1>2. CASE U \subseteq S
  <2>1. Cardinality(U) \in Nat /\ Cardinality(U) <= Cardinality(S)
    BY <1>2, FS_Subset, FS_CardinalityType
  <2> QED BY <1>1, <2>1
<1>3. CASE U \subseteq S \cup {y}
  <2>1. Cardinality(U) \in Nat /\ Cardinality(U) <= Cardinality(S) + 1
    BY <1>3, OneMore
  <2>2. CASE g = f + 1
    BY <1>1, <2>1, <2>2
  <2>3. CASE z \in V /\ z \notin T
    <3>1. IsFiniteSet(T \cup {z}) /\ Cardinality(T \cup {z}) = Cardinality(T) + 1
      BY <2>3, FS_AddElement
    <3>2. Cardinality(T \cup {z}) <= Cardinality(V)
      <4>1. T \cup {z} \subseteq V
        BY <2>3
      <4> QED BY <4>1, FS_Subset
    <3> QED BY <1>1, <2>1, <3>1, <3>2
  <2> QED BY <1>2, <2>2, <2>3
<1> QED BY <1>2, <1>3

LEMMA ReachedStays ==
  ASSUME TypeInv, TypeInv', chain' = chain, admitted \subseteq admitted', faults' >= faults,
         NEW c, NEW at, Reached(c, at)
  PROVE  Reached(c, at)'
<1>1. faults \in Nat /\ faults' \in Nat
  BY LimiterAssumption DEF TypeInv, TypeOK
<1>2. /\ \A s : Of(s)' = Of(s)
      /\ Index(c, at)' = Index(c, at)
  BY DEF Of, Configs, Index
<1>3. ASSUME c \in Of("FIXED_WINDOW")
      PROVE  Cardinality(Stampings(c, Index(c, at))') + faults' >= chain[c].limit
  <2>1. chain[c].limit \in Nat
    BY <1>3, ConfigTypes DEF Of, TypeInv, TypeOK
  <2>2. Cardinality(Stampings(c, Index(c, at))) + faults >= chain[c].limit
    BY <1>3 DEF Reached
  <2>3. \A i : /\ Cardinality(Stampings(c, i)) \in Nat /\ Cardinality(Stampings(c, i)') \in Nat
               /\ Cardinality(Stampings(c, i)) <= Cardinality(Stampings(c, i)')
    BY AdmissionsGrow
  <2>4. PICK i : i = Index(c, at)
    OBVIOUS
  <2>5. Stampings(c, Index(c, at))' = Stampings(c, i)'
    BY <1>2, <2>4
  <2> QED BY <1>1, <2>1, <2>2, <2>3, <2>4, <2>5
<1>4. ASSUME c \in Of("SLIDING_WINDOW")
      PROVE  Cardinality(Younger(c, at - chain[c].window)') + faults' >= chain[c].limit
  <2>1. chain[c].limit \in Nat
    BY <1>4, ConfigTypes DEF Of, TypeInv, TypeOK
  <2>2. Cardinality(Younger(c, at - chain[c].window)) + faults >= chain[c].limit
    BY <1>4 DEF Reached
  <2>3. \A x : /\ Cardinality(Younger(c, x)) \in Nat /\ Cardinality(Younger(c, x)') \in Nat
               /\ Cardinality(Younger(c, x)) <= Cardinality(Younger(c, x)')
    BY AdmissionsGrow
  <2>4. PICK x : x = at - chain[c].window
    OBVIOUS
  <2>5. Younger(c, at - chain[c].window)' = Younger(c, x)'
    BY <2>4
  <2> QED BY <1>1, <2>1, <2>2, <2>3, <2>4, <2>5
<1> QED BY <1>2, <1>3, <1>4 DEF Reached

LEMMA RefusalQuiet ==
  ASSUME TypeInv, TypeInv', RefusalInv, Quiet \/ Ticks, NoneRefused
  PROVE  RefusalInv'
<1>1. /\ UNCHANGED <<chain, hits, counts, admitted>> /\ now' >= now /\ now \in Nat /\ now' \in Nat
      /\ faults \in Nat /\ faults' \in Nat /\ faults' >= faults
  <2>1. faults \in Nat /\ faults' \in Nat /\ now \in Nat /\ now' \in Nat
    BY LimiterAssumption DEF TypeInv, TypeOK
  <2> QED BY <2>1 DEF Quiet, Ticks, NoneRefused
<1>2. /\ \A c, i : Stampings(c, i)' = Stampings(c, i)
      /\ \A c, x : After(c, x)' = After(c, x) /\ Younger(c, x)' = Younger(c, x)
      /\ \A s : Of(s)' = Of(s)
  BY <1>1 DEF Stampings, Index, After, Younger, Of, Configs
<1>3. /\ \A c, i : Cardinality(Stampings(c, i)) \in Nat
      /\ \A c, x : Cardinality(Younger(c, x)) \in Nat
  BY <1>1, AdmissionsGrow
<1>4. Full'
  BY <1>1, <1>2 DEF RefusalInv, Full
<1>5. NotAhead'
  <2> SUFFICES ASSUME NEW c \in Of("FIXED_WINDOW"), NEW i \in Indices, counts[c][i] > 0
               PROVE  i * chain[c].window <= now'
    BY <1>1, <1>2 DEF NotAhead
  <2>1. i * chain[c].window <= now
    BY DEF RefusalInv, NotAhead
  <2>2. i * chain[c].window \in Nat
    <3>1. c \in Configs /\ chain \in Chains /\ i \in Nat
      BY LimiterAssumption DEF Indices, Of, TypeInv, TypeOK
    <3>2. chain[c].window \in Nat
      BY <3>1, ConfigTypes
    <3> QED BY <3>1, <3>2, Products
  <2> QED BY <1>1, <2>1, <2>2
<1>6. Traced'
  <2>1. ASSUME NEW c \in Of("FIXED_WINDOW"), NEW i \in Indices
        PROVE  counts[c][i] <= Cardinality(Stampings(c, i)) + faults'
    <3>1. counts[c][i] \in Nat
      BY DEF TypeInv, TypeOK, Of
    <3> QED BY <1>1, <1>3, <3>1 DEF RefusalInv, Traced
  <2>2. ASSUME NEW c \in Of("SLIDING_WINDOW"), NEW x \in Int
        PROVE  Cardinality(After(c, x)) <= Cardinality(Younger(c, x)) + faults'
    <3>1. Cardinality(After(c, x)) \in Nat
      <4>1. IsFiniteSet(hits[c]) /\ After(c, x) \subseteq hits[c]
        BY DEF TypeInv, Of, After
      <4> QED BY <4>1, FS_Subset, FS_CardinalityType
    <3> QED BY <1>1, <1>3, <3>1 DEF RefusalInv, Traced
  <2> QED BY <1>1, <1>2, <2>1, <2>2 DEF Traced
<1>7. Justified'
  <2> SUFFICES ASSUME NEW r \in Requests, NEW c, NEW at,
                      request'[r].pc = "refused", request'[r].cfg = c, request'[r].at = at
               PROVE  Reached(c, at)'
    BY DEF Justified
  <2>1. request'[r] = request[r]
    BY DEF NoneRefused
  <2>2. Reached(c, at)
    BY <2>1 DEF RefusalInv, Justified
  <2> QED BY <1>1, <2>2, ReachedStays
<1> QED BY <1>4, <1>5, <1>6, <1>7 DEF RefusalInv

LEMMA RefusalRan ==
  ASSUME TypeInv, TypeInv', RefusalInv, NEW r \in Requests, NEW draw \in DrawsOf(request[r].cfg),
         Ran(r, draw), Resolved(r, draw)
  PROVE  RefusalInv'
<1>1. PICK k, at, new : /\ k = request[r].cfg /\ at = request[r].at
                        /\ new = [cfg |-> k, time |-> now, at |-> at, draw |-> draw, request |-> r]
  OBVIOUS
<1>2. request[r].pc = "script" /\ chain' = chain /\ now' = now /\ RunScript(k, at, draw)
  BY <1>1 DEF Ran
<1>3. /\ k \in Configs /\ at \in Nat /\ at <= now /\ now \in Nat /\ chain \in Chains
      /\ faults \in Nat /\ faults' \in Nat
  <2>1. k \in Configs /\ at \in Nat /\ at <= now /\ now \in Nat
    BY <1>1, <1>2, ScriptTypes
  <2>2. chain \in Chains /\ faults \in Nat /\ faults' \in Nat
    BY LimiterAssumption DEF TypeInv, TypeOK
  <2> QED BY <2>1, <2>2
<1>4. new \notin admitted
  <2>1. SUFFICES ASSUME new \in admitted PROVE FALSE
    OBVIOUS
  <2>2. Past(new)
    BY <2>1 DEF TypeInv
  <2>3. k < k
    BY <1>1, <1>2, <2>2 DEF Past
  <2> QED BY <1>3, <2>3 DEF Configs
<1>5. /\ \A s \in Requests \ {r} : request'[s] = request[s]
      /\ \/ /\ Answer(k, at) >= 0 /\ faults' = faults /\ request'[r].pc # "refused"
            /\ admitted' = admitted \cup {new}
         \/ /\ Answer(k, at) < 0 /\ faults' = faults /\ admitted' = admitted
            /\ request'[r].pc = "refused" /\ request'[r].cfg = k /\ request'[r].at = at
         \/ faults' = faults + 1 /\ admitted' = admitted /\ request'[r].pc # "refused"
  BY <1>1 DEF Resolved
<1>6. admitted \subseteq admitted' /\ faults' >= faults
  BY <1>3, <1>5
<1>7. \A s : Of(s)' = Of(s)
  BY <1>2 DEF Of, Configs
<1>8. ASSUME NEW c \in Configs, c # k
      PROVE  hits'[c] = hits[c] /\ counts'[c] = counts[c]
  BY <1>2, <1>3, <1>8, OtherKeys
<1>9. ASSUME k \in Of("SLIDING_WINDOW")
      PROVE  SlidingScript(k, at, draw) /\ Cardinality(hits[k]) <= chain[k].limit
  BY <1>2, <1>9 DEF RunScript, Of, RefusalInv, Full
<1>10. ASSUME k \in Of("FIXED_WINDOW") PROVE FixedScript(k, at)
  BY <1>2, <1>10 DEF RunScript, Of
<1>11. Full'
  <2> SUFFICES ASSUME NEW c \in Of("SLIDING_WINDOW")
               PROVE  Cardinality(hits'[c]) <= chain[c].limit
    BY <1>2, <1>7 DEF Full
  <2>1. CASE c = k
    BY <1>3, <1>9, <2>1, SlidingAdds
  <2>2. CASE c # k
    BY <1>8, <2>2 DEF Of, RefusalInv, Full
  <2> QED BY <2>1, <2>2
<1>12. NotAhead'
  <2> SUFFICES ASSUME NEW c \in Of("FIXED_WINDOW"), NEW i \in Indices, counts'[c][i] > 0
               PROVE  i * chain[c].window <= now
    BY <1>2, <1>7 DEF NotAhead
  <2>1. CASE counts'[c][i] = counts[c][i]
    BY <2>1 DEF RefusalInv, NotAhead
  <2>2. CASE c = k /\ i = Index(c, at)
    <3>1. chain[c].window \in Nat /\ chain[c].window > 0
      BY <1>3, ConfigTypes DEF Of
    <3>2. i * chain[c].window <= at /\ i * chain[c].window \in Nat
      <4>1. i \in Nat /\ i = at \div chain[c].window
        BY <2>2, LimiterAssumption DEF Indices, Index
      <4>2. i * chain[c].window \in Nat
        BY <3>1, <4>1, Products
      <4> QED BY <1>3, <3>1, <4>1, <4>2, Division
    <3> QED BY <1>3, <3>2
  <2>3. CASE c # k
    BY <1>8, <2>1, <2>3 DEF Of
  <2>4. CASE c = k /\ i # Index(c, at)
    BY <1>3, <1>10, <2>1, <2>4, FixedAdds
  <2> QED BY <2>2, <2>3, <2>4
<1>13. ASSUME NEW c \in Of("FIXED_WINDOW"), NEW i \in Indices
       PROVE  counts'[c][i] <= Cardinality(Stampings(c, i)') + faults'
  <2>1. /\ Stampings(c, i) \subseteq Stampings(c, i)' /\ Cardinality(Stampings(c, i)) \in Nat
        /\ Cardinality(Stampings(c, i)') \in Nat
        /\ Cardinality(Stampings(c, i)) <= Cardinality(Stampings(c, i)')
    BY <1>2, <1>6, AdmissionsGrow
  <2>2. counts[c][i] <= Cardinality(Stampings(c, i)) + faults /\ counts[c][i] \in Nat
    BY DEF RefusalInv, Traced, TypeInv, TypeOK, Of
  <2>3. CASE counts'[c][i] = counts[c][i]
    BY <1>3, <1>6, <2>1, <2>2, <2>3
  <2>4. CASE c # k
    BY <1>8, <2>3, <2>4 DEF Of
  <2>5. CASE c = k
    <3>1. /\ i # Index(c, at) => counts'[c][i] = counts[c][i]
          /\ counts'[c][i] <= counts[c][i] + 1 /\ counts'[c][i] \in Nat
          /\ Answer(c, at) < 0 => counts'[c][i] = counts[c][i]
      BY <1>3, <1>10, <2>5, FixedAdds
    <3>2. CASE faults' = faults + 1
      BY <1>3, <2>1, <2>2, <3>1, <3>2
    <3>3. CASE i = Index(c, at) /\ faults' = faults /\ admitted' = admitted \cup {new}
      <4>1. new \in Stampings(c, i)' /\ new \notin Stampings(c, i)
        BY <1>1, <1>2, <1>4, <2>5, <3>3 DEF Stampings, Index
      <4>2. IsFiniteSet(Stampings(c, i)) /\ IsFiniteSet(Stampings(c, i)')
        <5>1. IsFiniteSet(admitted) /\ IsFiniteSet(admitted')
          BY DEF TypeInv
        <5>2. Stampings(c, i) \subseteq admitted /\ Stampings(c, i)' \subseteq admitted'
          BY DEF Stampings
        <5> QED BY <5>1, <5>2, FS_Subset
      <4>3. Cardinality(Stampings(c, i)) + 1 <= Cardinality(Stampings(c, i)')
        <5>1. Cardinality(Stampings(c, i) \cup {new}) = Cardinality(Stampings(c, i)) + 1
          BY <4>1, <4>2, FS_AddElement
        <5>2. Stampings(c, i) \cup {new} \subseteq Stampings(c, i)'
          BY <2>1, <4>1
        <5> QED BY <4>2, <5>1, <5>2, FS_Subset
      <4> QED BY <1>3, <2>1, <2>2, <3>1, <3>3, <4>3
    <3> QED BY <1>5, <2>3, <2>5, <3>1, <3>2, <3>3
  <2> QED BY <2>4, <2>5
<1>14. ASSUME NEW c \in Of("SLIDING_WINDOW"), NEW x \in Int
       PROVE  Cardinality(After(c, x)') <= Cardinality(Younger(c, x)') + faults'
  <2>1. IsFiniteSet(hits[c]) /\ IsFiniteSet(admitted) /\ IsFiniteSet(admitted')
    BY DEF TypeInv, Of
  <2>2. /\ IsFiniteSet(After(c, x)) /\ IsFiniteSet(Younger(c, x)) /\ IsFiniteSet(Younger(c, x)')
        /\ Younger(c, x) \subseteq Younger(c, x)'
    <3>1. /\ After(c, x) \subseteq hits[c] /\ Younger(c, x) \subseteq admitted
          /\ Younger(c, x)' \subseteq admitted'
      BY DEF After, Younger
    <3> QED BY <1>2, <1>6, <2>1, <3>1, FS_Subset, AdmissionsGrow
  <2>3. Cardinality(After(c, x)) <= Cardinality(Younger(c, x)) + faults
    BY DEF RefusalInv, Traced
  <2>4. \/ After(c, x)' \subseteq After(c, x)
        \/ /\ After(c, x)' \subseteq After(c, x) \cup {<<at, draw>>}
           /\ faults' = faults + 1 \/ (new \in Younger(c, x)' /\ new \notin Younger(c, x))
    <3>1. CASE c # k
      BY <1>8, <3>1 DEF Of, After
    <3>2. CASE c = k
      <4>1. /\ hits'[c] \subseteq hits[c] \cup {<<at, draw>>}
            /\ Answer(c, at) < 0 => hits'[c] \subseteq hits[c]
        BY <1>3, <1>9, <3>2, SlidingAdds
      <4>2. CASE hits'[c] \subseteq hits[c]
        BY <4>2 DEF After
      <4>3. CASE faults' = faults + 1
        BY <4>1, <4>3 DEF After
      <4>4. CASE admitted' = admitted \cup {new} /\ at > x
        <5>1. new \in Younger(c, x)' /\ new \notin Younger(c, x)
          BY <1>1, <1>4, <3>2, <4>4 DEF Younger
        <5> QED BY <4>1, <5>1 DEF After
      <4>5. CASE ~ (at > x)
        BY <4>1, <4>5 DEF After
      <4> QED BY <1>5, <3>2, <4>1, <4>2, <4>3, <4>4, <4>5
    <3> QED BY <3>1, <3>2
  <2>5. PICK S, T, U, V : /\ S = After(c, x) /\ T = Younger(c, x)
                          /\ U = After(c, x)' /\ V = Younger(c, x)'
    OBVIOUS
  <2>6. Cardinality(U) <= Cardinality(V) + faults'
    <3>1. /\ IsFiniteSet(S) /\ IsFiniteSet(T) /\ IsFiniteSet(V) /\ T \subseteq V
          /\ Cardinality(S) <= Cardinality(T) + faults
      BY <2>2, <2>3, <2>5
    <3>2. \/ U \subseteq S
          \/ U \subseteq S \cup {<<at, draw>>} /\ (faults' = faults + 1 \/ (new \in V /\ new \notin T))
      BY <2>4, <2>5
    <3> QED BY <1>3, <1>6, <3>1, <3>2, StillCovered
  <2> QED BY <2>5, <2>6
<1>15. Traced'
  BY <1>7, <1>13, <1>14 DEF Traced
<1>16. ASSUME Answer(k, at) < 0 PROVE Reached(k, at)
  <2>1. ASSUME k \in Of("FIXED_WINDOW")
        PROVE  Cardinality(Stampings(k, Index(k, at))) + faults >= chain[k].limit
    <3>1. Index(k, at) \in Indices
      BY <1>3, IndexType DEF TypeInv, TypeOK
    <3>2. Answer(k, at) = FixedAnswer(k, at)
      BY <2>1 DEF Answer, Of
    <3>3. Count(k, Index(k, at)) >= chain[k].limit /\ Count(k, Index(k, at)) \in Nat
      <4>1. /\ Count(k, Index(k, at)) \in Nat /\ FixedAnswer(k, at) \in Int
            /\ FixedAnswer(k, at) >= 0 <=> Count(k, Index(k, at)) < chain[k].limit
        BY <1>3, <2>1, FixedAnswers
      <4>2. chain[k].limit \in Nat /\ FixedAnswer(k, at) < 0
        BY <1>3, <1>16, <3>2, ConfigTypes
      <4> QED BY <4>1, <4>2
    <3>4. counts[k][Index(k, at)] \in Nat
      BY <1>3, <3>1 DEF TypeInv, TypeOK
    <3>5. counts[k][Index(k, at)] >= chain[k].limit
      <4>1. Count(k, Index(k, at)) <= counts[k][Index(k, at)]
        BY <3>4 DEF Count
      <4>2. chain[k].limit \in Nat
        BY <1>3, ConfigTypes
      <4> QED BY <3>3, <3>4, <4>1, <4>2
    <3>6. counts[k][Index(k, at)] <= Cardinality(Stampings(k, Index(k, at))) + faults
      BY <2>1, <3>1 DEF RefusalInv, Traced
    <3>7. Cardinality(Stampings(k, Index(k, at))) \in Nat /\ chain[k].limit \in Nat
      BY <1>2, <1>3, <1>6, AdmissionsGrow, ConfigTypes
    <3> QED BY <1>3, <3>4, <3>5, <3>6, <3>7
  <2>2. ASSUME k \in Of("SLIDING_WINDOW")
        PROVE  Cardinality(Younger(k, at - chain[k].window)) + faults >= chain[k].limit
    <3>1. Answer(k, at) = SlidingAnswer(k, at)
      BY <2>2 DEF Answer, Of
    <3>2. /\ chain[k].window \in Nat /\ chain[k].limit \in Nat
          /\ IsFiniteSet(hits[k])
      BY <1>3, ConfigTypes DEF TypeInv
    <3>3. ~ (Cardinality(Kept(k, at)) < chain[k].limit) /\ Cardinality(Kept(k, at)) \in Nat
      BY <1>3, <1>16, <2>2, <3>1, SlidingAnswers
    <3>4. PICK x \in Int : x = at - chain[k].window
      BY <1>3, <3>2
    <3>5. Kept(k, at) \subseteq After(k, x) /\ After(k, x) \subseteq hits[k]
      BY <3>4 DEF Kept, After
    <3>6. Cardinality(Kept(k, at)) <= Cardinality(After(k, x)) /\ Cardinality(After(k, x)) \in Nat
      BY <3>2, <3>5, FS_Subset, FS_CardinalityType
    <3>7. Cardinality(After(k, x)) <= Cardinality(Younger(k, x)) + faults
      BY <2>2 DEF RefusalInv, Traced
    <3>8. Cardinality(Younger(k, x)) \in Nat
      BY <1>2, <1>6, AdmissionsGrow
    <3> QED BY <1>3, <3>2, <3>3, <3>4, <3>6, <3>7, <3>8
  <2> QED BY <2>1, <2>2 DEF Reached
<1>17. Justified'
  <2> SUFFICES ASSUME NEW s \in Requests, NEW c, NEW a,
                      request'[s].pc = "refused", request'[s].cfg = c, request'[s].at = a
               PROVE  Reached(c, a)'
    BY DEF Justified
  <2>1. Reached(c, a)
    <3>1. CASE s # r
      <4>1. request'[s] = request[s]
        BY <1>5, <3>1
      <4> QED BY <4>1 DEF RefusalInv, Justified
    <3>2. CASE s = r
      BY <1>5, <1>16, <3>2
    <3> QED BY <3>1, <3>2
  <2> QED BY <1>2, <1>6, <2>1, ReachedStays
<1> QED BY <1>11, <1>12, <1>15, <1>17 DEF RefusalInv

LEMMA RefusalInit == Init => RefusalInv
<1> SUFFICES ASSUME Init PROVE RefusalInv
  OBVIOUS
<1>1. TypeInv /\ now = 0 /\ faults = 0 /\ admitted = {}
  BY TypeInit DEF Init
<1>2. /\ \A c \in Configs : hits[c] = {} /\ \A i \in Indices : counts[c][i] = 0
      /\ \A s : Of(s) \subseteq Configs
      /\ \A r \in Requests : request[r].pc = "check"
  BY DEF Init, Of
<1>3. Cardinality({}) = 0
  BY FS_EmptySet
<1>4. Full
  <2> SUFFICES ASSUME NEW c \in Of("SLIDING_WINDOW") PROVE Cardinality(hits[c]) <= chain[c].limit
    BY DEF Full
  <2>1. c \in Configs /\ chain \in Chains
    BY <1>1, <1>2 DEF TypeInv, TypeOK
  <2>2. chain[c].limit \in Nat /\ hits[c] = {}
    BY <1>2, <2>1, ConfigTypes
  <2> QED BY <1>3, <2>2
<1>5. NotAhead
  BY <1>2 DEF NotAhead
<1>6. Traced
  <2>1. ASSUME NEW c \in Of("FIXED_WINDOW"), NEW i \in Indices
        PROVE  counts[c][i] <= Cardinality(Stampings(c, i)) + faults
    <3>1. Stampings(c, i) = {} /\ counts[c][i] = 0
      BY <1>1, <1>2 DEF Stampings
    <3> QED BY <1>1, <1>3, <3>1
  <2>2. ASSUME NEW c \in Of("SLIDING_WINDOW"), NEW x \in Int
        PROVE  Cardinality(After(c, x)) <= Cardinality(Younger(c, x)) + faults
    <3>1. After(c, x) = {} /\ Younger(c, x) = {}
      BY <1>1, <1>2 DEF After, Younger
    <3> QED BY <1>1, <1>3, <3>1
  <2> QED BY <2>1, <2>2 DEF Traced
<1> QED BY <1>2, <1>4, <1>5, <1>6 DEF RefusalInv, Justified

LEMMA RefusalFollows == TypeInv /\ RefusalInv => RefusedOnlyAtLimit
<1> SUFFICES ASSUME TypeInv, RefusalInv, NEW r \in Requests, NEW c, NEW at,
                    c = request[r].cfg, at = request[r].at,
                    request[r].pc = "refused", c \notin Of("TOKEN_BUCKET")
             PROVE  Cardinality({a \in admitted : a.cfg = c
                      /\ \/ c \in Of("FIXED_WINDOW") /\ Index(c, a.at) = Index(c, at)
                         \/ c \in Of("SLIDING_WINDOW") /\ a.at > at - chain[c].window})
                    + faults >= chain[c].limit
  BY DEF RefusedOnlyAtLimit
<1>1. Reached(c, at)
  BY DEF RefusalInv, Justified
<1>2. c \in Configs /\ chain[c].strategy \in Strategies
  BY RequestTypes, ConfigTypes DEF TypeInv, TypeOK, Stamped
<1>3. CASE c \in Of("FIXED_WINDOW")
  <2>1. c \notin Of("SLIDING_WINDOW")
    BY <1>3 DEF Of
  <2>2. {a \in admitted : a.cfg = c
           /\ \/ c \in Of("FIXED_WINDOW") /\ Index(c, a.at) = Index(c, at)
              \/ c \in Of("SLIDING_WINDOW") /\ a.at > at - chain[c].window}
        = Stampings(c, Index(c, at))
    BY <1>3, <2>1 DEF Stampings
  <2> QED BY <1>1, <1>3, <2>2 DEF Reached
<1>4. CASE c \in Of("SLIDING_WINDOW")
  <2>1. c \notin Of("FIXED_WINDOW")
    BY <1>4 DEF Of
  <2>2. {a \in admitted : a.cfg = c
           /\ \/ c \in Of("FIXED_WINDOW") /\ Index(c, a.at) = Index(c, at)
              \/ c \in Of("SLIDING_WINDOW") /\ a.at > at - chain[c].window}
        = Younger(c, at - chain[c].window)
    BY <1>4, <2>1 DEF Younger
  <2> QED BY <1>1, <1>4, <2>2 DEF Reached
<1> QED BY <1>2, <1>3, <1>4 DEF Of, Strategies

LEMMA RefusalsInvariant == Spec => [](TypeInv /\ RefusalInv)
<1>1. Init => TypeInv /\ RefusalInv
  BY TypeInit, RefusalInit
<1>2. TypeInv /\ RefusalInv /\ [Next]_vars => (TypeInv /\ RefusalInv)'
  <2> SUFFICES ASSUME TypeInv, RefusalInv, [Next]_vars PROVE TypeInv' /\ RefusalInv'
    OBVIOUS
  <2>1. TypeInv'
    BY NextTyped
  <2>2. CASE (Quiet \/ Ticks) /\ NoneRefused
    BY <2>1, <2>2, RefusalQuiet
  <2>3. ASSUME NEW r \in Requests, NEW draw \in DrawsOf(request[r].cfg), Ran(r, draw), Resolved(r, draw)
        PROVE  RefusalInv'
    BY <2>1, <2>3, RefusalRan
  <2> QED BY <2>1, <2>2, <2>3, StepOutcomes
<1> QED BY <1>1, <1>2, PTL DEF Spec

(* A window refuses a request only when it has let its limit of others pass,  *)
(* or as many as its limit with the checks that failed: the entries of a      *)
(* sorted set and the counter of a window are admissions, or scripts whose     *)
(* answer was lost, and a refused request adds nothing.                       *)
THEOREM RefusalsAreDue == Spec => []RefusedOnlyAtLimit
  BY RefusalsInvariant, RefusalFollows, PTL

-----------------------------------------------------------------------------
(* The time to wait.                                                          *)

LEMMA WholeDivision ==
  ASSUME NEW n \in Nat, NEW w \in Nat, w > 0
  PROVE  n * w \in Nat /\ (n * w) \div w = n
<1>1. \A a, b \in Nat : a < b => a * w + w <= b * w
  <2> SUFFICES ASSUME NEW a \in Nat, NEW b \in Nat, a < b PROVE a * w + w <= b * w
    OBVIOUS
  <2>1. PICK d \in Nat : b = a + 1 + d
    <3>1. b - a - 1 \in Nat /\ b = a + 1 + (b - a - 1)
      OBVIOUS
    <3> QED BY <3>1
  <2>2. b * w = a * w + w + d * w
    BY <2>1
  <2>3. a * w \in Nat /\ d * w \in Nat
    BY Products
  <2> QED BY <2>2, <2>3
<1>2. PICK q \in Nat : q = (n * w) \div w /\ q * w <= n * w /\ n * w < q * w + w
  BY Products, Division
<1>3. n * w \in Nat /\ q * w \in Nat
  BY Products
<1>4. ~ (q < n)
  BY <1>1, <1>2, <1>3
<1>5. ~ (n < q)
  BY <1>1, <1>2, <1>3
<1> QED BY <1>2, <1>3, <1>4, <1>5

LEMMA RetrySliding ==
  ASSUME TypeInv, Full, NEW c \in Of("SLIDING_WINDOW"), SlidingAnswer(c, now) < 0
  PROVE  SlidingAnswer(c, now - SlidingAnswer(c, now)) >= 0
<1>1. PICK w, limit, K : w = chain[c].window /\ limit = chain[c].limit /\ K = Kept(c, now)
  OBVIOUS
<1>2. c \in Configs /\ w \in Nat /\ limit \in Nat /\ now \in Nat
  <2>1. c \in Configs /\ chain \in Chains /\ now \in Nat
    BY LimiterAssumption DEF Of, TypeInv, TypeOK
  <2> QED BY <1>1, <2>1, ConfigTypes
<1>3. /\ IsFiniteSet(K) /\ Cardinality(K) \in Nat /\ Cardinality(K) >= limit
      /\ Oldest(K) \in {h[1] : h \in K}
  <2>1. ~ (SlidingAnswer(c, now) >= 0)
    BY <1>2, SlidingAnswers
  <2>2. IsFiniteSet(K) /\ Cardinality(K) \in Nat /\ ~ (Cardinality(K) < limit)
    BY <1>1, <1>2, <2>1, SlidingAnswers
  <2> QED BY <1>1, <1>2, <2>2, SlidingAnswers
<1>4. PICK e \in K : Oldest(K) = e[1]
  BY <1>3
<1>5. K \subseteq hits[c] /\ e[1] \in Nat /\ e[1] > now - w
  <2>1. hits[c] \subseteq Nat \X Draws
    BY <1>2 DEF TypeInv, TypeOK
  <2> QED BY <1>1, <2>1 DEF Kept
<1>6. Cardinality(K) = limit
  <2>1. IsFiniteSet(hits[c]) /\ Cardinality(hits[c]) <= limit
    BY <1>1, <1>2 DEF TypeInv, Full
  <2>2. Cardinality(K) <= Cardinality(hits[c]) /\ Cardinality(hits[c]) \in Nat
    BY <1>5, <2>1, FS_Subset, FS_CardinalityType
  <2> QED BY <1>2, <1>3, <2>1, <2>2
<1>7. SlidingAnswer(c, now) = -(e[1] + w - now)
  BY <1>1, <1>2, <1>3, <1>4 DEF SlidingAnswer
<1>8. PICK at \in Nat : at = now - SlidingAnswer(c, now) /\ at = e[1] + w
  BY <1>2, <1>5, <1>7
<1>9. Kept(c, at) \subseteq K \ {e}
  <2>1. \A h \in hits[c] : h[1] \in Nat
    BY <1>2 DEF TypeInv, TypeOK
  <2>2. ASSUME NEW h \in Kept(c, at) PROVE h \in K /\ h # e
    <3>1. h \in hits[c] /\ Live(c, 0) /\ h[1] > at - w
      BY <1>1 DEF Kept
    <3>2. h[1] > e[1] /\ h[1] \in Nat
      BY <1>2, <1>5, <1>8, <2>1, <3>1
    <3>3. h[1] > now - w
      BY <1>2, <1>5, <3>2
    <3> QED BY <1>1, <1>5, <3>1, <3>2, <3>3 DEF Kept
  <2> QED BY <2>2
<1>10. Cardinality(Kept(c, at)) < limit
  <2>1. IsFiniteSet(K \ {e}) /\ Cardinality(K \ {e}) = Cardinality(K) - 1
    BY <1>3, FS_RemoveElement
  <2>2. Cardinality(Kept(c, at)) <= Cardinality(K \ {e}) /\ Cardinality(Kept(c, at)) \in Nat
    BY <1>9, <2>1, FS_Subset, FS_CardinalityType
  <2> QED BY <1>2, <1>3, <1>6, <2>1, <2>2
<1> QED BY <1>1, <1>8, <1>10, SlidingAnswers

LEMMA RetryFixed ==
  ASSUME TypeInv, NotAhead, NEW c \in Of("FIXED_WINDOW"), FixedAnswer(c, now) < 0
  PROVE  FixedAnswer(c, now - FixedAnswer(c, now)) >= 0
<1>1. PICK w, i : w = chain[c].window /\ i = Index(c, now)
  OBVIOUS
<1>2. /\ c \in Configs /\ w \in Nat /\ w > 0 /\ now \in Nat /\ now <= MaxNow /\ MaxNow \in Nat
      /\ chain[c].limit \in Nat /\ chain[c].limit > 0
  <2>1. c \in Configs /\ chain \in Chains /\ now \in Nat /\ now <= MaxNow /\ MaxNow \in Nat
    BY LimiterAssumption DEF Of, TypeInv, TypeOK
  <2> QED BY <1>1, <2>1, ConfigTypes
<1>3. i \in Nat /\ i <= now /\ i * w \in Nat /\ i * w <= now /\ now < i * w + w
  <2>1. i = now \div w
    BY <1>1 DEF Index
  <2> QED BY <1>2, <2>1, Division, Products
<1>4. PICK at \in Nat : at = (i + 1) * w /\ at = i * w + w /\ at \div w = i + 1
  <2>1. i + 1 \in Nat /\ (i + 1) * w = i * w + w
    BY <1>2, <1>3
  <2> QED BY <1>2, <2>1, WholeDivision
<1>5. now - FixedAnswer(c, now) = at
  <2>1. FixedAnswer(c, now) = IF Count(c, i) < chain[c].limit THEN at ELSE -(at - now)
    BY <1>1, <1>4 DEF FixedAnswer
  <2> QED BY <1>2, <2>1
<1>6. i + 1 \in Indices /\ i + 1 \in Nat
  BY <1>2, <1>3 DEF Indices
<1>7. counts[c][i + 1] = 0
  <2>1. counts[c][i + 1] \in Nat
    BY <1>2, <1>6 DEF TypeInv, TypeOK
  <2>2. ~ (at <= now)
    BY <1>2, <1>3, <1>4
  <2> QED BY <1>1, <1>4, <1>6, <2>1, <2>2 DEF NotAhead
<1>8. Index(c, at) = i + 1 /\ Count(c, i + 1) = 0
  BY <1>1, <1>4, <1>7 DEF Index, Count
<1>9. FixedAnswer(c, at) = (i + 1 + 1) * w
  BY <1>1, <1>2, <1>8 DEF FixedAnswer
<1>10. (i + 1 + 1) * w \in Nat
  BY <1>2, <1>6, Products
<1> QED BY <1>5, <1>9, <1>10

LEMMA RetryBucket ==
  ASSUME TypeInv, NEW c \in Of("TOKEN_BUCKET"), BucketAnswer(c, now) < 0
  PROVE  BucketAnswer(c, now - BucketAnswer(c, now)) >= 0
<1>1. PICK cap, refill, level, last : /\ cap = Capacity(c) /\ refill = chain[c].refill
                                      /\ level = bucket[c].level /\ last = bucket[c].last
  OBVIOUS
<1>2. /\ cap \in Nat /\ refill \in Nat /\ refill > 0 /\ refill <= cap /\ now \in Nat
      /\ level \in Int /\ last \in Int
  <2>1. c \in Configs /\ chain \in Chains /\ now \in Nat
    BY LimiterAssumption DEF Of, TypeInv, TypeOK
  <2>2. bucket[c] \in [level : Int, last : Int]
    BY <2>1 DEF TypeInv, TypeOK
  <2> QED BY <1>1, <2>1, <2>2, ConfigTypes
<1>3. Live(c, 0) /\ level + (now - last) < refill /\ BucketAnswer(c, now) = level + (now - last) - refill
  <2>1. CASE ~ Live(c, 0)
    <3>1. Level(c, now) = cap
      BY <1>1, <1>2, <2>1 DEF Level, Hash, Least
    <3> QED BY <1>1, <1>2, <3>1 DEF BucketAnswer
  <2>2. CASE Live(c, 0)
    <3>1. Level(c, now) = IF cap <= level + (now - last) THEN cap ELSE level + (now - last)
      BY <1>1, <2>2 DEF Level, Hash, Least
    <3> QED BY <1>1, <1>2, <2>2, <3>1 DEF BucketAnswer
  <2> QED BY <2>1, <2>2
<1>4. PICK at \in Int : at = now - BucketAnswer(c, now) /\ level + (at - last) = refill
  BY <1>2, <1>3
<1>5. Level(c, at) = IF cap <= level + (at - last) THEN cap ELSE level + (at - last)
  BY <1>1, <1>3 DEF Level, Hash, Least
<1>6. Level(c, at) >= refill
  BY <1>2, <1>4, <1>5
<1> QED BY <1>1, <1>4, <1>6 DEF BucketAnswer

LEMMA RetryFollows == TypeInv /\ RefusalInv => RetryAfterSuffices
<1> SUFFICES ASSUME TypeInv, RefusalInv, NEW c \in Configs, NEW a, a = Answer(c, now), a < 0
             PROVE  Answer(c, now - a) >= 0
  BY DEF RetryAfterSuffices
<1>1. chain[c].strategy \in Strategies
  BY ConfigTypes DEF TypeInv, TypeOK
<1>2. CASE chain[c].strategy = "SLIDING_WINDOW"
  BY <1>2, RetrySliding DEF Answer, Of, RefusalInv
<1>3. CASE chain[c].strategy = "FIXED_WINDOW"
  BY <1>3, RetryFixed DEF Answer, Of, RefusalInv
<1>4. CASE chain[c].strategy = "TOKEN_BUCKET"
  BY <1>4, RetryBucket DEF Answer, Of
<1> QED BY <1>1, <1>2, <1>3, <1>4 DEF Strategies

(* The time a refused client is told to wait is long enough: by then the       *)
(* oldest entry has left the sorted set, the next window has begun with        *)
(* nothing counted in it, or the token that is missing has been refilled.      *)
THEOREM RetryAfterIsEnough == Spec => []RetryAfterSuffices
  BY RefusalsInvariant, RetryFollows, TypeAlways, PTL
=============================================================================
