------------------------------ MODULE RateLimiter ------------------------------
(***************************************************************************)
(* The rate limiter, for one client.  A request goes through the           *)
(* configurations that match it, by priority, until one refuses it.  A     *)
(* check reads the clock of its API process and then runs a Lua script in  *)
(* Redis, which is one step.  In between, the scripts of other processes   *)
(* run: scripts run out of the order of their time stamps, which are up to *)
(* MAX_DELAY behind.  A check that fails is skipped.                       *)
(*                                                                         *)
(* In the unit of time of the model the window of a configuration lasts    *)
(* `window' and a bucket refills a token in `refill'.  The level of a      *)
(* bucket is counted in the same unit: a token is `refill' of it.          *)
(***************************************************************************)
EXTENDS Integers, Sequences, FiniteSets

CONSTANTS
  Chains,         \* lists of configurations a client may be matched with
  Requests,
  Draws,          \* values of math.random in the sliding-window script
  MAX_DELAY,      \* from the time stamp of a check to its script
  GRACE,          \* the second added to every PEXPIRE
  MaxNow,         \* bound on the clock
  MaxFaults       \* bound on failed checks

Strategies == {"SLIDING_WINDOW", "FIXED_WINDOW", "TOKEN_BUCKET"}

Config == [strategy : Strategies, limit : Nat \ {0}, window : Nat \ {0}, refill : Nat \ {0}]

ASSUME LimiterAssumption ==
  /\ Chains \subseteq Seq(Config) \ {<<>>}
  /\ Draws # {}
  /\ MAX_DELAY \in Nat /\ GRACE \in Nat /\ MAX_DELAY <= GRACE
  /\ MaxNow \in Nat /\ MaxFaults \in Nat

VARIABLES
  chain,      \* the configurations that match the client
  now,        \* the clock, of Redis as well
  hits,       \* sorted set of a sliding window: <<score, draw>>
  counts,     \* counters of a fixed window, by index of the window
  bucket,     \* hash of a token bucket
  expires,    \* when each key expires, by index of the window for a fixed one
  request,    \* what each request is doing
  admitted,   \* history of the checks that let their request pass
  faults

store == <<hits, counts, bucket, expires>>
vars == <<chain, now, store, request, admitted, faults>>

Configs == 1..Len(chain)
Of(strategy) == {c \in Configs : chain[c].strategy = strategy}
Indices == 0..(MaxNow + 1)

NoHash == [level |-> 0, last |-> -1]

RequestRecord == [pc : {"check", "script", "allowed", "refused"}, cfg : Nat, at : Nat]

Admission == [cfg : Nat, time : Nat, at : Nat, draw : Draws, request : Requests]

TypeOK ==
  /\ chain \in Chains
  /\ now \in 0..MaxNow /\ faults \in 0..MaxFaults
  /\ hits \in [Configs -> SUBSET (Nat \X Draws)]
  /\ counts \in [Configs -> [Indices -> Nat]]
  /\ bucket \in [Configs -> [level : Int, last : Int]]
  /\ \A c \in Of("TOKEN_BUCKET") : bucket[c].level <= chain[c].limit * chain[c].refill
  /\ expires \in [Configs -> [Indices -> Nat]]
  /\ request \in [Requests -> RequestRecord]
  /\ admitted \subseteq Admission

Init ==
  /\ chain \in Chains
  /\ now = 0 /\ faults = 0 /\ admitted = {}
  /\ hits = [c \in Configs |-> {}]
  /\ counts = [c \in Configs |-> [i \in Indices |-> 0]]
  /\ bucket = [c \in Configs |-> NoHash]
  /\ expires = [c \in Configs |-> [i \in Indices |-> 0]]
  /\ request = [r \in Requests |-> [pc |-> "check", cfg |-> 1, at |-> 0]]

Least(a, b) == IF a <= b THEN a ELSE b

-----------------------------------------------------------------------------
(* The Lua scripts, with the clock value `at' as their argument.  A script   *)
(* answers with a negative number, the time to wait, to refuse.             *)

Live(c, i) == expires[c][i] > now

(* What ZREMRANGEBYSCORE leaves. *)
Kept(c, at) == {h \in hits[c] : Live(c, 0) /\ h[1] > at - chain[c].window}

Oldest(entries) == CHOOSE s \in {h[1] : h \in entries} : \A h \in entries : s <= h[1]

SlidingAnswer(c, at) ==
  IF Cardinality(Kept(c, at)) < chain[c].limit THEN at
  ELSE -(Oldest(Kept(c, at)) + chain[c].window - at)

Expiry(c) == now + chain[c].window + GRACE

(* Variant: a refused request is added to the window, too. *)
SlidingScriptAddsAll(c, at, draw) ==
  /\ hits' = [hits EXCEPT ![c] = Kept(c, at) \cup {<<at, draw>>}]
  /\ expires' = [expires EXCEPT ![c][0] = Expiry(c)]
  /\ UNCHANGED <<counts, bucket>>

SlidingScript(c, at, draw) ==
  /\ \/ /\ SlidingAnswer(c, at) >= 0
        /\ hits' = [hits EXCEPT ![c] = Kept(c, at) \cup {<<at, draw>>}]
        /\ expires' = [expires EXCEPT ![c][0] = Expiry(c)]
     \/ /\ SlidingAnswer(c, at) < 0
        /\ hits' = [hits EXCEPT ![c] = Kept(c, at)]
        /\ UNCHANGED expires
  /\ UNCHANGED <<counts, bucket>>

Index(c, at) == at \div chain[c].window

Count(c, i) == IF Live(c, i) THEN counts[c][i] ELSE 0

FixedAnswer(c, at) ==
  LET i == Index(c, at)
      end == (i + 1) * chain[c].window
  IN  IF Count(c, i) < chain[c].limit THEN end ELSE -(end - at)

FixedScript(c, at) ==
  LET i == Index(c, at)
  IN  /\ IF FixedAnswer(c, at) >= 0
         THEN /\ counts' = [counts EXCEPT ![c][i] = Count(c, i) + 1]
              /\ expires' = IF Count(c, i) = 0
                            THEN [expires EXCEPT ![c][i] = Expiry(c)] ELSE expires
         ELSE UNCHANGED <<counts, expires>>
      /\ UNCHANGED <<hits, bucket>>

Capacity(c) == chain[c].limit * chain[c].refill

Hash(c, at) ==
  IF Live(c, 0) THEN bucket[c] ELSE [level |-> Capacity(c), last |-> at]

(* Variant: time that seems to run backwards refills nothing. *)
LevelForward(c, at) ==
  LET hash == Hash(c, at)
  IN  Least(Capacity(c), hash.level + IF at > hash.last THEN at - hash.last ELSE 0)

(* The time since the last refill is negative when scripts run out of order. *)
Level(c, at) == Least(Capacity(c), Hash(c, at).level + (at - Hash(c, at).last))

(* Variant: the tokens that are missing, not the time they take. *)
BucketAnswerInTokens(c, at) == IF Level(c, at) >= chain[c].refill THEN 0 ELSE -1

BucketAnswer(c, at) ==
  IF Level(c, at) >= chain[c].refill THEN 0 ELSE -(chain[c].refill - Level(c, at))

BucketScript(c, at) ==
  LET taken == IF BucketAnswer(c, at) >= 0 THEN chain[c].refill ELSE 0
  IN  /\ bucket' = [bucket EXCEPT ![c] = [level |-> Level(c, at) - taken, last |-> at]]
      /\ expires' = [expires EXCEPT ![c][0] = now + Capacity(c) + GRACE]
      /\ UNCHANGED <<hits, counts>>

Answer(c, at) ==
  CASE chain[c].strategy = "SLIDING_WINDOW" -> SlidingAnswer(c, at)
    [] chain[c].strategy = "FIXED_WINDOW" -> FixedAnswer(c, at)
    [] chain[c].strategy = "TOKEN_BUCKET" -> BucketAnswer(c, at)

(* Only the sliding-window script draws. *)
DrawsOf(c) == IF c \in Of("SLIDING_WINDOW") THEN Draws ELSE {CHOOSE draw \in Draws : TRUE}

RunScript(c, at, draw) ==
  \/ c \in Of("SLIDING_WINDOW") /\ SlidingScript(c, at, draw)
  \/ c \in Of("FIXED_WINDOW") /\ FixedScript(c, at)
  \/ c \in Of("TOKEN_BUCKET") /\ BucketScript(c, at)

-----------------------------------------------------------------------------
(* RateLimiterService.check and the middleware. *)

(* The strategy reads the clock. *)
Stamp(r) ==
  /\ request[r].pc = "check"
  /\ request' = [request EXCEPT ![r].pc = "script", ![r].at = now]
  /\ UNCHANGED <<chain, now, store, admitted, faults>>

Passed(r) ==
  IF request[r].cfg = Len(chain) THEN [request[r] EXCEPT !.pc = "allowed"]
  ELSE [pc |-> "check", cfg |-> request[r].cfg + 1, at |-> request[r].at]

Script(r) ==
  LET c == request[r].cfg
      at == request[r].at
  IN
  /\ request[r].pc = "script"
  /\ \E draw \in DrawsOf(c) :
       /\ RunScript(c, at, draw)
       /\ \/ /\ Answer(c, at) >= 0
             /\ request' = [request EXCEPT ![r] = Passed(r)]
             /\ admitted' = admitted \cup {[cfg |-> c, time |-> now, at |-> at,
                                            draw |-> draw, request |-> r]}
          \/ /\ Answer(c, at) < 0
             /\ request' = [request EXCEPT ![r].pc = "refused"]
             /\ UNCHANGED admitted
  /\ UNCHANGED <<chain, now, faults>>

(* Redis fails: the configuration is skipped.  Its script has run, and only  *)
(* the answer is lost, or it has not.                                       *)
CheckFails(r) ==
  /\ request[r].pc = "script"
  /\ faults < MaxFaults /\ faults' = faults + 1
  /\ request' = [request EXCEPT ![r] = Passed(r)]
  /\ \/ UNCHANGED store
     \/ \E draw \in DrawsOf(request[r].cfg) : RunScript(request[r].cfg, request[r].at, draw)
  /\ UNCHANGED <<chain, now, admitted>>

(* The configurations cannot be read: the middleware lets the request pass. *)
FailOpen(r) ==
  /\ request[r].pc = "check" /\ request[r].cfg = 1
  /\ faults < MaxFaults /\ faults' = faults + 1
  /\ request' = [request EXCEPT ![r].pc = "allowed"]
  /\ UNCHANGED <<chain, now, store, admitted>>

Tick ==
  /\ now < MaxNow
  /\ \A r \in Requests : request[r].pc = "script" => now < request[r].at + MAX_DELAY
  /\ now' = now + 1
  /\ UNCHANGED <<chain, store, request, admitted, faults>>

Next ==
  \/ Tick
  \/ \E r \in Requests : Stamp(r) \/ Script(r) \/ CheckFails(r) \/ FailOpen(r)

Spec == Init /\ [][Next]_vars

-----------------------------------------------------------------------------
(* Properties. *)

AdmittedBy(c, from, to) == {a \in admitted : a.cfg = c /\ a.time \in from..to}

Times == {a.time : a \in admitted}

(* A sliding window lets at most `limit' requests pass in any interval       *)
(* shorter than the window by the delay, although stale scripts run after   *)
(* newer ones have removed what they would still count.  Requests with the  *)
(* same time stamp and random number are one entry of the window.           *)
SlidingBound ==
  \A c \in Of("SLIDING_WINDOW") : \A from, to \in Times :
    to - from < chain[c].window - MAX_DELAY
    => Cardinality({<<a.at, a.draw>> : a \in AdmittedBy(c, from, to)}) <= chain[c].limit

(* A fixed window counts every request stamped in it, late ones included:    *)
(* its counter does not expire before they have come.                       *)
FixedBound ==
  \A c \in Of("FIXED_WINDOW") : \A i \in Indices :
    Cardinality({a \in admitted : a.cfg = c /\ Index(c, a.at) = i}) <= chain[c].limit

(* A bucket lets no more requests pass in an interval than it holds tokens   *)
(* and refills in the interval and the delay, in whatever order the scripts *)
(* run.                                                                     *)
BucketBound ==
  \A c \in Of("TOKEN_BUCKET") : \A from, to \in Times :
    from <= to =>
    Cardinality(AdmittedBy(c, from, to)) * chain[c].refill
      <= Capacity(c) + (to - from) + MAX_DELAY

(* The counters, sorted sets and buckets are well formed, and each strategy   *)
(* keeps its limit, with scripts out of the order of their time stamps,      *)
(* expiring keys and checks that fail (SCRIPT of the three strategies).      *)
LimitsKept == TypeOK /\ SlidingBound /\ FixedBound /\ BucketBound

(* Retry-After is long enough: a client refused now and let in by no one     *)
(* else's request passes the configuration after the time it was told.      *)
RetryAfterSuffices ==
  \A c \in Configs : Answer(c, now) < 0 => Answer(c, now - Answer(c, now)) >= 0

(* A window refuses a request only when it has let `limit' others pass that  *)
(* it still counts, or a failed check hides one: refused requests do not    *)
(* keep a client out.                                                       *)
RefusedOnlyAtLimit ==
  \A r \in Requests :
    LET c == request[r].cfg
        at == request[r].at
        Counted == {a \in admitted : a.cfg = c
                      /\ \/ c \in Of("FIXED_WINDOW") /\ Index(c, a.at) = Index(c, at)
                         \/ c \in Of("SLIDING_WINDOW") /\ a.at > at - chain[c].window}
    IN  request[r].pc = "refused" /\ c \notin Of("TOKEN_BUCKET")
        => Cardinality(Counted) + faults >= chain[c].limit
=============================================================================
