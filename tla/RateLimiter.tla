---------------------------- MODULE RateLimiter ------------------------------
(***************************************************************************)
(* The three rate limiters of the API, each with its own way of counting:  *)
(*   bucket    token buckets (internal/api/middleware/ratelimit.go), which *)
(*             are looked up under a lock and used without one;            *)
(*   visitors  requests since a client was last idle (api/middleware.go);  *)
(*   window    requests per window of an API key (auth/apikey.go).         *)
(* A behaviour is one of one limiter.  Buckets of clients and of users     *)
(* have the same code: a key is "global", or one of either.  Tokens are    *)
(* whole, as is time; a float or a time.Time is loaded and stored as a     *)
(* whole too.                                                              *)
(***************************************************************************)
EXTENDS Integers, FiniteSetsExt, SequencesExt

CONSTANTS
  Chains,       \* the buckets that a request goes through, in order
  Slots,        \* requests at the same time
  Burst, Rate,  \* of every bucket: tokens, tokens per unit of time
  Interval,     \* cleanupInterval
  Limit,        \* requests per window of the other two limiters
  Window,
  MaxTime,      \* bound: time
  MaxRequests,  \* bound: requests at the buckets,
  MaxCounted    \* and at one of the other two

Keys == UNION {Range(c) : c \in Chains}

ASSUME RateAssumption ==
  /\ {Burst, Rate, Interval, Limit, Window, MaxTime, MaxRequests, MaxCounted} \subseteq Nat
  /\ Rate * 2 * Interval >= Burst     \* a bucket that goes is full by then
  /\ Chains \subseteq Seq(Keys) \ {<<>>}
  /\ IsFiniteSet(Keys) /\ IsFiniteSet(Slots)

VARIABLES
  kind,         \* which limiter
  now,
  bucket,       \* the buckets: tokens, last refill
  table,        \* bucket of a key, 0 for none
  lastCleanup,
  req,          \* requests inside the bucket limiter
  entry,        \* visitor, or window: count and lastSeen, or windowStart; 0 for none
  arrived,
  passed,       \* history: tokens taken per key; Excused once two requests used its
                \* bucket at once, or it was reset
  admitted      \* history: when each request was admitted, in order

bucketVars == <<bucket, table, lastCleanup, req, passed>>
limitVars == <<kind, now, bucketVars, entry, arrived, admitted>>

Ids == 1 .. (Cardinality(Keys) + Cardinality(Slots))
None == [count |-> 0, since |-> 0]
Idle == [pc |-> "idle", chain |-> <<>>, b |-> 0, at |-> 0, tok |-> 0]
Full == [tokens |-> Burst, last |-> now]

LimitInit ==
  /\ kind \in {"bucket", "visitors", "window"}
  /\ now = 0 /\ lastCleanup = 0
  /\ bucket = [i \in Ids |-> [tokens |-> Burst, last |-> 0]]
  /\ table = [k \in Keys |-> IF k = "global" THEN 1 ELSE 0]
  /\ req = [s \in Slots |-> Idle]
  /\ entry = None /\ arrived = 0
  /\ passed = [k \in Keys |-> 0]
  /\ admitted = <<>>

Tick ==
  /\ now < MaxTime /\ now' = now + 1
  /\ UNCHANGED <<kind, bucketVars, entry, arrived, admitted>>

Arrival ==
  /\ arrived < IF kind = "bucket" THEN MaxRequests ELSE MaxCounted
  /\ arrived' = arrived + 1
-----------------------------------------------------------------------------
(* Token buckets *)

Bucket(s) == bucket[req[s].b]
Key(s) == Head(req[s].chain)
Inside(s) == req[s].pc \notin {"idle", "find"}
Excused == -1
Excuse(ks) == [k \in Keys |-> IF k \in ks THEN Excused ELSE passed[k]]

Held == {req[s].b : s \in Slots}
FreeId == CHOOSE i \in Ids : i \notin Range(table) \cup Held

Stale(k) == bucket[table[k]].last < now - 2 * Interval

\* performCleanup: what a request in flight holds is lost to the table.
Cleanup ==
  LET gone == {k \in Keys \ {"global"} : table[k] # 0 /\ Stale(k)}
  IN  IF now - lastCleanup < Interval
        THEN UNCHANGED <<table, lastCleanup, passed>>
        ELSE /\ table' = [k \in Keys |-> IF k \in gone THEN 0 ELSE table[k]]
             /\ lastCleanup' = now
             /\ passed' = Excuse({k \in gone : table[k] \in Held})

\* RateLimit, GlobalRateLimit, IPRateLimit, UserRateLimit: by their chains.
Arrive(s, chain) ==
  /\ kind = "bucket" /\ Arrival
  /\ req[s] = Idle /\ s = CHOOSE x \in Slots : req[x] = Idle
  /\ req' = [req EXCEPT ![s] = [Idle EXCEPT !.pc = "find", !.chain = chain]]
  /\ IF chain = <<"global">> THEN UNCHANGED <<table, lastCleanup, passed>> ELSE Cleanup
  /\ UNCHANGED <<kind, now, bucket, entry, admitted>>

\* getOrCreateIPBucket, getOrCreateUserBucket.
Find(s) ==
  LET k == Key(s)
      b == IF table[k] = 0 THEN FreeId ELSE table[k]
      beside == \E x \in Slots \ {s} : Inside(x) /\ Key(x) = k
  IN  /\ req[s].pc = "find"
      /\ bucket' = IF table[k] = 0 THEN [bucket EXCEPT ![b] = Full] ELSE bucket
      /\ table' = [table EXCEPT ![k] = b]
      /\ req' = [req EXCEPT ![s].pc = "refill", ![s].b = b]
      /\ passed' = Excuse(IF beside THEN {k} ELSE {})
      /\ UNCHANGED <<kind, now, lastCleanup, entry, arrived, admitted>>

Goes(s, pc, at, tok) ==
  /\ req' = [req EXCEPT ![s].pc = pc, ![s].at = at, ![s].tok = tok]
  /\ UNCHANGED <<kind, now, table, lastCleanup, entry, arrived, admitted>>

\* refillBucket loads, and stores.
RefillLoads(s) ==
  /\ req[s].pc = "refill"
  /\ Goes(s, "store", now, Min({Burst, Bucket(s).tokens + Rate * (now - Bucket(s).last)}))
  /\ UNCHANGED <<bucket, passed>>

\* MUTANT: lastRefill is not set.
LastRefill_Kept(s) == Bucket(s).last

LastRefill(s) == req[s].at

RefillStores(s) ==
  /\ req[s].pc = "store"
  /\ bucket' = [bucket EXCEPT ![req[s].b] = [tokens |-> req[s].tok, last |-> LastRefill(s)]]
  /\ Goes(s, "check", 0, 0)
  /\ UNCHANGED passed

Check(s) ==
  /\ req[s].pc = "check"
  /\ \/ /\ Bucket(s).tokens < 1
        /\ req' = [req EXCEPT ![s] = Idle]
        /\ UNCHANGED <<kind, now, table, lastCleanup, entry, arrived, admitted>>
     \/ Bucket(s).tokens >= 1 /\ Goes(s, "load", 0, 0)
  /\ UNCHANGED <<bucket, passed>>

\* bucket.tokens-- loads, and stores.
TakeLoads(s) ==
  /\ req[s].pc = "load"
  /\ Goes(s, "take", 0, Bucket(s).tokens)
  /\ UNCHANGED <<bucket, passed>>

\* The next bucket of the chain, or the handler.
TakeStores(s) ==
  /\ req[s].pc = "take"
  /\ bucket' = [bucket EXCEPT ![req[s].b].tokens = req[s].tok - 1]
  /\ passed' = [passed EXCEPT ![Key(s)] = IF @ = Excused THEN @ ELSE @ + 1]
  /\ req' = [req EXCEPT ![s] = IF Len(@.chain) = 1 THEN Idle
                               ELSE [Idle EXCEPT !.pc = "find", !.chain = Tail(req[s].chain)]]
  /\ UNCHANGED <<kind, now, table, lastCleanup, entry, arrived, admitted>>

\* ResetIPBucket, ResetUserBucket.
ResetBucket(k) ==
  /\ k # "global" /\ table[k] # 0
  /\ table' = [table EXCEPT ![k] = 0]
  /\ passed' = Excuse({k})
  /\ UNCHANGED <<kind, now, bucket, lastCleanup, req, entry, arrived, admitted>>
-----------------------------------------------------------------------------
(* The other two, each under its lock *)

Admit(e, allowed) ==
  /\ entry' = e
  /\ admitted' = IF allowed THEN Append(admitted, now) ELSE admitted
  /\ UNCHANGED <<kind, now, bucketVars>>

Begun == [count |-> 1, since |-> now]
Over == entry.count = 0 \/ now - entry.since > Window

\* allow: every request, a refused one too, starts the wait again.
Allow ==
  /\ kind = "visitors" /\ Arrival
  /\ \/ Over /\ Admit(Begun, TRUE)
     \/ ~Over /\ Admit([count |-> entry.count + 1, since |-> now], entry.count + 1 <= Limit)

CleanupVisitors ==
  /\ kind = "visitors" /\ entry # None /\ now - entry.since > 2 * Window
  /\ arrived' = arrived
  /\ Admit(None, FALSE)

CheckRateLimit ==
  /\ kind = "window" /\ Arrival
  /\ \/ Over /\ Admit(Begun, TRUE)
     \/ ~Over /\ Admit([entry EXCEPT !.count = @ + 1], entry.count + 1 <= Limit)

LimitNext ==
  \/ Tick
  \/ \E s \in Slots : \/ \E c \in Chains : Arrive(s, c)
                      \/ Find(s) \/ RefillLoads(s) \/ RefillStores(s)
                      \/ Check(s) \/ TakeLoads(s) \/ TakeStores(s)
  \/ \E k \in Keys : ResetBucket(k)
  \/ Allow \/ CleanupVisitors \/ CheckRateLimit
-----------------------------------------------------------------------------
\* Without a limit, the first request of a window goes through.
Most == IF Limit = 0 THEN 1 ELSE Limit

(* What the limiters let through.  A bucket that no two requests use at    *)
(* once hands out no more than its burst and what time has added, across   *)
(* the clean-up that throws buckets away and makes them full again         *)
(* (ratelimit.go:88-94, 246-270).  In any span as long as the window,      *)
(* allow (api/middleware.go:121-144) admits the limit, because a refused   *)
(* request starts the wait again, and CheckRateLimit (apikey.go:239-259)   *)
(* twice the limit, across the border of two windows: of one more than     *)
(* that, the last comes more than a window after the first.                *)
AdmitsWithinLimits ==
  /\ \A k \in Keys : passed[k] <= Burst + Rate * now
  /\ LET n == IF kind = "window" THEN 2 * Most ELSE Most
     IN  \A i \in 1 .. Len(admitted) - n : admitted[i + n] > admitted[i] + Window
=============================================================================
