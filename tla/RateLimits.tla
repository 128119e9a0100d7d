------------------------------- MODULE RateLimits ------------------------------
(***************************************************************************)
(* The two in-process rate limiters: the fixed windows of the public plane *)
(* (middleware/throttle.rs) and the lockout of operators                   *)
(* (adapters/src/rate_limit).  Each call runs under the limiter's lock, so *)
(* it is one function from a table of buckets to a table and a decision.   *)
(* A table maps the keys it holds to the start of their bucket and what it *)
(* has consumed.  A call yields a set of outcomes: which of several        *)
(* equally old entries is evicted depends on the order of a hash map.      *)
(***************************************************************************)
EXTENDS Integers, FiniteSets, Functions

Bucket(at, n) == [started_at |-> at, consumed |-> n]

\* HashMap::retain
Retain(table, lifetime, at) ==
    Restrict(table, {k \in DOMAIN table : at - table[k].started_at < lifetime})

Oldest(table, among) == {k \in among : \A j \in among : table[k].started_at <= table[j].started_at}

Put(table, key, bucket) == [k \in DOMAIN table \cup {key} |-> IF k = key THEN bucket ELSE table[k]]

-----------------------------------------------------------------------------
(* FixedWindowRateLimiter.  A key is <<kind, value>>. *)

\* RateLimitBudgets::for_key
for_key(budgets, key) == budgets[key[1]]

\* The tables with room for the key: a full one loses an oldest entry.
Roomy(table, key, max_entries) ==
    IF key \notin DOMAIN table /\ Cardinality(DOMAIN table) = max_entries
    THEN {Restrict(table, DOMAIN table \ {k}) : k \in Oldest(table, DOMAIN table)}
    ELSE {table}

\* check_and_consume: check_at with the limiter's clock.
window_check_at(table, key, at, window, budgets, max_entries) ==
    IF for_key(budgets, key) = 0 THEN {[table |-> table, allow |-> TRUE]}
    ELSE {LET bucket == IF key \in DOMAIN t THEN t[key] ELSE Bucket(at, 0)
              allow == bucket.consumed < for_key(budgets, key)
          IN  [table |-> Put(t, key, Bucket(bucket.started_at, bucket.consumed + IF allow THEN 1 ELSE 0)),
               allow |-> allow] : t \in Roomy(Retain(table, window, at), key, max_entries)}

-----------------------------------------------------------------------------
(* AdminAuthRateLimiter: cfg has failure_window, lockout, max_failures, max_tracked. *)

bucket_lifetime(cfg) == cfg.failure_window + cfg.lockout

\* live_bucket: the peer's bucket, a new one if need be; the newest never goes.
live_bucket(table, peer, at, cfg) ==
    LET kept == Retain(table, bucket_lifetime(cfg), at)
        grown == Put(kept, peer, Bucket(at, 0))
    IN  IF peer \in DOMAIN kept THEN {kept}
        ELSE IF Cardinality(DOMAIN grown) <= cfg.max_tracked THEN {grown}
        ELSE {Restrict(grown, DOMAIN grown \ {k}) : k \in Oldest(grown, DOMAIN kept)}

\* (Mistake: the last failure of the budget is let pass too.)
DecisionLate(bucket, at, cfg) ==
    bucket.consumed <= cfg.max_failures \/ at - bucket.started_at >= bucket_lifetime(cfg)

decision_at(bucket, at, cfg) ==
    bucket.consumed < cfg.max_failures \/ at - bucket.started_at >= bucket_lifetime(cfg)

\* check: consults the budget, spends nothing.
admin_check_at(table, peer, at, cfg) ==
    {[table |-> t, allow |-> decision_at(t[peer], at, cfg)] : t \in live_bucket(table, peer, at, cfg)}

\* consume: a bucket that outlived its window starts over, unless it is spent.
Renewed(bucket, at, cfg) ==
    LET elapsed == at - bucket.started_at
    IN  IF \/ elapsed >= bucket_lifetime(cfg)
           \/ elapsed >= cfg.failure_window /\ bucket.consumed < cfg.max_failures
        THEN Bucket(at, 0) ELSE bucket

admin_consume_at(table, peer, at, cfg) ==
    {LET b == Renewed(t[peer], at, cfg)
         n == IF b.consumed < cfg.max_failures THEN b.consumed + 1 ELSE b.consumed
     IN  [table |-> Put(t, peer, Bucket(b.started_at, n)), allow |-> n < cfg.max_failures]
        : t \in live_bucket(table, peer, at, cfg)}

\* remaining_secs: the Retry-After of a denial is at least a second.
remaining_secs(lifetime, elapsed) == IF lifetime - elapsed > 1 THEN lifetime - elapsed ELSE 1
=============================================================================
