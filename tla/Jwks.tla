--------------------------------- MODULE Jwks ----------------------------------
(***************************************************************************)
(* JwksCache of adapters/src/shared/jwks.rs: the keys of one provider,     *)
(* shared by the requests that validate its ID tokens.  A task is one      *)
(* request's call of get_key; each action is its code from one await to    *)
(* the next.  One permit limits the refills of an expired cache (its       *)
(* queue is first in, first out); a kid the cached set does not hold       *)
(* forces a refetch outside that permit, at most one per                   *)
(* MIN_REFRESH_INTERVAL.  A request that times out or is dropped drops its *)
(* task wherever it stands.                                                *)
(***************************************************************************)
EXTENDS IdentityProviders

CONSTANTS
    Request,               \* slots for concurrent requests, each with one task
    Documents,             \* the JWKS documents the provider publishes, in order
    Answers,               \* how the provider's HTTP answer may turn out
    MaxBody,               \* MAX_UPSTREAM_BODY_BYTES, on the scale of Answers
    Ttl,                   \* DEFAULT_TTL
    MIN_REFRESH_INTERVAL

ASSUME JwksAssumption == Ttl \in Nat \ {0} /\ MIN_REFRESH_INTERVAL \in Nat \ {0}

VARIABLES
    now,
    provider,       \* the provider, as from_config built it
    published,      \* index of the document the provider publishes
    cached,         \* the cached set: its document and fetched_at, or None
    refill,         \* the task that holds the refill permit, or None
    waiters,        \* tasks queued for it
    last_forced_refetch,
    forcedStart,    \* when the last forced refetch was sent (history)
    task

jwksVars == <<published, cached, refill, waiters, last_forced_refetch, forcedStart, task>>

Off == [pc |-> "off", kid |-> None, pass |-> 1, reply |-> None]

Keys(doc) == from_jwks(Documents[doc], provider.admitted).val

fresh == IF cached = None THEN FALSE ELSE now - cached.at < Ttl

\* What a task becomes with the set of a document in hand: the key, a forced
\* refetch on the first miss, a refusal on the second.
With(t, doc) ==
    IF KeyOf(Keys(doc), t.kid) # None THEN [t EXCEPT !.pc = "found", !.reply = doc]
    ELSE IF t.pass = 1 THEN [t EXCEPT !.pc = "forcedRead", !.reply = None]
    ELSE [t EXCEPT !.pc = "InvalidGrant", !.reply = None]

\* Task r goes on as t and gives the permit up: the first waiter, if any, has it.
Release(r, t) ==
    IF waiters = << >>
    THEN /\ refill' = None
         /\ task' = [task EXCEPT ![r] = t]
         /\ UNCHANGED waiters
    ELSE /\ refill' = Head(waiters)
         /\ waiters' = Tail(waiters)
         /\ task' = [task EXCEPT ![r] = t, ![Head(waiters)].pc = "recheck"]

Goes(r, t) == task' = [task EXCEPT ![r] = t] /\ UNCHANGED <<refill, waiters>>
CacheKept == UNCHANGED <<published, cached, last_forced_refetch, forcedStart>>

-----------------------------------------------------------------------------
(* get_key and get_keys *)

\* The call; an empty kid trips the assertion.
StartedTask(kid) == [Off EXCEPT !.pc = IF kid = "" THEN "panic" ELSE "read", !.kid = kid]

FreshCached(r) ==
    /\ task[r].pc = "read"
    /\ Goes(r, IF fresh THEN With(task[r], cached.doc) ELSE [task[r] EXCEPT !.pc = "elect"])
    /\ CacheKept

\* try_acquire fails while the permit is held or queued for.
Elect(r) ==
    /\ task[r].pc = "elect"
    /\ IF refill = None
       THEN /\ refill' = r
            /\ task' = [task EXCEPT ![r].pc = "recheck"]
            /\ UNCHANGED waiters
       ELSE Goes(r, [task[r] EXCEPT !.pc = "stale"])
    /\ CacheKept

\* any_cached: an expired set while someone refills, else wait for the permit.
ServeStale(r) ==
    /\ task[r].pc = "stale"
    /\ cached # None
    /\ Goes(r, With(task[r], cached.doc))
    /\ CacheKept
Queue(r) ==
    /\ task[r].pc = "stale"
    /\ cached = None
    /\ IF refill = None
       THEN /\ refill' = r
            /\ task' = [task EXCEPT ![r].pc = "recheck"]
            /\ UNCHANGED waiters
       ELSE /\ waiters' = Append(waiters, r)
            /\ task' = [task EXCEPT ![r].pc = "queued"]
            /\ UNCHANGED refill
    /\ CacheKept

\* With the permit: another holder may have filled the cache meanwhile.
Recheck(r) ==
    /\ task[r].pc = "recheck"
    /\ IF fresh THEN Release(r, With(task[r], cached.doc))
                ELSE Goes(r, [task[r] EXCEPT !.pc = "fetch"])
    /\ CacheKept

\* fetch_keys: the provider's answer, as the transport delivers it, parsed.
FetchKeys(a) ==
    LET c == parsed(a, MaxBody)
    IN  IF c.ok THEN from_jwks(Documents[published], provider.admitted) ELSE c

FetchReply(r) ==
    /\ task[r].pc = "fetch"
    /\ \E a \in Answers :
           IF FetchKeys(a).ok THEN Goes(r, [task[r] EXCEPT !.pc = "store", !.reply = published])
                              ELSE Release(r, [Off EXCEPT !.pc = "ProviderError"])
    /\ CacheKept

StoreKeys(r) ==
    /\ task[r].pc = "store"
    /\ cached' = [doc |-> task[r].reply, at |-> now]
    /\ Release(r, With(task[r], task[r].reply))
    /\ UNCHANGED <<published, last_forced_refetch, forcedStart>>

-----------------------------------------------------------------------------
(* refresh *)

TooSoon == IF last_forced_refetch = None THEN FALSE ELSE now - last_forced_refetch < MIN_REFRESH_INTERVAL

\* refresh returned: the second get_keys.
Again(t) == [t EXCEPT !.pc = "read", !.pass = 2, !.reply = None]

ForcedRead(r) ==
    /\ task[r].pc = "forcedRead"
    /\ Goes(r, IF TooSoon THEN Again(task[r]) ELSE [task[r] EXCEPT !.pc = "forcedWrite"])
    /\ CacheKept

\* (Mistake: the interval is not checked again under the write lock.)
ForcedWriteBlind(r) ==
    /\ task[r].pc = "forcedWrite"
    /\ Goes(r, [task[r] EXCEPT !.pc = "forcedFetch"])
    /\ last_forced_refetch' = now
    /\ forcedStart' = now
    /\ UNCHANGED <<published, cached>>

\* Under the write lock the interval is checked again and stamped, before the fetch.
ForcedWrite(r) ==
    /\ task[r].pc = "forcedWrite"
    /\ IF TooSoon
       THEN Goes(r, Again(task[r])) /\ UNCHANGED <<last_forced_refetch, forcedStart>>
       ELSE /\ Goes(r, [task[r] EXCEPT !.pc = "forcedFetch"])
            /\ last_forced_refetch' = now
            /\ forcedStart' = now
    /\ UNCHANGED <<published, cached>>

ForcedReply(r) ==
    /\ task[r].pc = "forcedFetch"
    /\ \E a \in Answers :
           Goes(r, IF FetchKeys(a).ok THEN [task[r] EXCEPT !.pc = "forcedStore", !.reply = published]
                                      ELSE [Off EXCEPT !.pc = "ProviderError"])
    /\ CacheKept

ForcedStore(r) ==
    /\ task[r].pc = "forcedStore"
    /\ cached' = [doc |-> task[r].reply, at |-> now]
    /\ Goes(r, Again(task[r]))
    /\ UNCHANGED <<published, last_forced_refetch, forcedStart>>

-----------------------------------------------------------------------------
\* The task's future is dropped: its permit or its place in the queue with it.
DropTask(r) ==
    /\ IF refill = r THEN Release(r, Off)
       ELSE /\ waiters' = RemoveFirst(waiters, r)
            /\ task' = [task EXCEPT ![r] = Off]
            /\ UNCHANGED refill
    /\ CacheKept

\* The provider publishes its next document.
Rotate ==
    /\ published < Len(Documents)
    /\ published' = published + 1
    /\ UNCHANGED <<cached, refill, waiters, last_forced_refetch, forcedStart, task>>

JwksInit ==
    /\ published = 1
    /\ cached = None
    /\ refill = None
    /\ waiters = << >>
    /\ last_forced_refetch = None
    /\ forcedStart = None
    /\ task = [r \in Request |-> Off]

TaskStep(r) ==
    \/ FreshCached(r) \/ Elect(r) \/ ServeStale(r) \/ Queue(r) \/ Recheck(r)
    \/ FetchReply(r) \/ StoreKeys(r)
    \/ ForcedRead(r) \/ ForcedWrite(r) \/ ForcedReply(r) \/ ForcedStore(r)

Holding == {"recheck", "fetch", "store"}
=============================================================================
