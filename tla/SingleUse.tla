------------------------------- MODULE SingleUse -------------------------------
(***************************************************************************)
(* Single-use records: put_single_use and take_single_use of the session   *)
(* port, as the five adapters implement them.  They hold the nonces of the *)
(* direct grant and the markers of redeemed assertions, as a key and an    *)
(* expiry.  Each call is one atomic operation of its store.                *)
(*                                                                         *)
(* The adapters disagree about time, so a clock tick here is half a        *)
(* second: SQLite, Postgres and LMDB keep the expiry as given, DynamoDB    *)
(* truncates it to seconds, Valkey turns it into a time to live in whole   *)
(* seconds.  Postgres compares with the application's clock in one place   *)
(* and with its own, PgSkew ticks ahead, in the others.                    *)
(***************************************************************************)
EXTENDS Integers

CONSTANTS Key, None, PgSkew

VARIABLES
    store,  \* the adapter in use
    now,    \* the application's clock, in half seconds
    record  \* the expiry kept for each key, or None

Store == {"sqlite", "postgres", "lmdb", "valkey", "dynamo"}

ASSUME SingleUseAssumption == PgSkew \in Nat /\ None \notin Int

\* DateTime::timestamp, back in ticks.
WholeSeconds(t) == 2 * (t \div 2)

\* The store's own clock: NOW() in Postgres, Utc::now() elsewhere.
StoreClock == IF store = "postgres" THEN now + PgSkew ELSE now

\* What is found at a key.  Valkey drops a key at its expiry.
Found(k) ==
    IF record[k] # None /\ store = "valkey" /\ record[k] <= now THEN None ELSE record[k]

-----------------------------------------------------------------------------
(* put_single_use(key, expires_at): "claimed", "held" or "error". *)

\* INSERT ... ON CONFLICT DO UPDATE ... WHERE single_use.expires_at < now
put_single_use_sqlite(k) ==
    IF record[k] = None THEN "claimed" ELSE IF record[k] < now THEN "claimed" ELSE "held"
put_single_use_postgres(k) ==
    IF record[k] = None THEN "claimed" ELSE IF record[k] < now THEN "claimed" ELSE "held"

put_single_use_lmdb(k) ==
    IF record[k] = None THEN "claimed" ELSE IF record[k] <= now THEN "claimed" ELSE "held"

\* (Mistake: a record that would live less than a second is rounded down and kept.)
PutValkeyShort(k, expires_at) == IF Found(k) = None THEN "claimed" ELSE "held"

\* SET key NX EX ttl, unless less than SINGLE_USE_TTL_SECONDS_MIN is left.
put_single_use_valkey(k, expires_at) ==
    IF expires_at - now < 2 THEN "error" ELSE IF Found(k) = None THEN "claimed" ELSE "held"

\* attribute_not_exists(pk) OR expires_at < :now, in seconds
put_single_use_dynamo(k) ==
    IF record[k] = None THEN "claimed"
    ELSE IF record[k] < WholeSeconds(now) THEN "claimed" ELSE "held"

PutOutcome(k, expires_at) ==
    CASE store = "sqlite" -> put_single_use_sqlite(k)
      [] store = "postgres" -> put_single_use_postgres(k)
      [] store = "lmdb" -> put_single_use_lmdb(k)
      [] store = "valkey" -> put_single_use_valkey(k, expires_at)
      [] store = "dynamo" -> put_single_use_dynamo(k)

\* The expiry as kept.
Kept(expires_at) ==
    CASE store = "valkey" -> now + WholeSeconds(expires_at - now)
      [] store = "dynamo" -> WholeSeconds(expires_at)
      [] OTHER -> expires_at

put_single_use(k, expires_at) == record' = [record EXCEPT ![k] = Kept(expires_at)]

-----------------------------------------------------------------------------
(* take_single_use(key): whether a live record was removed. *)

take_single_use_sqlite(k) == record[k] > now
take_single_use_postgres(k) == record[k] > StoreClock
take_single_use_lmdb(k) == record[k] > now
take_single_use_valkey(k) == Found(k) # None
take_single_use_dynamo(k) == record[k] > now

Taken(k) ==
    IF record[k] = None THEN FALSE
    ELSE CASE store = "sqlite" -> take_single_use_sqlite(k)
           [] store = "postgres" -> take_single_use_postgres(k)
           [] store = "lmdb" -> take_single_use_lmdb(k)
           [] store = "valkey" -> take_single_use_valkey(k)
           [] store = "dynamo" -> take_single_use_dynamo(k)

\* SQL deletes only a live row; the others delete what is there.
take_single_use(k) ==
    record' = IF store \in {"sqlite", "postgres"} /\ ~Taken(k) THEN record
              ELSE [record EXCEPT ![k] = None]

-----------------------------------------------------------------------------
\* cleanup_expired_sessions (SQLite, Postgres, LMDB) and native expiry (DynamoDB's TTL,
\* which may come at any time after the expiry).
Reap(k) ==
    /\ record[k] # None
    /\ record[k] < StoreClock
    /\ record' = [record EXCEPT ![k] = None]
    /\ UNCHANGED <<store, now>>
=============================================================================
