----------------------------- MODULE LmdbSessions ------------------------------
(***************************************************************************)
(* The LMDB session store (crates/adapters/src/lmdb/mod.rs): the rows, the *)
(* two indexes every write files them in, the single-use records, and the  *)
(* batched sweep that runs beside the other calls.                         *)
(*                                                                         *)
(* Of LMDB (external) the adapter relies on this: write transactions are   *)
(* exclusive and atomic, so each call is one step here; only the sweep is  *)
(* several, its read transaction and then one write transaction a batch.   *)
(* A call whose transaction fails changes nothing and is not a step.       *)
(***************************************************************************)
EXTENDS Integers, FiniteSets

CONSTANTS
    Hash, Family, User, NoFamily, None, Retention, Ttl, Legacy, MaxTime, \* as in SessionPort
    Key,          \* single-use keys
    BatchSize,    \* LMDB_CLEANUP_BATCH_SIZE
    MaxHalvings   \* CLEANUP_MAX_BATCH_HALVINGS

VARIABLES
    sessions,        \* token_hash -> Session
    user_sessions,   \* the filings "{user_id}:{token_hash}"
    retired_tokens,  \* token_hash -> RetiredRefreshToken
    family_index,    \* <<family_id, token_hash>> -> "live" | "retired"
    single_use,      \* digest key -> expires_at
    sweep,           \* cleanup_expired_sessions in progress
    now,
    minted, families, closed, written, \* history, as in SessionPort
    claims           \* per key: how often a put, and a take, was answered true in time

lmdbVars == <<sessions, user_sessions, retired_tokens, family_index, single_use, sweep, now,
              minted, families, closed, written, claims>>

\* A record counts for the contract while the family index names it: the sweep may
\* strip the filing of a record that is past its deadline (see FilingsAgree).
Filed(h) == /\ retired_tokens[h] # None
            /\ family_index[<<retired_tokens[h].family_id, h>>] = "retired"
FiledRecords == [h \in Hash |-> IF Filed(h) THEN retired_tokens[h] ELSE None]

Port == INSTANCE SessionPort WITH live <- sessions, retired <- FiledRecords

ASSUME LmdbAssumption ==
    /\ BatchSize \in Nat \ {0}
    /\ MaxHalvings \in Nat
    /\ None \notin {"live", "retired"}
    /\ None \notin Nat
    /\ Retention \in Nat \ {0} /\ {Ttl, MaxTime} \subseteq Nat
    /\ Legacy \subseteq Hash
    /\ NoFamily \notin Family
    /\ None \notin Port!Session /\ None \notin Port!RetiredRefreshToken

\* Expired: what the sweep queues, with the ids it needs to unhook the filings.
LiveEntry(h) == [kind |-> "Live", hash |-> h, user_id |-> sessions[h].user_id,
                 family_id |-> sessions[h].family_id]
RetiredEntry(h) == [kind |-> "Retired", hash |-> h, user_id |-> retired_tokens[h].user_id,
                    family_id |-> retired_tokens[h].family_id]

Idle == [pc |-> "idle", at |-> 0, queue |-> {}, width |-> 0, halvings |-> 0, keys |-> {}]

\* Reads, each one read transaction.
get_session_by_refresh_token(h) == sessions[h]

\* The user's filings by prefix, and the row of each (a filing without one is skipped).
list_live_sessions(u) ==
    {h \in Hash : /\ <<u, h>> \in user_sessions
                  /\ LET row == get_session_by_refresh_token(h)
                     IN  row # None /\ row.user_id = u /\ row.expires_at > now}

\* Every row that has not expired.
count_active_sessions ==
    Cardinality({h \in Hash : sessions[h] # None /\ sessions[h].expires_at > now})

portHistory == <<minted, families, written>>
rows == <<sessions, user_sessions, retired_tokens, family_index>>

-----------------------------------------------------------------------------
\* remove_live_entry_raw and remove_retired_entry_raw, for every entry of E: the row
\* and its filings.
RemoveEntries(E) ==
    LET L == {e \in E : e.kind = "Live"}
        R == E \ L
    IN  /\ sessions' = [h \in Hash |-> IF \E e \in L : e.hash = h THEN None ELSE sessions[h]]
        /\ user_sessions' = user_sessions \ {<<e.user_id, e.hash>> : e \in L}
        /\ retired_tokens' = [h \in Hash |-> IF \E e \in R : e.hash = h
                                             THEN None ELSE retired_tokens[h]]
        /\ family_index' = [k \in Family \X Hash |->
                               IF \E e \in E : k = <<e.family_id, e.hash>>
                               THEN None ELSE family_index[k]]

\* The live row, and its filing for its owner and (unless it is a legacy row) family.
install_live_entry(h, s, rest, users, index) ==
    /\ sessions' = [rest EXCEPT ![h] = s]
    /\ user_sessions' = users \cup {<<s.user_id, h>>}
    /\ family_index' = IF s.family_id = NoFamily THEN index
                       ELSE [index EXCEPT ![<<s.family_id, h>>] = "live"]

store_refresh_token(h, s) ==
    /\ install_live_entry(h, s, sessions, user_sessions, family_index)
    /\ minted' = minted \cup {h}
    /\ families' = families \cup {s.family_id}
    /\ UNCHANGED <<retired_tokens, single_use, sweep, now, closed, written, claims>>

\* (Mistake: the retention is not capped at the family's deadline.)
UncappedRecord(s, h2) ==
    [family_id |-> s.family_id, user_id |-> s.user_id, successor_hash |-> h2,
     retired_at |-> now, expires_at |-> now + Retention]

\* The record a rotation writes for the generation s it retires.
retirement_record(s, h2) ==
    [family_id |-> s.family_id, user_id |-> s.user_id, successor_hash |-> h2,
     retired_at |-> now, expires_at |-> Port!retention_deadline(now, s.expires_at)]

\* The compare-and-swap, one write transaction: the live row and its filings go, its
\* record is filed as retired, the replacement is installed.  s: the replacement.
rotate_refresh_token(h, h2, s) ==
    LET old    == sessions[h]
        legacy == old.family_id = NoFamily
        rec    == retirement_record(old, h2)
        index  == IF legacy THEN family_index
                  ELSE [family_index EXCEPT ![<<old.family_id, h>>] = "retired"]
    IN  /\ old # None
        /\ retired_tokens' = IF legacy THEN retired_tokens ELSE [retired_tokens EXCEPT ![h] = rec]
        /\ written' = IF legacy THEN written ELSE [written EXCEPT ![h] = rec]
        /\ install_live_entry(h2, s, [sessions EXCEPT ![h] = None],
                              user_sessions \ {<<old.user_id, h>>}, index)
        /\ minted' = minted \cup {h2}
        /\ families' = families \cup {s.family_id}
        /\ UNCHANGED <<single_use, sweep, now, closed, claims>>

revoke_session(h) ==
    /\ sessions[h] # None
    /\ RemoveEntries({LiveEntry(h)})
    /\ UNCHANGED <<portHistory, closed, single_use, sweep, now, claims>>

\* revoke_family_wtxn: whatever the family index names.  A filing whose row is
\* missing makes the call fail.
revoke_family(f) ==
    LET L == {h \in Hash : family_index[<<f, h>>] = "live"}
        R == {h \in Hash : family_index[<<f, h>>] = "retired"}
    IN  /\ \A h \in L : sessions[h] # None
        /\ \A h \in R : retired_tokens[h] # None
        /\ RemoveEntries({LiveEntry(h) : h \in L} \cup {RetiredEntry(h) : h \in R})
        /\ closed' = closed \cup {f}
        /\ UNCHANGED <<portHistory, single_use, sweep, now, claims>>

\* The live rows its index names and, by a scan, the user's records.
revoke_all_user_sessions(u) ==
    LET L == {h \in Hash : <<u, h>> \in user_sessions}
        R == {h \in Hash : retired_tokens[h] # None /\ retired_tokens[h].user_id = u}
    IN  /\ \A h \in L : sessions[h] # None
        /\ RemoveEntries({LiveEntry(h) : h \in L} \cup {RetiredEntry(h) : h \in R})
        /\ closed' = closed \cup (Port!FamiliesOf(u) \ {NoFamily})
        /\ UNCHANGED <<portHistory, single_use, sweep, now, claims>>

-----------------------------------------------------------------------------
(* cleanup_expired_sessions. *)

Halve(w) == IF w \div 2 > 1 THEN w \div 2 ELSE 1
Smaller(m, n) == IF m < n THEN m ELSE n

\* (Mistake: a row that is about to expire is queued as well.)
SweepReadEarly ==
    LET Q == {LiveEntry(h) : h \in {k \in Hash : sessions[k] # None /\ sessions[k].expires_at <= now + 1}}
             \cup
             {RetiredEntry(h) : h \in {k \in Hash : /\ retired_tokens[k] # None
                                                    /\ retired_tokens[k].expires_at <= now + 1}}
    IN  /\ sweep.pc = "idle"
        /\ sweep' = [Idle EXCEPT !.pc = "batch", !.at = now, !.queue = Q,
                                 !.width = Smaller(BatchSize, Cardinality(Q))]
        /\ UNCHANGED <<rows, portHistory, closed, single_use, now, claims>>

\* The read phase: one snapshot, entries past their deadline.
SweepRead ==
    LET Q == {LiveEntry(h) : h \in {k \in Hash : sessions[k] # None /\ sessions[k].expires_at <= now}}
             \cup
             {RetiredEntry(h) : h \in {k \in Hash : /\ retired_tokens[k] # None
                                                    /\ retired_tokens[k].expires_at <= now}}
    IN  /\ sweep.pc = "idle"
        /\ sweep' = [Idle EXCEPT !.pc = "batch", !.at = now, !.queue = Q,
                                 !.width = Smaller(BatchSize, Cardinality(Q))]
        /\ UNCHANGED <<rows, portHistory, closed, single_use, now, claims>>

\* One committed write transaction: width entries leave the queue.
commit_deletion_batch ==
    /\ sweep.pc = "batch" /\ sweep.queue # {}
    /\ \E B \in SUBSET sweep.queue :
          /\ Cardinality(B) = sweep.width
          /\ RemoveEntries(B)
          /\ sweep' = [sweep EXCEPT !.queue = @ \ B, !.halvings = 0,
                         !.width = Smaller(BatchSize, Cardinality(sweep.queue \ B))]
    /\ UNCHANGED <<portHistory, closed, single_use, now, claims>>

\* (Mistake: the attempts do not run out.)
RetryForever ==
    /\ sweep.pc = "batch" /\ sweep.queue # {}
    /\ sweep' = [sweep EXCEPT !.width = Halve(@), !.halvings = 1 - @]
    /\ UNCHANGED <<rows, portHistory, closed, single_use, now, claims>>

\* MDB_MAP_FULL: nothing was written; the batch is retried at half width.
BatchMapFull ==
    /\ sweep.pc = "batch" /\ sweep.queue # {}
    /\ sweep.width > 1 /\ sweep.halvings < MaxHalvings
    /\ sweep' = [sweep EXCEPT !.width = Halve(@), !.halvings = @ + 1]
    /\ UNCHANGED <<rows, portHistory, closed, single_use, now, claims>>

\* Any other failure, or a full map at width 1, ends the sweep with an error; so
\* does the process dying.  The batches already committed stay.
SweepFails ==
    /\ sweep.pc # "idle"
    /\ sweep' = Idle
    /\ UNCHANGED <<rows, portHistory, closed, single_use, now, claims>>

\* The queue is empty: the expired single-use records are read, in a transaction of
\* their own ...
SweepReadSingleUse ==
    /\ sweep.pc = "batch" /\ sweep.queue = {}
    /\ sweep' = [sweep EXCEPT !.pc = "single_use",
                   !.keys = {k \in Key : single_use[k] # None /\ single_use[k] <= sweep.at}]
    /\ UNCHANGED <<rows, portHistory, closed, single_use, now, claims>>

\* ... and deleted by key in a later one.
SweepSingleUse ==
    /\ sweep.pc = "single_use"
    /\ single_use' = [k \in Key |-> IF k \in sweep.keys THEN None ELSE single_use[k]]
    /\ sweep' = Idle
    /\ UNCHANGED <<rows, portHistory, closed, now, claims>>

-----------------------------------------------------------------------------
(* Single-use records.  The expiry of a key never changes: it is the exp claim of *)
(* the assertion the key digests, or the deadline of a random nonce.              *)

ExpiryOf(k) == Ttl
HeldAt(k, t) == single_use[k] # None /\ single_use[k] > t

\* (Mistake: a record in its last second no longer counts.)
PutOverLive(k) ==
    /\ ~HeldAt(k, now + 1)
    /\ single_use' = [single_use EXCEPT ![k] = ExpiryOf(k)]
    /\ claims' = [claims EXCEPT ![k].put = IF now < ExpiryOf(k) THEN @ + 1 ELSE @]
    /\ UNCHANGED <<rows, portHistory, closed, sweep, now>>

\* Answered true: no live record holds the key.  (Answered false, nothing changes.)
put_single_use(k) ==
    /\ ~HeldAt(k, now)
    /\ single_use' = [single_use EXCEPT ![k] = ExpiryOf(k)]
    /\ claims' = [claims EXCEPT ![k].put = IF now < ExpiryOf(k) THEN @ + 1 ELSE @]
    /\ UNCHANGED <<rows, portHistory, closed, sweep, now>>

\* Whatever is present is deleted; true if it was live.
take_single_use(k) ==
    /\ single_use[k] # None
    /\ single_use' = [single_use EXCEPT ![k] = None]
    /\ claims' = [claims EXCEPT ![k].take = IF HeldAt(k, now) THEN @ + 1 ELSE @]
    /\ UNCHANGED <<rows, portHistory, closed, sweep, now>>

-----------------------------------------------------------------------------
Tick ==
    /\ now < MaxTime
    /\ now' = now + 1
    /\ UNCHANGED <<rows, portHistory, closed, single_use, sweep, claims>>

LmdbInit ==
    /\ sessions \in [Hash -> {None} \cup {Port!LegacyRow(u) : u \in User}]
    /\ \A h \in Hash : sessions[h] # None <=> h \in Legacy
    /\ user_sessions = {<<sessions[h].user_id, h>> : h \in Legacy}
    /\ retired_tokens = [h \in Hash |-> None]
    /\ family_index = [k \in Family \X Hash |-> None]
    /\ single_use = [k \in Key |-> None]
    /\ sweep = Idle
    /\ now = 0
    /\ minted = Legacy /\ families = {} /\ closed = {}
    /\ written = [h \in Hash |-> None]
    /\ claims = [k \in Key |-> [put |-> 0, take |-> 0]]

\* The core's calls: a sign-in's first generation; a redemption, which may have
\* looked at the row's deadline some time before.
SignIn ==
    \E h \in Hash \ minted, f \in Family \ families, u \in User :
        store_refresh_token(h, [user_id |-> u, family_id |-> f, generation |-> 0,
                                expires_at |-> now + Ttl])

Redeem ==
    \E h \in Hash, h2 \in Hash \ minted, f \in Family :
        /\ sessions[h] # None
        /\ IF sessions[h].family_id = NoFamily THEN f \notin families
                                               ELSE f = sessions[h].family_id
        /\ rotate_refresh_token(h, h2, [user_id |-> sessions[h].user_id, family_id |-> f,
                                        generation |-> sessions[h].generation + 1,
                                        expires_at |-> sessions[h].expires_at])

SweepStep ==
    \/ commit_deletion_batch \/ BatchMapFull
    \/ SweepReadSingleUse \/ SweepSingleUse

LmdbNext ==
    \/ SignIn \/ Redeem
    \/ \E h \in Hash : revoke_session(h)
    \/ \E f \in families : revoke_family(f)
    \/ \E u \in User : revoke_all_user_sessions(u)
    \* a nonce is put once and taken; a marker is put by every request that presents it
    \/ \E k \in Key : (claims[k].take = 0 /\ put_single_use(k)) \/ take_single_use(k)
    \/ SweepRead \/ SweepStep \/ SweepFails
    \/ Tick

LmdbSpec == LmdbInit /\ [][LmdbNext]_lmdbVars

\* The sweep runs on a blocking thread of its own: it goes on until it ends.
LmdbFairSpec == LmdbSpec /\ WF_lmdbVars(SweepStep)

-----------------------------------------------------------------------------
\* What makes revoke_family and revoke_all_user_sessions complete and free of their
\* "names ... but none is stored" errors: between any two transactions, also when a
\* sweep acts on what it read before a rotation, the filings are exactly the live
\* rows, so that no session is missing from a listing, and every "retired" filing has
\* its record.  A sweep that queued an expired row does delete the filing of the record
\* a rotation has meanwhile put in its place: the deadline of such a record has passed,
\* being capped at the family's, so that revoke_family misses it changes no answer.
FilingsAgree ==
    /\ user_sessions = {<<sessions[h].user_id, h>> : h \in {k \in Hash : sessions[k] # None}}
    /\ \A u \in User : list_live_sessions(u) = Port!list_live_sessions(u)
    /\ count_active_sessions = Cardinality(UNION {list_live_sessions(u) : u \in User})
    /\ \A f \in Family, h \in Hash :
          /\ family_index[<<f, h>>] = "live" <=> sessions[h] # None /\ sessions[h].family_id = f
          /\ family_index[<<f, h>>] = "retired" =>
                retired_tokens[h] # None /\ retired_tokens[h].family_id = f
    /\ \A h \in Hash : retired_tokens[h] # None /\ ~Filed(h) => retired_tokens[h].expires_at <= now

\* A key is claimed, and burned, at most once before it expires: neither the sweep's
\* read-then-delete nor an overwritten expired record frees a live one.
SingleUseHolds ==
    \A k \in Key : claims[k].put <= 1 /\ claims[k].take <= claims[k].put

\* The store implements the port's contract.
ImplementsPort == Port!PortSpec

\* However often the map is full, the sweep ends: halving cannot go on.
SweepEnds == (sweep.pc # "idle") ~> (sweep.pc = "idle")
=============================================================================
