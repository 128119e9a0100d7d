# A TLA+ model of oidc-exchange

oidc-exchange validates identity-provider assertions and exchanges them for its
own access tokens and refresh tokens.  Its state is small: users and their
status, refresh-token sessions, retirement records of superseded refresh tokens,
single-use markers, and a few tables in memory.  What is hard is that every
request is a sequence of awaits on stores and providers, that many run at once,
that five different databases implement the session port, and that the decisions
taken (refuse, rotate, treat as theft and revoke, lock out) are security outcomes.

This directory holds the TLA+ modules that model the program, the TLC
configurations that check them, and the TLAPS proofs.  Paths below are relative
to `crates/` in the repository; `PROJECT.json` gives the lines each definition
translates.

Contents: 1 inventory, 2 modules, 3 runs, 4 proofs, 5 where the code and its
comments or expectations part, 6 what is not modelled.

## 1. Inventory

| Part | State | Operations | Talks to |
|---|---|---|---|
| Session port (`core/src/ports/repository.rs`, obligations SR1-SR5) | live sessions and retirement records by token hash, single-use records | store, get, resolve, rotate (compare-and-swap), revoke session/family/all, list, count, cleanup, put/take single-use | called by the token service, user administration, the reaper |
| Token service: refresh (`core/src/service/refresh.rs`) | what a request has read | resolve, expiry gate, user gate, swap, reuse response, answer | session port, user port, key manager, audit |
| Token service: exchange (`service/exchange.rs`, `service/assertion.rs`) | what a request has read | throttle, validate, bind (azp, at_hash, nonce, marker), look up or register, store, sign, audit, undo | provider, both stores, audit, user sync |
| Token service: revoke (`service/revoke.rs`) | none | refresh-token arm: get, delete; access-token arm: validate, revoke the family | session port, key manager |
| User administration (`service/user_admin.rs`, `domain/user.rs`) | status, fields, claims of users; counters | create, patch, delete, claims, list, statistics, revoke sessions | both stores, audit, user sync |
| Store adapters (`adapters/src/{sqlite,postgres,lmdb,valkey,dynamo}`) | tables, indexes, counters, rosters, guards | each port call as statements, transactions, scripts, pipelines or conditional writes | the database |
| Tokens and key managers (`service/{mod,claims}.rs`, `adapters/src/{local_keys,kms}`) | cached public key of the KMS | sign, verify, build and validate access tokens, resolve claims | KMS |
| Rate limiters (`adapters/src/rate_limit`, `server/src/middleware/{throttle,public_throttle}.rs`) | tables of buckets, permits | check, consume, evict | |
| Identity providers (`adapters/src/{oidc,apple,shared}`) | cached keys, refill permit, time of the last forced refetch | discover, get key, refetch, validate an ID token | provider |
| HTTP server (`server/src/{routes,middleware,error.rs}`) | requests in flight | layers of two listeners, handlers, operator gate | everything above |
| Configuration (`core/src/config.rs`, `server/src/bootstrap.rs`) | layers of settings | merge, resolve placeholders, default, validate | environment |
| Boot, reaper, shutdown (`server/src/{bootstrap,reaper,shutdown,main,lambda}.rs`, `ffi`) | stage of the process, listeners, drain deadline | open, build, bind, serve, sweep, drain, stop | everything |
| Audit sinks, webhook (`adapters/src/{sqs_audit,stdout_audit,webhook}`) | degraded state | emit, notify with retries | SQS, receiver |

Hard behaviours: concurrent redemptions of one token or of a token and its
successor; answers that are stale when they are acted on; an answer lost after
the swap committed; an operator racing a request that has passed the user gate;
the isolation each database really gives; several commands where one would be
needed, with a failure between any two; records that must outlive their session
but not their window; clocks that round or disagree; rows from before rotation,
versions, guards or rosters existed; redeployment with other settings; permits
held by a request that dies; a budget checked before it is consumed; a process
told to stop while a request hangs.  `PROJECT.json` lists these hazards, each at
its line and with the properties that would notice it going wrong.

What makes each part correct: one live generation per family (SR3); a rotation
is all or nothing (SR2) and leaves its record (SR4); a revoked family is gone
for good (SR5); reuse stays detectable for the retention window; a generation is
redeemed once; a lost answer does not cost the session; an alarm names a dead
family; a suspended user gets no tokens; an assertion is redeemed once; an
identity has one user; no update is lost; counters and indexes agree with rows;
a page walk shows everybody; nothing a request holds outlives it; a lockout
bounds guessing; user tokens and operator tokens do not mix; the server runs with
the settings it was given; a signal ends the process.

## 2. Modules

    SessionPort <--- TokenService        uses the contract, call by call
        ^  ^  ^----- SqliteSessions      implements it, statement by statement
        |  |-------- PostgresSessions    the same code shape at READ COMMITTED
        |  |-------- ValkeySessions      keys, index sets and a counter, command by command
        |  |-------- DynamoSessions      items and a roster, transactions and batches
        |----------- LmdbSessions        INSTANCE ... WITH: rows, filings, batched sweep

    SingleUse   <--- SignIn              the whole exchange over single-use records
    UserStores                           user rows of three stores, administration
    Config      <--- Boot                settings, then the process that has them
    IdentityProviders <--- Jwks     <-\
                      <--- Tokens   <--- Ingress      the HTTP server
                           RateLimits <-/

`EXTENDS` composes: an arrow's source has the target's variables and operators.
`LmdbSessions` keeps variables of its own and maps them onto the contract
(`Port == INSTANCE SessionPort WITH ...`; its `retired` is `FiledRecords`, the
records that are filed).  `...Proofs` modules hold the proofs; `MC...` modules
give TLC its symmetry sets and the sets that are too large for a cfg file.  All
other constants are in the cfg files.  Definitions marked *(Mistake: ...)* are
deliberately wrong variants of the definition that follows them, used to see that
a property notices.

**`SessionPort`** is the abstract specification.  `live` and `retired` are the
`sessions` and `retired_refresh_tokens` tables, as functions from hashes to rows or
`None`.  A token is represented by its hash.  A session keeps the fields decisions
are taken on (`user_id`, `family_id`, `generation`, `expires_at`); device, address
and location are carried unchanged by the code and left out.  `NoFamily` is the
empty string that marks a row stored before rotation existed.  `minted` and
`families` record what has been used, because the code draws both at random;
`closed` and `written` are history for SR5 and SR4.  `resolve_refresh_token` is an
operator, not an action.  `rotate_refresh_token` and `cleanup_expired_sessions` take
the clock value `at` that the adapter had read, any earlier moment of the run.

**`TokenService`** has one record per request in flight (`req`, `adm`), and an
action for the code between two awaits:

| Code | Actions |
|---|---|
| `refresh` | `Present`; `RefuseUnknown` |
| `rotate_and_respond` | `RefuseExpired`, `ReadUser`, `RefuseSuspended`, `Swap`, `LoseSwap`, `Respond` |
| `refresh_without_rotation` | `RefuseExpired`, `ReadUser`, `RefuseSuspended`, `RespondWithoutRotation` |
| `revoke_family_for_reuse` | `RevokeForReuse`, `RaiseAlarm` |
| `exchange` from the user lookup on | `Admit`, `StoreSession`, `Respond`, `AuditRejected`, `UndoStore` |
| `revoke_refresh_token`, `revoke_access_token` | `LookupForRevoke`, `RevokeRefreshToken`; `RevokeAccessToken` |
| `apply_validated_patch` (update, delete) | `AdminRead`, `AdminWrite`, `AdminRevokeAll` |
| `admin_revoke_user_sessions`, `admin_revoke_user_session` | `AdminEndSessions`, `AdminRevokeAll`; `AdminFindSession`, `AdminRevokeSession` |
| an error at any await | `FailRequest`, `FailAdmin` |
| the process stops or is redeployed | `Restart` |
| the reaper, the clock | `Environment` |

A write whose answer is lost is the write followed by the failure.  Requests that
end without having changed or read anything that matters are not steps.
`RevokeAccessToken` may name any family that exists, which includes every family
an access token was issued for.  Deletion is soft, so a user that exists is never
absent and the missing-user refusal has no action.

**`SqliteSessions`** models the adapter on a pool of connections: what is outside a
transaction is one step, a transaction is its statements.  SQLite (external) enters
as `writer`, who holds the write lock, and `stale`, which read transactions another
commit has overtaken.

**`PostgresSessions`** is the same code at READ COMMITTED.  A sweep is a snapshot
(`SweepSessions`), a visit to each row that waits for its lock (`SweepRow`), a second
statement with a snapshot of its own (`SweepRecords`) and the commit.  Only rows of
`sessions` have locks in the model; two transactions that meet on a retirement
record both only delete it.  `revoked` is history.

**`ValkeySessions`** adds to `live` and `retired` (the `session:` and `retired:` keys)
the two index sets with their deadlines and the `active_sessions` counter.

| Code | Actions |
|---|---|
| `store_refresh_token` (a pipeline) | `StoreSessionKey`, `StoreFamilyKey` |
| `rotate_refresh_token` | `RotateRefreshToken` (the gate) with `RotationScript` |
| `decr_counter_clamped` | `Decr`, `Clamp` |
| `revoke_session` | `DeleteSession`, `DeleteNothing`, `UnfileSession` |
| `revoke_family` | `ReadFamily`, `DeleteMember`, `UnfileMember`, `MembersDone`, `CardFamily`, `DropFamily` |
| `revoke_all_user_sessions` | `ReadUserSet`, `DeleteUserKeys`, `DropUserSet`, `ScanRecords`, `DeleteRecord`, `UnfileRecord`, `RecordsDone` |
| `cleanup_expired_sessions` | `ScanUserSets`, `PruneUser`, `SremUser`, `DropUser`; `ScanFamilySets`, `PruneFamily`, `SremFamily`, `DropEmptyFamily`; `ScanSessions`, `SetCounter`, `GetCounter` |
| a failed command, a stopped process; expiry of keys | `Abandon`; `Expire` |

Adjacent commands are one step where nothing another client does can tell: an
`EXISTS` or `HGET` of a key followed by its `DEL`, because a hash that has left `live`
never returns.  A store whose pipeline has not been answered cannot be named by a
redemption or a revocation: its token and family have not left the process.  Scans
and sweeps do meet its keys.  `MaxRemovals` bounds the revocations and sweeps of a
run (`begun` counts them); `sentenced` is history.

A key lives by its TTL and not by the `expires_at` in its fields, and the two differ.  So a
tick is a fraction of a second (`Second` ticks to one), each key has a deadline of its own,
and the conversions are those of the code: `num_seconds` truncates (`valkey/mod.rs:268`, 572,
589), a record gets a second at least, the pipeline's `EXPIRE NX` and `GT` (`extend_ttl`)
compare deadlines exactly, and the script's `bump_ttl` (59-64) compares the truncated number
with `TTL`, which the server rounds to the nearest second.  The clock is read up to `MaxDelay`
ticks before the command it is for, and twice for a rotation (`Readings`).

**`LmdbSessions`**: write transactions are exclusive, so each call is one step; the
sweep is a read transaction (`SweepRead`) and a write transaction a batch
(`commit_deletion_batch`), halved by `BatchMapFull`, ended by `SweepFails`; then the
same for the single-use records.

**`DynamoSessions`**: SESSION# and RETIRED# items are `live` and `retired`; `roster` is
the user's item with its `families` map (`item`: it exists, `root`: the attribute
exists).

| Code | Actions |
|---|---|
| `store_refresh_token` | `store_refresh_token_dynamo` (one transaction) |
| `rotate_refresh_token` | `ReadRosterForRotate`, `TransactRotate` with `MovedEntry` |
| `revoke_session` | `CallRevoke`, `TransactRevoke` |
| `revoke_family` | `CallRevokeFamily`, `user_ids_for_family` (a scan in pages), `ReadEntry`, `DeleteItem`, `ConfirmEntry`, `ClearEntry` |
| `revoke_all_user_sessions` | `CallRevokeAll`, `ReadAll`, `DeleteItem`, `ConfirmAll`, `ClearAll` |
| boot's `backfill_session_rosters` | `backfill_session_rosters` |
| an error or unprocessed keys at the last attempt; TTL deletion | `Fails`; `Expire` |

**`SingleUse`** is `put_single_use` and `take_single_use` of the five stores.  A tick is
half a second, because the stores round: Postgres compares with the application's
clock in one place and its own (`PgSkew` ahead) in another, DynamoDB truncates,
Valkey turns an expiry into whole seconds to live.

**`SignIn`** is `exchange` from arrival to its terminal record, over either grant:
`RefuseEarly`, `Bind` (lifetime, azp, at_hash), `consume_nonce`,
`claim_assertion_marker`, `LookupUser`, `CreateUser`, `LookupWinner`, `StoreSession`,
`EmitTerminal`, `UndoStore`, and `Vanish` for a client that goes away.  Operators and
sweeps are part of its world.  Every assertion names one person.

**`UserStores`** is the user half of SQLite, Postgres and DynamoDB with
`user_admin.rs` on top: `StartCall` (read and validate), `ReadForUpdate`, the
conditional write of each store, `retry_on_version_conflict`, registration, page
walks (`BeginWalk`, `admin_list_users`), the guards' backfill.  A call's id stands for
the values it writes.  `admin_stats` is the answer, or none: DynamoDB's `count_by_status`
parses its counters as unsigned numbers and fails on a negative one
(`count_by_status_answers`).

**`Config`** is functions: `merge_raw_defaults`, placeholders, the defaults of each
section, `...Resolves` for each resolver, `validate`.  A setting is a value with the
features the code distinguishes (a secret is a name with a length, a URL a scheme
and a host).  **`Boot`** is one process from `load_config` or `run_config_command`
through `build_service`, `build_routers`, `bind_listeners`, `spawn_session_reaper` to
`shutdown_signal` and `run_with_drain_deadline`; the databases' migrations and probes
are functions of what the database was found to be.  That a lockout limiter was built does
not mean that it counts: the operator gate keys it on the socket's peer, which only a listener
the binary has bound hands on (`lockout_is_active`).

**`IdentityProviders`** is functions: bounded bodies, discovery, pinned origins, JWKS
parsing, ID-token validation for OIDC and Apple.  **`Jwks`** is the cache: `Elect`,
`ServeStale`, `Queue`, `Recheck`, `FetchReply`, `StoreKeys` around the refill permit;
`ForcedRead`, `ForcedWrite`, `ForcedReply`, `ForcedStore` for an unknown kid;
`DropTask`.  **`Tokens`** is functions: key managers, claims, access tokens, operators'
credentials.  **`RateLimits`** is functions from a table of buckets to the possible
tables and decisions (evictions depend on a hash map's order).

**`Ingress`** is the server on top of those:

| Code | Actions |
|---|---|
| layers: base path, request id, client address, audit context | `Arrive`, `ArriveWithToken` |
| `public_throttle` | `Throttle`, `Deny`, `Admit`, `Respond` |
| `/token` | `HandleToken`, `ExchangeCode`, `LookUpKey`, `Validate`, `KeyNotFound`, `Mint`, `Record` |
| `/revoke`, the rest | `HandleRevoke`, `RevokeFamily`; `HandleOther` |
| the operator gate | `CheckLockout`, `Authenticate`, `RecordRefusal` |
| an internal handler | `Operate`, `RecordMutation`, `Notify` |
| timeout, disconnect, panic | `Drop` |

The operator gate's lockout is kept for `peer_key`, the peer of the connection.  A request
under Lambda or behind the FFI has no `ConnectInfo`: it is neither checked nor charged
(`internal_auth.rs:78-87`, 151).

A deployment is a record: its `runtime` (`server`, `lambda`, `ffi`), `provider` and its keys, the `inputs` clients may send with
`max_arrivals` and `max_time`, `base_path`, `grants_id_token`, the proxies
(`trusted_proxies`, `trusted_proxy_hops`, `max_chain`, `ip_header`,
`trust_headers_from_any_peer`), the audit sink (`enforce`, `degraded_after`), the
limits (`window`, `budgets`, `max_entries`, `max_concurrent_requests`, `lockout`), the
service's `keys`, `issuer`, `audience`, `ttl` and claim `templates`, and the operators'
`methods`, `secret`, `token_audience`, `required_claim`, `required_value`, `leeway`,
`max_operator_ttl`.

## 3. Runs

Every run checks for deadlock.

| Run | Instance | Properties and what they show |
|---|---|---|
| `refresh` | 4 hashes, a legacy row, 2 families, 2 clients, 4 requests, both settings of `refresh_rotation`, grace 1, TTL 2, retention 3, time 0..3 | `RedeemedOnce`: a generation is redeemed once. `AlarmedFamilyIsDead`. `OneRetryIsSafe`: a lost answer does not cost the session. `RetiredStaysRefusedWhenOff`, `LegacyReplayIsUnknown`: across redeployments and for old rows. `PortSpec`: the service uses the store as the contract allows. |
| `admin_race` | 3 hashes, a legacy row, 2 families, 1 operator, 2 clients, 2 requests, time 0..1, `FairSpec` | `RotationCannotSurviveSuspension`: a refresh past the user gate does not outlive a suspension. `RequestsEnd`: every request ends. |
| `sqlite` | 4 hashes, a legacy row, 2 families, 2 calls, TTL and retention 1, time 0..2 | `PortSpec`: the statements implement the contract. `ReadsAreCurrent`: what the separate reads may answer. |
| `postgres` | the same | `RotationOwnsItsRow`, `ListingHasOneGeneration`, `RevokedFamilyIsDead`. |
| `valkey` | 3 hashes, a legacy row, 2 families, 2 users, 2 calls, any 2 removals, 2 ticks to the second, clock readings up to 1 tick old, lifetime and retention 3 ticks, time 0..2 | `FamilyIndexComplete`: the next revocation finds what this one missed. `ReuseDetectableUnlessRevoked`. Both but for a deadline's last second. `UserIndexComplete`, `CounterNeverBelowLive`: index and counter, until something deletes a whole set. |
| `lmdb` | 4 hashes, a legacy row, 1 family, 1 single-use key, batches of 2, one halving, time 0..2, `LmdbFairSpec` | `FilingsAgree`, `SingleUseHolds`; `ImplementsPort`: the refinement; `SweepEnds`. |
| `dynamo` | 4 hashes, a legacy row, 1 family, 2 calls, 2 attempts, time 0..2 | `ClosedFamilyStaysDead`, `RosterEntryIsCurrent`, `ReuseDetectableUnlessRevoking`. |
| `dynamo_lockout` | 3 hashes, 2 families | `RosterAcceptsSignIn`: expected to be violated, see section 5. |
| `users` | 2 users (one without version, guard and count), 1 identity, 2 calls, 2 attempts, versions up to 2, pages of 1, each of three stores | `OneUserPerIdentity`; `CountersMatchRows`: the statistics are the rows, or are refused where DynamoDB's uncounted users made a counter negative; `FieldsChangeOnlyByTheirPatch`, `ListingIsComplete`. |
| `sign_in` | 2 requests, 1 assertion, 2 users at most, each of five stores, both grants, half seconds 0..3, Postgres 1 ahead | `DirectGrantOnce`, `LiveAssertionOnce`: one redemption. `ErrorLeavesNoSession`. `LoserFindsTheWinner`. |
| `boot` | a public exchange on SQLite, both planes on Postgres and Valkey, an admin server on DynamoDB, each with any two of 70 settings changed in the file or the environment; 2 requests, deadline 2 | `InternalApiIsGuarded`: with a lockout that counts exactly on the binary's listeners. `TopmostWins`, `SignalStops`. |
| `ingress` | five deployments (behind a proxy with a KMS; direct with local keys and Apple; operators only; the public plane on Lambda; operators behind the FFI), 2 requests at a time, 2 or 3 in all, a provider that rotates its key once | `PermitsAreReturned`, `LockoutHolds`, `TokensKeepTheirPlane`, `BudgetIsSpentByItsOwner`, `ForcedRefetchIsRare`. |

**Bounds.**  Two concurrent calls or requests are enough for the races of this code:
every conflict is between one's read and another's write of the same row, set, item
or bucket.  Requests in sequence give replays and retries.  Three hashes are a chain
of two rotations or two families, four are both.  The clock passes every deadline
(retention, TTL, grace, nonce, lockout window) in every run that has one, except
TTL in `admin_race`, where expiry is not the subject.  In `valkey` a lifetime of one and
a half seconds has a truncated TTL (one second) that ends before its `expires_at`, and
readings that are late by half a second make one that is shorter than another of the same
deadline; the longest lifetimes, which end after the run, are in the proofs.  `MaxAttempts` of 2 has a first
attempt, a retry and the giving up.  In `boot`, two changed settings reach each check
that relates two settings.  The proofs remove the bounds for what they cover.

`MCIngress` also evaluates, as assumptions, the pure functions over their cases: keys
verify what they sign, an algorithm comes from the key and not from the token,
discovery refuses a foreign issuer, an oversized or a malformed document, request ids
are acceptable, `Retry-After` is positive.

**Fairness.**  `FairSpec` has weak fairness of each request's own steps: the runtime
polls a future until it completes, and an await on a store or a sink returns, if only
with an error.  `LmdbFairSpec` has it of the sweep's next step: a blocking task that
runs to its end.  `BootSpec` has it of time and of the watchdog of
`run_with_drain_deadline`, and of nothing else: requests and sweeps may hang.  There
is no fairness on arrivals, failures, operators or signals.  The other
specifications state none.

## 4. Proofs

The assumptions are those named in the modules: `PortAssumption` and
`ServiceAssumption` (bounds that the validation of the configuration enforces, and
that the marker values are not rows), `SqliteAssumption` and `PostgresAssumption` (the
marker is not a call), `SingleUseAssumption` and `SignInAssumption` (one pair of keys for
each assertion, expiries in whole seconds, the database's clock not behind),
`LmdbAssumption` (a batch holds at least one entry), `DynamoAssumption` (the empty string is
no token hash), `UserAssumption` (finitely many
users from before the counter item) and `ValkeyAssumption` (finitely many sessions from
before rotation; an even number of ticks to the second, so that half of one is exact); each
also says that its markers are no rows, numbers or cursors.
`ConfigAssumption` and `BootAssumption` are about the form of a source: a file has every section,
the gate's methods are a list, a variable used as unset is not set, and no variable's value is
itself a placeholder for such a one.  `IngressAssumption` is about a deployment and its clients:
limits are of the values `config.rs` and the limiters accept; the operators' audience is not the
API's; each client has an address (which reaches the server by the socket, or by Lambda if it
reports one, or not at all), comes through at most one proxy, and cannot sign with the
service's key; a proxy that is trusted is the one hop that was configured, and reports its
client's address and no other; no operator's token is for the API's audience alone.  The last two
are the operator's duty, not the code's (section 5 says what happens to a server that trusts any
peer).  All theorems hold for any sets of hashes, families, users, clients, calls, requests and
assertions, finite ones where a cardinality is counted.

**`SessionPortProofs`**: `PortTypeCorrect`, `PortSingleLiveGeneration`,
`PortClosedFamilyStaysDead`, `PortReuseStaysDetectable`, `PortDeadlineNeverMoves`.  The
properties are not inductive one by one.  `PortIInv` adds: what is live or retired was
minted (a fresh hash overwrites nothing), the family of every row is in `families` (a
sign-in joins no existing family), no closed family has a row, each retained record
is the one that was `written`.  `StepSuccession` is about what every adapter inherits: the
record of a generation names a successor of its own family and user, whose record, if any,
is of that family too (`Succession`).

**`ContractProofs`** is about two modules that extend the contract.  Of `TokenService`:
`ServiceInvariant`, `ServiceTypeCorrect`, `ServiceRedeemsOnce`,
`ServiceAlarmedFamilyIsDead`, `ServiceImplementsPort`.  The step from the service to the
port needs to know what a stale resolution is still good for: the session a request
remembers was the row of that hash, rows never change while they are live, so if the
hash is live at the swap the remembered row is the current one (`Remembers`,
`OperatorRemembers`).  `ServiceRedeemsOnce` follows because the swap consumes its row
and hashes are minted once (`SwapsSound`).

On top of that invariant, three races: `ServiceRetiredStaysRefused` (with
rotation off no step writes a record, and a redeployment leaves no request in
flight), `ServiceLegacyReplayIsUnknown` (no record ever names a hash of a legacy row, so
such a token resolves as live or as unknown), and
`ServiceRotationCannotSurviveSuspension`.  The last assumes `OneOperator`: the status an
operator has read is still the status when it is written (`ReadIsCurrent`), so every
suspension leaves a sweep outstanding, and after the sweep no swap can put a rotated
row back, since it would need a live row to consume (`SweptIsClean`).

`ServiceOneRetryIsSafe` is about a lost answer.  A record that still counts names a successor
that is live or was spent, since nothing else takes a successor away and leaves the record
(`SuccessorsAccounted`); so a request that found its token Retired can name the swap or the
logout that spent it (`RetiredIsSpent`).  That a third presentation is then needed is a matter
of counting: the requests that still ask about a token and the swaps it led to number its
presentations apart (`Numbered`).

Of `SqliteSessions`: `SqliteImplementsPort`, a refinement by the identity mapping.  The
transactions' statements stutter and their commits are the port's actions; for that,
`SqliteIInv` says that a rotation with the write lock still has the row it selected
(`SnapshotHolds`, `OneWriter`), that the hashes of rotations in flight are fresh and
different (`RotationFits`, `RotationsDiffer`), that the record to be inserted is the one
the contract asks for (`RecordFits`), and that a sweep's argument is one the contract's
revocations take (`SweepFits`).

`SqliteReadsAreCurrent` follows a resolution through its three queries: what it has read keeps
fitting, because a hash that was minted and is not live never comes back and a record is
written once (`ReadsFit`).  By `Succession`, a successor that is live keeps the family of the
record it was read from alive.

**`PostgresProofs`**: `PostgresInvariant`, `PostgresRotationOwnsItsRow`,
`PostgresRevokedFamilyIsDead`, `PostgresListingHasOneGeneration`.  The adapter does not
implement `PortSpec` (a revocation can miss a row, section 5), so these are proved from
an invariant of its own: what a transaction deleted it has locked (`LocksHold`), and a
family sweep has met a missing row, or will, or has deleted or will visit every live
generation of the family (`Covered`).

**`UserProofs`** is about two modules.  Of `SignIn`: `SignInInvariant`,
`SignInDirectGrantOnce`, `SignInLiveAssertionOnce`, `SignInErrorLeavesNoSession`,
`SignInLoserFindsTheWinner`, for each of the five stores and any lifetimes.
`SignInIInv` says of a nonce that its record, once gone, never returns and
that whoever removed it is the only request past it (`NonceSound`); of a marker claimed
while its assertion was alive, that it stands, less than a second short in Valkey,
until the assertion is dead by the store's clock (`MarkerSound`, with `KeptSound` for the
rounding and `MarkerRefuses` for the five `put_single_use`); of a stored session, that its
request still owes a success record or the undo (`SessionOf`); and of a request that lost
the race to register, that there is a user or one was deleted (`RaceOf`).

Of `UserStores`: `UserInvariant`, `UserOnePerIdentity`,
`UserCountersMatchRows`, `UserNoLostUpdate`, `UserListingIsComplete`, for each of the three
adapters.  The version of
a row only moves up, so a write conditioned on the version that was read writes over exactly
the row that was read (`CallSound`).  A guard names the standing user of its identity and
an index entry its row (`GuardsSound`, `IndexSound`); the counters are cardinalities of
finite sets of rows, and every write moves a row and its count together (`CountsSound`), from
which follows when DynamoDB's are negative.  Of
the walk, `WalkSound` says that its cursor separates the users shown from those still to
come; that a page has a last row is a lemma about finite sets under a strict order.

**`LmdbProofs`**: `LmdbInvariant`, `LmdbFilingsAgree`, `LmdbImplementsPort`, `LmdbSingleUse`.
A write transaction excludes the others, so only the sweep is more than one step: it
reads the entries to remove, and removes them batch by batch while sign-ins, rotations
and revocations go on.  `RowsInv` says of an entry in the queue (`Queued`) that, since a
hash never comes back, it finds the row it was read from, or the record a rotation has made of
it, or nothing; so a removal leaves the indexes in agreement and takes only what is
past its deadline (`RemoveSound`), which is what the contract's sweep allows.

**`ValkeyProofs`**: `ValkeyInvariant`, `ValkeyFamilyIndexComplete`, `ValkeyReuseDetectable`,
`ValkeyUserIndexComplete`, `ValkeyCounterNeverBelowLive`.  Here every command is a step, and
what a call has read can be old when it acts on it.  `Forward` names what never turns back: a
hash that is dead stays dead, a member of a family's set belongs to it for good, a family
with nothing left stays that way.  `CallOf` records for each place in a call which of these it
relies on (nothing can join a family's set between the SCARD and the DEL, because nothing is left
to rotate); `StoreOf` does it for a sign-in halfway through its pipeline.  A step that only
removes keys and dead members (`Shrunk`) keeps the invariant, whichever call it belongs to; what
remains are the two halves of a store, the rotation and the expiry.  Those rest on two facts about
whole seconds (`WholeSeconds`, `BumpTtl`): a TTL is less than a second short of the deadline it was
computed from, and `bump_ttl` leaves a set less than a second short of it as well.  So a set ends
less than a second before the `expires_at` of a member (`FamilyOutlives`, `UserFiled`), a record less
than a second before its own (`RecordsOutlive`), and what a set may lack, and a call may find
missing, is in its last second (`Spent`, `FamilySpent`).  The counter covers the settled sessions and
what the calls in flight have deleted and not yet taken off (`CounterCovers`): a sum over the
calls, stated as the cardinality of a set of pairs.

**`DynamoProofs`**: `DynamoInvariant`, `DynamoClosedFamilyStaysDead`,
`DynamoRosterEntryIsCurrent`, `DynamoReuseDetectable`.  A call reads the roster, deletes what the
roster named, reads it again and clears it; nothing is locked.  It works because only a sign-in
and a rotation add rows, both move the family's entry in the same transaction, and a rotation is
refused without an entry: an entry names the live row of its family and remembers every record
(`EntriesFit`).  Hashes never come back, so what a revocation has read and deleted stays deleted
(`DeletesEntry`), and if the entry is still the one it read, nothing of the family is left
(`FamilyGone`, which `Forward` carries over every other step).  A revocation that fails half-way
has deleted only rows, or records of families it had marked (`Condemned`).  Steps that only take
away (`Shrinks`) are proved once; what remains are the sign-in and the rotation.

**`ServerProofs`** is about two modules as well.  Of `Ingress`: `IngressHeldInvariant`,
`IngressPermitsAreReturned`, `IngressForcedRefetchIsRare`, `IngressLockoutHolds`,
`IngressBudgetIsSpentByItsOwner`, `IngressTokensKeepTheirPlane`, for every deployment, every
number of requests and every input of the kinds below.  A step of a request moves that request
alone, along `Flow`, and keeps the input it arrived with (`StepMoves`), so each theorem looks only
at the handlers that touch its state (`StepFrame`).

* A permit belongs to a request that is in service, and the refill permit to the one task that
  holds it; a task waits in the queue exactly once, wherever it is dropped from (`HeldInv`).
* Failures are counted to the last until a peer's budget is spent; from then on only the requests
  that had passed the check can fail, which is the overshoot `LockoutHolds` allows (`LockoutInv`).
  A runtime without peers never gets a bucket.
* What is counted against an address, and what still will be, was sent from it (`BudgetInv`, with
  `CountedAddress` for the choice of the address).
* Whatever the service's key has signed is a token that was issued or an operators' one, for two
  different audiences (`PlaneInv`); a template or a user's claim never changes the audience
  (`MintedForTheApi`).

Of `Boot`: `BootInvariant`, `BootInternalApiIsGuarded`, `BootTopmostWins`, for any file and any
alternatives.  Settings, service and planes are built from one another (`BootInv`), a leaf of the
layered tree is the topmost one that was written (`Layered`), no placeholder without a value is
left in it (`TextsAreExpanded`), and resolving it changes no leaf but the role and the base path
(`ResolvedKeeps`).  Only `main` binds addresses, and it binds those of every plane it serves
(`BoundInv`), so its gate has a lockout and the others' have none.

Each inductive invariant was checked by TLC on the run's instance before it was proved.

**Only model-checked.**  Liveness (`RequestsEnd`, `SweepEnds`, `SignalStops`): fairness is
out of the prover's reach.  What depends on recursion or on induction over data: the functions
`MCIngress` evaluates.  `RosterAcceptsSignIn`, which is false.  Every other property of a run is
a theorem.

## 5. Where code, comments and expectations part

**A finding.**  On DynamoDB, `revoke_all_user_sessions` ends with
`REMOVE #s, families` on the user's roster (`adapters/src/dynamo/mod.rs:2161`).  The item
stays, so the backfill (line 645) skips it; the next sign-in's `SET families.#f` needs
that attribute, and DynamoDB refuses it, as the comment at lines 1012-1015 says.  A
user whose sessions were all revoked cannot sign in again.  The run `dynamo_lockout`
shows it; `dynamo` goes on past it.

**Exceptions the properties name, because the code needs them.**

* `OneRetryIsSafe`: if a replay of h1 inside its window consumes h2, the holder of h2
  who retries is answered with an alarm.
* `ReadsAreCurrent`: a `resolve_refresh_token` overtaken by a revocation may answer
  `Retired`, which raises an alarm for a family already gone.  Postgres has the same
  code.
* `RevokedFamilyIsDead`: Postgres' `revoke_family` (`postgres/mod.rs:962`) waits for a
  rotation's row lock, finds the row gone and does not see its replacement: success is
  reported and the family is alive.  `revoke_all_user_sessions` has the same shape.
* `FamilyIndexComplete`: Valkey's revocations work through a list they read first
  (`valkey/mod.rs:757`); a rotation in between leaves a live session they report
  removed.  The family's set names it, the user's set after `revoke_all_user_sessions`
  does not.
* `UserIndexComplete`, `CounterNeverBelowLive` hold until a sweep or a
  `revoke_all_user_sessions` begins: the sweep's `SCARD` and `DEL` of a user's set are two
  commands, so are its count and its `SET` of the counter, and a revocation that
  deletes a session before that sign-in's `INCR` clamps the counter with a `SET 0`.
* `FamilyIndexComplete`, `UserIndexComplete`, `ReuseDetectableUnlessRevoked` except the last
  second of a deadline.  Valkey's TTLs are truncated, so a session or a record is gone up to
  a second before its written `expires_at`; a token replayed in that second is unknown and raises
  no alarm.  And `bump_ttl` may leave an index set up to half a second shorter than the session it
  has just filed: set for 99 s at 0, a rotation at 0.3 s asks for 99 s, `TTL` answers 99, the set
  ends at 99.0 and the session at 99.3.  In between, `revoke_family` and the listing do not find
  a session that can still be redeemed.  The comment at `valkey/mod.rs:55-57` says "greatest-of
  semantics".
* `CountersMatchRows`: users stored before the counter item are not counted, and on DynamoDB
  `count_by_status` fails while a counter is negative (`dynamo/mod.rs:1322-1330`).  Suspending or
  deleting such a user takes one off a count it is not in; where more of them than of the counted
  users have stopped being active, the statistics are an error until enough users register or are
  reactivated, or the counter is repaired.  The comment at 1302-1305 says only that such rows "are reflected only after
  their next write".
* `LockoutHolds`, `InternalApiIsGuarded`: without a peer there is no lockout.  Lambda and the FFI
  count no failed operator credential, which `bootstrap.rs:552-558` says and 582-588 warns of.
  The bound is per bucket: a peer whose bucket newer ones evict (`rate_limit/mod.rs:119`) starts
  again.
* `OneUserPerIdentity`: on DynamoDB, not for a deleted user an administrator's late
  write brought back, nor before the backfill of guards has run.
* `ErrorLeavesNoSession`: signing that fails after `store_refresh_token` leaves a live
  session nobody holds a token of; so does a failing undo.
* `RotationCannotSurviveSuspension`: not while a failed sweep is outstanding (a repeated
  patch sees no change of status and does not sweep), and the theorem is for one
  operator.

**What the code does that no property denies.**

* `exchange.rs:530`: a sign-in that looked the user up before a deletion stores its
  session after the deletion's sweep.  Refreshing is refused, but the session is
  listed and counted, and `admin_revoke_user_sessions` refuses deleted users.
* `valkey/mod.rs:953`: the sweep's `DEL` of a user's set that `SCARD` found empty takes with it a
  member a sign-in has added in between, which `revoke_all_user_sessions` and the listing then do
  not find.  `UserIndexComplete` does not speak of a store that is being swept.
* `user_admin.rs:271`: a status patch is validated against a status read earlier; a user
  deleted in between comes back, and two operators can leave a suspension unswept.
  `admin_merge_claims` (line 447) writes the merged claims whole: of two merges one may
  be lost.
* `valkey/mod.rs:1091`: the sweep asserts on a second read of the counter, and a sign-in
  in between makes it panic.  `count_active_sessions` fails while the counter is
  negative.  A listing that races a rotation may show neither generation.
* SQLite: a rotation that lost its race gets a store error, since its `DELETE` is refused
  for the stale snapshot; the zero-rows branch is never taken.  `ensure_version_column`
  (`sqlite/mod.rs:145`) checks and then alters, so two processes opening a database for
  the first time may collide.
* `postgres/mod.rs:201`: the probe that forgives a denied migration looks at part of the
  schema (its comment at 194-199 says why it may), so a database from before rotation
  boots and fails at its first rotation.
* DynamoDB: sessions from before rosters have no entry and are not listed.
* `public_throttle.rs:81-84`: the failure budget is consumed and its decision ignored, so
  it never refuses anybody; `.specs/service/specs/06-configuration.md:238-241`
  describes a budget.  Requests that time out or are dropped are not charged.  A
  poisoned limiter lock fails open.  Provider names over 128 characters have no key.
  With `trust_headers_from_any_peer` and an `ip_header`, a direct client names its own
  address and is not throttled.  The public listener and the service have separate
  limiters.
* A KMS outage turns valid operator tokens into 401s that count towards the lockout;
  the gate and the service cache the KMS key separately.
* JWKS cache: stale keys are served while a refill is in flight; a slow refill can
  overwrite the newer set of a forced refetch; a request that misses a kid while
  another's forced fetch is in flight is refused; an empty `kid` trips an assertion
  (500).  The pinned-origin check is in mode `Warn` for endpoints.
* A mutation is recorded before its webhook, and a timeout between the write and the
  record leaves it unrecorded.
* `oauth_error_response` has an `unreachable!` for `Error::Unauthorized`, which no public
  handler returns.
* Configuration: `request_timeout` of zero or over an hour and a `cleanup_interval` over
  30 days pass the resolver and panic at start.  The default role is `exchange` where
  docs say `all`.  `config check <path>` ignores placeholders.  The auth method `oidc` is
  accepted by the resolver and refused by the gate.  `localhost` is not resolved by
  `listeners_collide`.  With role `all` and `internal_api.enabled = false` the admin
  listener is still bound, without the collision check.

## 6. Not modelled

* Cryptography: a signature is the key material that made it and the form it is in.
* Sockets, TLS, HTTP framing and timers of clients: one nondeterministic answer.
* TOML syntax, error wording, response bodies, headers, the OpenAPI document.
* Telemetry, the access log and the redaction of upstream excerpts: text, with no state
  the service decides on.
* The text of audit events and the sinks' I/O; when a record is written and what its
  refusal does is modelled.
* The webhook's retry loop is one step: its attempts are identical and share a delivery
  id, and what a receiver does with a repeated one is outside the repository.
* The admin UI (a separate web application over the internal API), the language
  bindings, the FFI's marshalling, deployment scripts: none holds state of the service.
